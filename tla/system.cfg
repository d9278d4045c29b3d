CONSTANTS
    Conns = {c1, c2, c3}
    NoConn = NoConn
    NumFds = 3
    NumThreads = 2
    MaxThreads = 3
    LateSignal = {}
    PromptClose = TRUE
    Faults = {}
    Concurrent = 1
CHECK_DEADLOCK FALSE
SPECIFICATION SysSpec
INVARIANTS LoadBounded
PROPERTIES RunEnds
