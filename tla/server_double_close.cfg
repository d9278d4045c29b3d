CONSTANTS
    Conns = {c1, c2}
    NoConn = NoConn
    NumFds = 2
    NumThreads = 2
    MaxThreads = 3
    LateSignal = {}
    PromptClose = FALSE
    Faults = {}
CHECK_DEADLOCK FALSE
SPECIFICATION Spec
INVARIANTS ClosesOwnOnly
