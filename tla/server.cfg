CONSTANTS
    Conns = {c1, c2}
    NoConn = NoConn
    NumFds = 2
    NumThreads = 2
    MaxThreads = 3
    LateSignal = {}
    PromptClose = TRUE
    Faults = {"idle", "reset"}
CHECK_DEADLOCK FALSE
SPECIFICATION FairSpec
INVARIANTS RightResponse ClosesOwnOnly
PROPERTIES ServedAndReleased
