CONSTANTS
    Fds = {f1, f2, f3}
    NoFd = NoFd
    Concurrent = 2
    NumThreads = 2
    MaxThreads = 3
    Word = 5
    LateSignal = {}
    Memcached = FALSE
    Race = FALSE
    Network = {"refuse", "reset", "eof"}
CHECK_DEADLOCK FALSE
SPECIFICATION Spec
SYMMETRY FdSymmetry
INVARIANTS TypeOK RequestOnce CountersExact ReportAccounts
PROPERTIES ImplementsGenerator UsesPool
