CONSTANTS
    Fds = {f1, f2, f3}
    NoFd = NoFd
    Concurrent = 2
    NumThreads = 2
    MaxThreads = 3
    Word = 5
    LateSignal = {}
    Memcached = FALSE
    Race = FALSE
    Network = {}
CHECK_DEADLOCK FALSE
SPECIFICATION Spec
SYMMETRY FdSymmetry
INVARIANTS ThreadsSuffice
