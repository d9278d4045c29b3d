CONSTANTS
    Fds = {f1, f2, f3}
    NoFd = NoFd
    Concurrent = 1
    NumThreads = 2
    MaxThreads = 3
    Word = 5
    LateSignal = {}
    Memcached = TRUE
    Race = FALSE
    Network = {"refuse", "eof"}
CHECK_DEADLOCK FALSE
SPECIFICATION FairSpec
PROPERTIES Reports OtherLoadLate
