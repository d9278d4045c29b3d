CONSTANTS
    Sizes = {0, 1, 6, 17}
    Base = 4
    MaxBuff = 4
    SockBuf = 6
    Faults = {"reset", "exit"}
CHECK_DEADLOCK FALSE
SPECIFICATION FairSpec
INVARIANTS SizeKept AnswerIsWhole
PROPERTIES Ends
