CONSTANTS
    Mod = 7
    Near = 3
    PrioNum = 3
    Thresh <- MCThresh
    Window = 2
    TimeoutThresh = 1
    MaxGap = 1
    Aging = TRUE
    Extras = {"peerReset"}
SPECIFICATION Spec
INVARIANTS TypeOK LastSeqTracked LastAckTracked BytesExact FlightOrdered
PROPERTIES TimeoutMeansOutstanding MarkNeverLower
