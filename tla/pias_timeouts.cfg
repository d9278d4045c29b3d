CONSTANTS
    Mod = 10
    Near = 5
    PrioNum = 2
    Thresh <- MCThresh
    Window = 3
    TimeoutThresh = 3
    MaxGap = 1
    Aging = TRUE
    Extras = {}
SPECIFICATION Spec
INVARIANTS TimeoutsCounted
