CONSTANTS
    Files <- MCFiles
    TableEntry = 2
    MaxCdf = 4
    Draws = {1, 2, 3, 4}
    Configs <- MCConfigs
    Interfaces <- MCInterfaces
    MaxIps = 2
    MaxThreads = 3
    Held = 4
    Backup = 4
    MaxFlows = 7
    Thresholds <- MCThresholds
    SToUs = 2
    IntMax = 3
    MaxTime = 3
CHECK_DEADLOCK FALSE
SPECIFICATION Spec
INVARIANTS InBounds SizesFollowFile ReportCounts ReportRight
