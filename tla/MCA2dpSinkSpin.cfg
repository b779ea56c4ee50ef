SPECIFICATION FairSpec
CONSTANTS
    Pressers = {hci}
    MaxConfigs = 1
    MaxMsgs = 1
    Limit <- MCLimit
    Floor = 0
    MemoryRunsOut = FALSE
    MayDeinit = FALSE
PROPERTY PressureEnds
