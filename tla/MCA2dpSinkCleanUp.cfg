SPECIFICATION Spec
CONSTANTS
    Pressers = {hci}
    MaxConfigs = 1
    MaxMsgs = 1
    Limit <- MCLimit
    Floor = 0
    MemoryRunsOut = FALSE
    MayDeinit = TRUE
INVARIANT CleanUpRuns
CHECK_DEADLOCK FALSE
