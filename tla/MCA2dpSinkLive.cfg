SPECIFICATION FairSpec
CONSTANTS
    Pressers = {hci}
    MaxConfigs = 1
    MaxMsgs = 1
    Limit <- MCLimitOne
    Floor = 0
    MemoryRunsOut = TRUE
    MayDeinit = FALSE
PROPERTY HostProceeds
PROPERTY QueueDrains
INVARIANT NothingFails
