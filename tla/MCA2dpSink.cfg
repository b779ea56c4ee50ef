SPECIFICATION Spec
CONSTANTS
    Pressers = {hci}
    MaxConfigs = 2
    MaxMsgs = 1
    Limit <- MCLimit
    Floor = 0
    MemoryRunsOut = TRUE
    MayDeinit = TRUE
INVARIANTS TypeOK FramesNotStale QueueBounded PlaysAfterReset
CHECK_DEADLOCK FALSE
