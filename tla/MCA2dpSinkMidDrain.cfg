SPECIFICATION Spec
CONSTANTS
    Pressers = {hci}
    MaxConfigs = 2
    MaxMsgs = 2
    Limit <- MCLimit
    Floor = 0
    MemoryRunsOut = FALSE
    MayDeinit = FALSE
INVARIANT DecoderMatchesPacket
