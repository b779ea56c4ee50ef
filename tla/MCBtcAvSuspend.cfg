SPECIFICATION FairSpec
CONSTANTS
    Devices = {a}
    None = None
    MaxCalls = 3
    MaxPeer = 1
PROPERTIES LocalSuspendEnds
CHECK_DEADLOCK FALSE
