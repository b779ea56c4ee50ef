SPECIFICATION FairSpec
CONSTANTS
    Devices = {a}
    None = None
    MaxCalls = 2
    MaxPeer = 2
PROPERTIES DeinitCompletes
CHECK_DEADLOCK FALSE
