SPECIFICATION FairSpec
CONSTANTS
    Devices = {a}
    None = None
    MaxCalls = 2
    MaxPeer = 1
INVARIANTS StreamIsShown
PROPERTIES OwnOpenEnds OwnCloseEnds LocalSuspendEnds
CHECK_DEADLOCK FALSE
