SPECIFICATION Spec
CONSTANTS
    Devices = {a}
    None = None
    MaxCalls = 2
    MaxPeer = 2
INVARIANTS WaitsUntilClosed
CHECK_DEADLOCK FALSE
