SPECIFICATION Spec
CONSTANTS
    Devices = {a, b}
    None = None
    MaxCalls = 1
    MaxPeer = 2
INVARIANTS StreamIsKnown ShownIsPeer
CHECK_DEADLOCK FALSE
