CONSTANTS
    a = a
    b = b
    s = s
    f = f
    opA = opA
    opS = opS
    opF = opF
    Cmds = {s}
    Opcode <- MCOpcode
    Kind <- MCKind
    None = None
    Ack = Ack
    SlotChoices = {1}
    HostBuffers = 1
    BtuQueueLen = 3
    MaxEvents = 1
    MaxPackets = 0
    MaxAlarms = 0
    MayDrop = {"complete"}
SPECIFICATION FairSpec
PROPERTY CallerReleased
CHECK_DEADLOCK FALSE
