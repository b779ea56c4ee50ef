CONSTANTS
    a = a
    b = b
    s = s
    f = f
    opA = opA
    opS = opS
    opF = opF
    Cmds = {a}
    Opcode <- MCOpcode
    Kind <- MCKind
    None = None
    Ack = Ack
    SlotChoices = {1}
    HostBuffers = 0
    BtuQueueLen = 3
    MaxEvents = 1
    MaxPackets = 0
    MaxAlarms = 1
    MayDrop = {"event"}
SPECIFICATION Spec
INVARIANT CancelIsFinal
