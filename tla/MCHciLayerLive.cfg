CONSTANTS
    a = a
    b = b
    s = s
    f = f
    opA = opA
    opS = opS
    opF = opF
    Cmds = {a, s, f}
    Opcode <- MCOpcode
    Kind <- MCKind
    None = None
    Ack = Ack
    SlotChoices = {1}
    HostBuffers = 1
    BtuQueueLen = 3
    MaxEvents = 1
    MaxPackets = 1
    MaxAlarms = 1
    MayDrop = {"event"}
SPECIFICATION FairSpec
INVARIANTS TimerCoversPending
PROPERTIES CallerReleased CommandSent PacketSent DataFlows
