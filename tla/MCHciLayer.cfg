CONSTANTS
    a = a
    b = b
    s = s
    f = f
    opA = opA
    opS = opS
    opF = opF
    Cmds = {a, b, s}
    Opcode <- MCOpcode
    Kind <- MCKind
    None = None
    Ack = Ack
    SlotChoices = {1, 2}
    HostBuffers = 0
    BtuQueueLen = 2
    MaxEvents = 1
    MaxPackets = 0
    MaxAlarms = 0
    MayDrop = {}
SPECIFICATION Spec
INVARIANTS EveryCommandHasOneHolder AnswersMatch SyncStatusIsOwn NeverOverrunsController
CHECK_DEADLOCK FALSE
