CONSTANTS
    p1 = p1
    p2 = p2
    w1 = w1
    w2 = w2
    e1 = e1
    e2 = e2
    Posters = {p1, p2}
    Worker = Worker
    Works = {w1}
    Events = {e1, e2}
    NoItem = NoItem
    NumQueues = 2
    Capacity <- TwoPlacesFirst
    QueueOf <- EventsFirst
    Impatient = {p1, Worker}
    JoinMayTimeout = FALSE
SPECIFICATION FairSpec
INVARIANTS NoLostWakeup EventOnce PriorityRespected
PROPERTIES ImplementsWorkThread EveryEventHandled FreeEnds
CHECK_DEADLOCK FALSE
