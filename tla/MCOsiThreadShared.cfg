CONSTANTS
    p1 = p1
    p2 = p2
    w1 = w1
    w2 = w2
    e1 = e1
    e2 = e2
    Posters = {p1, p2}
    Worker = Worker
    Works = {w1, w2}
    Events = {e1}
    NoItem = NoItem
    NumQueues = 1
    Capacity <- TwoPlacesFirst
    QueueOf <- AllInFirst
    Impatient = {p1}
    JoinMayTimeout = TRUE
SPECIFICATION Spec
INVARIANTS StopEndsWork
PROPERTIES ImplementsWorkThreadSafely
CHECK_DEADLOCK FALSE
