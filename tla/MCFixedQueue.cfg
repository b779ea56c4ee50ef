CONSTANTS
    p1 = p1
    p2 = p2
    c1 = c1
    c2 = c2
    d1 = d1
    d2 = d2
    d3 = d3
    d4 = d4
    Producers = {p1, p2}
    Consumers = {p2, c1}
    Removers = {p2, c2}
    Patient = {p1, c1, c2}
    Data = {d1, d2, d3, d4}
    NoData = NoData
    Capacity = 3
    ListMayFail = TRUE
SPECIFICATION FairSpec
INVARIANTS DequeueBalance EnqueueBalance FrontNeverOnEmpty
PROPERTIES ImplementsFifo EveryElementTaken ProducerProceeds
CHECK_DEADLOCK FALSE
