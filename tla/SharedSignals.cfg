SPECIFICATION LoadsSpec
CONSTANTS
    Streams = {"s1", "s2"}
    Clients = {"c1"}
    Owner <- OneOwner
    Endpoints = {"A", "B"}
    Events = {"e1", "e2"}
    Publishers = {p1}
    Managers = {m1, m2}
    EnqueueAttempts = 2
    MaxUpdates = 3
    Workers = {}
    StreamShare = 1
    MaxRetries = 1
    MaxLapses = 0
    MaxFaults = 0
    w1 = w1
    w2 = w2
    m1 = m1
INVARIANTS
    
    HeadersStayPut
    PushesArePaid
PROPERTIES
    SettledForGood
    QueuedSettles
CHECK_DEADLOCK FALSE
