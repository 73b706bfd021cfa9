SPECIFICATION Spec
CONSTANTS
    p1 = p1
    p2 = p2
    p3 = p3
    Polls = {p1, p2, p3}
    Settings <- CheckedSettings
    DefaultInterval = 2
    SlowDownIncrement = 2
    IntervalTolerance = 1
    FastPollFloor = 1
    MaxPollViolations = 2
    MaxCounter = 3
    Lifetime = 1
    MaxTime = 2
INVARIANTS
    DeliveredOnce
    
    TeardownLeavesNothing
    FaultKeepsApproval
PROPERTIES
    BarNeverFalls
CHECK_DEADLOCK FALSE
