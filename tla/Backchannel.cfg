SPECIFICATION CasesSpec
CONSTANTS
    Notices = {n1, m1}
    Deletions = {m1}
    Receivers = {c1, c2}
    Drainers = {d1}
    MaxTargets = 2
    MaxConcurrent = 1
    MaxInflight = 1
    MaxFaults = 1
INVARIANTS
    DrainedIsFinished
PROPERTIES
    ImplementsLedger
    
CHECK_DEADLOCK FALSE
