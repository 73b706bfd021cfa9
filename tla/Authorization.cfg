SPECIFICATION ScenesSpec
CONSTANTS
    a1 = a1
    a2 = a2
    l1 = l1
    r1 = r1
    r2 = r2
    p1 = p1
    Attempts = {a1}
    Logouts = {}
    Requests = {r1, r2}
    Pars = {p1}
    Chains = {"entry"}
    Managing = {TRUE, FALSE}
    MaxCommitAttempts = 2
    MaxSteps = 1
    MaxTouches = 1
    MaxLapses = 1
    MaxFaults = 2
SYMMETRY RequestSymmetry
INVARIANTS
    
    OneCode
    SignedOut
PROPERTIES
    CompletionKeepsUsers
CHECK_DEADLOCK FALSE
