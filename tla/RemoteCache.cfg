SPECIFICATION LoadsSpec
CONSTANTS
    k1 = k1
    Keys = {k1, k2}
    Callers = {c1, c2}
    TTL = 1
    NegativeTTL = 1
    ForcedInterval = 1
    Advertised = {0}
    MaxEntries = 1
    MaxInflight = 1
    FetchTimeout = 1
    MaxTime = 2
    MaxRotations = 0
    MaxFaults = 1
    MaxCancels = 0
INVARIANTS
    
    RotationIsFollowed
PROPERTIES
    WaitersAnswered
