SPECIFICATION Spec
CONSTANTS
    Tokens = {1, 2, 3}
    NoToken = 0
    Chains = {1, 2, 3}
    NoChain = 0
    AccessTokens = {1, 2, 3}
    NoAccess = 0
    RefreshTTL = 1
    MaxTime = 2
    Opaque = TRUE
    Strategy = "grant_tombstone"
    Requests = {r1, r2, r3}
    ChainWalkLimit = 3
    MaxFaults = 1
    GraceTTL = 1
    Transactional = TRUE
    Rotation = TRUE
    RetryKeys = TRUE
    Constrained = TRUE
    Codes = {c1}
    NoCode = NoCode
    CodeTTL = 0
    Roots = {1}
    RootChain <- OneRootChain
    JoinedRoots = {}
SYMMETRY Symmetry
ACTION_CONSTRAINT DrawInOrder
CONSTRAINT FaultSparesOne
INVARIANTS
    WholeClosureHolds
    OneLiveAccess
    CodeRedeemedOnce
