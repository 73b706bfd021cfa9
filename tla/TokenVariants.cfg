SPECIFICATION VariantsSpec
CONSTANTS
    Tokens = {1, 2, 3, 4}
    NoToken = 0
    Chains = {1, 2, 3}
    NoChain = 0
    AccessTokens = {1, 2, 3}
    NoAccess = 0
    RefreshTTL = 1
    MaxTime = 3
    Opaque = TRUE
    Strategy = "grant_tombstone"
    Requests = {r1, r2}
    ChainWalkLimit = 1
    MaxFaults = 1
    GraceTTL = 1
    Transactional = TRUE
    Rotation = TRUE
    RetryKeys = TRUE
    Constrained = TRUE
    Codes = {}
    NoCode = NoCode
    CodeTTL = 1
    Roots = {1, 2}
    RootChain <- TwoRootsChain
    JoinedRoots = {2}
    KeptCodes = {c1, c2}
SYMMETRY Symmetry
ACTION_CONSTRAINT DrawInOrder
INVARIANTS
    TornAccessIsDead
PROPERTIES
    JoinedStaysInChain
