SPECIFICATION FairSpec
CONSTANTS
    Tokens = {1, 2, 3}
    NoToken = 0
    Chains = {1}
    NoChain = 0
    AccessTokens = {1, 2}
    NoAccess = 0
    RefreshTTL = 0
    MaxTime = 2
    Opaque = TRUE
    Strategy = "grant_tombstone"
    Requests = {r1, r2}
    ChainWalkLimit = 3
    MaxFaults = 0
    GraceTTL = 0
    Transactional = FALSE
    Rotation = TRUE
    RetryKeys = TRUE
    Constrained = TRUE
    Codes = {}
    NoCode = NoCode
    CodeTTL = 1
    Roots = {1}
    RootChain <- OneRootChain
    JoinedRoots = {}
PROPERTIES
    Answered
    ReplayRetires
