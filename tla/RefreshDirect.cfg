SPECIFICATION Spec
CONSTANTS
    Tokens = {1, 2, 3, 4}
    NoToken = 0
    Chains = {1}
    NoChain = 0
    AccessTokens = {1, 2, 3}
    NoAccess = 0
    RefreshTTL = 1
    MaxTime = 3
    Opaque = TRUE
    Strategy = "grant_tombstone"
    Requests = {r1, r2, r3}
    ChainWalkLimit = 3
    MaxFaults = 0
    GraceTTL = 1
    Transactional = FALSE
    Rotation = TRUE
    RetryKeys = TRUE
    Constrained = TRUE
    Codes = {}
    NoCode = NoCode
    CodeTTL = 1
    Roots = {1}
    RootChain <- OneRootChain
    JoinedRoots = {}
SYMMETRY Symmetry
ACTION_CONSTRAINT DrawInOrder
INVARIANTS
    OneSpendable
    RevokedSubtree
    RetryMatches
    CascadeLeavesNone
    ClosureHolds
