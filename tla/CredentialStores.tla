---------------------------- MODULE CredentialStores ----------------------------
(***************************************************************************)
(* The substores that hold what the provider issues under ONE grant, as    *)
(* the reference adapter (op/storeadapter/inmem) keeps them: the refresh    *)
(* tokens with their rotation links and retry responses, the access        *)
(* tokens, and the grant's tombstone.  A grant is shared by every session  *)
(* of one subject at one client, so several rotation chains live here.     *)
(*                                                                         *)
(* An operator stands for one substore method: methods hold the substore's *)
(* mutex for their whole body, so each is one atomic update.  Times are    *)
(* naturals and 0 is Go's zero time (no consumption, no tombstone).        *)
(***************************************************************************)
EXTENDS Naturals

CONSTANTS
    Tokens,        \* refresh-token identifiers
    NoToken,       \* the nil ParentID, the empty refresh_token value
    Chains,        \* rotation-chain identifiers
    NoChain,       \* the empty ChainID
    AccessTokens,  \* access-token identifiers (opaque value, or jti)
    NoAccess,      \* the empty access_token value
    RefreshTTL,    \* lifetime of a refresh token
    MaxTime,       \* bound on the clock
    Opaque,        \* TRUE: access tokens are opaque rows; FALSE: JWTs
    Strategy       \* how JWT access tokens are revoked

Strategies == {"grant_tombstone", "jti_registry", "none"}

ASSUME StoreAssumption ==
    /\ NoToken \notin Tokens
    /\ NoChain \notin Chains
    /\ NoAccess \notin AccessTokens
    /\ RefreshTTL \in Nat
    /\ MaxTime \in Nat
    /\ Opaque \in BOOLEAN
    /\ Strategy \in Strategies

VARIABLES
    now,            \* the wall clock every substore reads
    refreshes,      \* refresh-token rows present
    parentOf,       \* RefreshToken.ParentID
    chainOf,        \* RefreshToken.ChainID
    joined,         \* rows of Origin custom_grant: another client's chain under this grant
    createdAt,      \* RefreshToken.CreatedAt
    consumedAt,     \* RefreshToken.ConsumedAt
    revoked,        \* rows whose Revoked flag is set
    retries,        \* sealed response of a rotation, by predecessor
    accessTokens,   \* access tokens minted
    accessRevoked,  \* rows flipped to revoked (opaque row, registry row, denylist)
    accessChain,    \* chain an access token was minted on
    issuedAt,       \* the iat of an access token
    closedAt,       \* whole-grant tombstone cutoff
    accessClosedAt  \* access-tokens-only tombstone cutoff

refreshVars == <<refreshes, parentOf, chainOf, joined, createdAt, consumedAt, revoked, retries>>
accessVars  == <<accessTokens, accessRevoked, accessChain, issuedAt>>
tombVars    == <<closedAt, accessClosedAt>>
storeVars   == <<refreshVars, accessVars, tombVars>>

Times   == 0 .. MaxTime
NoRetry == <<NoAccess, NoToken>>

RefreshesTypeOK ==
    /\ refreshes \subseteq Tokens
    /\ parentOf \in [Tokens -> Tokens \cup {NoToken}]
    /\ chainOf \in [Tokens -> Chains \cup {NoChain}]
    /\ joined \subseteq Tokens
    /\ createdAt \in [Tokens -> Times]
    /\ consumedAt \in [Tokens -> Times]
    /\ revoked \subseteq Tokens
    /\ retries \in [Tokens -> (AccessTokens \cup {NoAccess}) \X (Tokens \cup {NoToken})]

AccessTypeOK ==
    /\ accessTokens \subseteq AccessTokens
    /\ accessRevoked \subseteq AccessTokens
    /\ accessChain \in [AccessTokens -> Chains \cup {NoChain}]
    /\ issuedAt \in [AccessTokens -> Times]

TombTypeOK == closedAt \in Times /\ accessClosedAt \in Times

StoresTypeOK == now \in Times /\ RefreshesTypeOK /\ AccessTypeOK /\ TombTypeOK

\* A grant that already holds one unspent refresh token for each root, its
\* access tokens expired and collected.
StoresInit(roots, chains, joinedRoots) ==
    /\ now = 1
    /\ refreshes = roots
    /\ parentOf = [t \in Tokens |-> NoToken]
    /\ chainOf = [t \in Tokens |-> IF t \in roots THEN chains[t] ELSE NoChain]
    /\ joined = joinedRoots
    /\ createdAt = [t \in Tokens |-> IF t \in roots THEN 1 ELSE 0]
    /\ consumedAt = [t \in Tokens |-> 0]
    /\ revoked = {}
    /\ retries = [t \in Tokens |-> NoRetry]
    /\ accessTokens = {}
    /\ accessRevoked = {}
    /\ accessChain = [a \in AccessTokens |-> NoChain]
    /\ issuedAt = [a \in AccessTokens |-> 0]
    /\ closedAt = 0
    /\ accessClosedAt = 0

-----------------------------------------------------------------------------
(* Refresh tokens *)

\* A row is expired once the clock is strictly past its ExpiresAt.
Expired(t) == now > createdAt[t] + RefreshTTL

\* Find answers the row unless it is absent or expired.
Find(t) == t \in refreshes /\ ~Expired(t)

Consumed(t) == consumedAt[t] # 0

\* Mutant: Consume reads the row but does not compare ConsumedAt.
CanConsumeNoSwap(t) == Find(t)

\* Consume is a compare-and-swap on ConsumedAt.
CanConsume(t) == Find(t) /\ ~Consumed(t)

Consume(t) == consumedAt' = [consumedAt EXCEPT ![t] = now]

\* Mutant: Save does not look at the predecessor.
ParentIgnored(p) == p # NoToken \/ p = NoToken

\* A successor of a tombstoned predecessor is refused; an absent one passes.
ParentAlive(p) == p \notin revoked

\* Mutant: the sealed response is filed under the successor.
SaveRefreshMisfiled(t, parent, chain, isJoined, sealed) ==
    /\ t \notin refreshes
    /\ ParentAlive(parent)
    /\ refreshes' = refreshes \cup {t}
    /\ parentOf' = [parentOf EXCEPT ![t] = parent]
    /\ chainOf' = [chainOf EXCEPT ![t] = chain]
    /\ joined' = IF isJoined THEN joined \cup {t} ELSE joined
    /\ createdAt' = [createdAt EXCEPT ![t] = now]
    /\ retries' = [retries EXCEPT ![t] = sealed]

\* Save, and SaveRotationWithRetry when sealed # NoRetry.
SaveRefresh(t, parent, chain, isJoined, sealed) ==
    /\ t \notin refreshes
    /\ ParentAlive(parent)
    /\ refreshes' = refreshes \cup {t}
    /\ parentOf' = [parentOf EXCEPT ![t] = parent]
    /\ chainOf' = [chainOf EXCEPT ![t] = chain]
    /\ joined' = IF isJoined THEN joined \cup {t} ELSE joined
    /\ createdAt' = [createdAt EXCEPT ![t] = now]
    /\ retries' = IF sealed = NoRetry THEN retries
                  ELSE [retries EXCEPT ![parent] = sealed]

\* LoadRetryResponse: kept until the predecessor's own expiry.
HasRetry(t) == retries[t] # NoRetry /\ ~Expired(t)

\* Mutant: the walk stops at the row it was given.
SubtreeAlone(root) == {t \in refreshes : t = root}

\* The rows the breadth-first walk over byParent reaches from root: the least
\* set that holds root and every stored child of a member.
ClosedUnderChildren(S) == \A u \in refreshes : parentOf[u] \in S => u \in S
Subtree(root) ==
    {t \in refreshes : \A S \in SUBSET Tokens :
                          root \in S /\ ClosedUnderChildren(S) => t \in S}

\* markRevoked over a set of rows.
MarkRevoked(S) ==
    /\ revoked' = revoked \cup S
    /\ consumedAt' = [t \in Tokens |->
                        IF t \in S /\ consumedAt[t] = 0 THEN now ELSE consumedAt[t]]

RevokeChain(root) ==
    /\ MarkRevoked(Subtree(root))
    /\ UNCHANGED <<refreshes, parentOf, chainOf, joined, createdAt, retries>>

RevokeRefreshesByGrant ==
    /\ MarkRevoked(refreshes)
    /\ UNCHANGED <<refreshes, parentOf, chainOf, joined, createdAt, retries>>

-----------------------------------------------------------------------------
(* Access tokens *)

MintAccess(a, chain) ==
    /\ a \notin accessTokens
    /\ accessTokens' = accessTokens \cup {a}
    /\ accessChain' = [accessChain EXCEPT ![a] = chain]
    /\ issuedAt' = [issuedAt EXCEPT ![a] = now]

RevokeAccess(S) ==
    /\ accessRevoked' = accessRevoked \cup S
    /\ UNCHANGED <<accessTokens, accessChain, issuedAt>>

\* NewChainID: an identifier no credential carries yet.
FreshChain(k) ==
    /\ \A a \in accessTokens : accessChain[a] # k
    /\ \A t \in refreshes : chainOf[t] # k

OfChain(chain) == {a \in accessTokens : accessChain[a] = chain}

-----------------------------------------------------------------------------
(* The grant's tombstone *)

Later(s, t) == IF s > t THEN s ELSE t

\* RevokeGrant widens the cutoff its scope names, never rewinding it.
CloseGrant(cutoff, accessOnly) ==
    IF accessOnly
    THEN /\ accessClosedAt' = Later(accessClosedAt, cutoff)
         /\ UNCHANGED closedAt
    ELSE /\ closedAt' = Later(closedAt, cutoff)
         /\ UNCHANGED accessClosedAt

\* Mutant: the boundary instant is left out.
CoversStrictly(cutoff, t) == cutoff # 0 /\ t < cutoff

\* covers: revoked if and only if issued at or before the cutoff.
Covers(cutoff, t) == cutoff # 0 /\ t <= cutoff

\* IsIssuanceRevoked: only the whole-grant cutoff refuses issuance.
IssuanceRevoked(t) == Covers(closedAt, t)

\* What a resource server learns about an access token: an opaque row by its
\* flag, a JWT by the active strategy.
AccessLive(a) ==
    /\ a \in accessTokens
    /\ a \notin accessRevoked
    /\ (~Opaque /\ Strategy = "grant_tombstone") =>
          ~Covers(closedAt, issuedAt[a]) /\ ~Covers(accessClosedAt, issuedAt[a])

Tick ==
    /\ now < MaxTime
    /\ now' = now + 1
    /\ UNCHANGED storeVars
=============================================================================
