------------------------------ MODULE TokenService ------------------------------
(***************************************************************************)
(* The token endpoint and the revocation endpoints over one grant: code    *)
(* redemptions, refreshes, revocations and teardowns of several requests   *)
(* interleave at every store call, while time passes, the user may be      *)
(* deprovisioned, and requests may die.                                    *)
(***************************************************************************)
EXTENDS RefreshGrant, CodeGrant, RevokeEndpoints

CONSTANTS
    Roots,        \* refresh tokens the grant already holds
    RootChain,    \* their chains
    JoinedRoots   \* those another client's token exchange joined to the grant

ASSUME RootsAssumption ==
    /\ Roots \subseteq Tokens
    /\ JoinedRoots \subseteq Roots
    /\ RootChain \in [Roots -> Chains]
    /\ \A t, u \in Roots : RootChain[t] = RootChain[u] => t = u
    /\ MaxTime >= 1

\* op.New refuses a store without transactions when the authorization_code
\* grant is enabled (validateAuthorizeEndpointStoreCapabilities).
ASSUME CapabilityAssumption == Codes = {} \/ Transactional

vars == <<issuanceVars, codeVars>>

TypeOK == StoresTypeOK /\ RequestsTypeOK /\ CodesTypeOK

Init ==
    /\ StoresInit(Roots, RootChain, JoinedRoots)
    /\ RequestsInit(Roots)
    /\ CodesInit

Clock == Tick /\ UNCHANGED <<pc, tok, teardownVars, requestVars, subjectLive, historyVars, codeVars>>

\* The embedder removes the user from the user store.
Deprovision ==
    /\ subjectLive
    /\ subjectLive' = FALSE
    /\ UNCHANGED <<now, storeVars, pc, tok, teardownVars, requestVars, historyVars, codeVars>>

\* One step of a request's own handler.
Handle(r) ==
    \/ CodeStep(r)
    \/ RefreshStep(r) /\ UNCHANGED codeVars
    \/ RevokeStep(r) /\ UNCHANGED codeVars
    \/ (Confirm(r) \/ RetireIssuedAT(r) \/ RetireIssuedRT(r)) /\ UNCHANGED codeVars
    \/ TeardownStep(r) /\ UNCHANGED <<requestVars, subjectLive, historyVars, codeVars>>

\* Every request has been answered: nothing is left to do but wait.
Quiescent == \A r \in Requests : pc[r] = "done"
Rest == Quiescent /\ UNCHANGED vars

Next ==
    \/ Clock
    \/ Deprovision
    \/ \E c \in Codes : IssueCode(c)
    \/ \E r \in Requests : Handle(r) \/ (Abort(r) /\ UNCHANGED codeVars)
    \/ Rest

Spec == Init /\ [][Next]_vars

-----------------------------------------------------------------------------
(* Properties *)

\* A rotation chain never holds two spendable refresh tokens, whatever the
\* interleaving of consumption, rotation, grace retry and revocation: the
\* compare-and-swap of Consume and the single Save of rotateRefreshToken.
OneSpendable ==
    \A t, u \in refreshes :
        chainOf[t] = chainOf[u] /\ ~Consumed(t) /\ ~Consumed(u) => t = u

\* A request about to save the next token of a chain: it consumed the chain's
\* token, or opened the chain with a code.
Extending(r) ==
    \/ pc[r] = "rotate"
    \/ pc[r] \in {"subject", "prior", "closed", "mint"} /\ r \notin inGrace /\ Rotation
Opening(r) == pc[r] = "codeRefresh"
Claims(r) == Extending(r) \/ Opening(r)
Claim(r) == IF Opening(r) THEN accessChain[newAT[r]] ELSE chainOf[tok[r]]

\* The custody of a chain is never shared: while a request is about to extend
\* it every token of it is spent, and no other request is about to extend it.
Custody ==
    /\ \A r \in Requests : Claims(r) => \A t \in refreshes : chainOf[t] = Claim(r) => Consumed(t)
    /\ \A r, s \in Requests : Claims(r) /\ Claims(s) /\ Claim(r) = Claim(s) => r = s
    /\ \A r \in Requests : Extending(r) => tok[r] \in refreshes
    /\ \A r \in Requests : Opening(r) => newAT[r] \in accessTokens

\* What a request holds at each of its steps: the token it presented, the
\* access token it minted, the code it presented.
RefreshLabels ==
    {"consume", "grace", "subject", "load", "prior", "closed", "mint", "rotate", "retire", "revokeRetire"}
CodeLabels == {"codeConsume", "codeSubject", "codeMint"}
Presented ==
    /\ \A r \in Requests : pc[r] \in RefreshLabels \/ r \in inGrace => tok[r] \in Tokens
    /\ \A r \in Requests : pc[r] = "codeRefresh" => newAT[r] \in AccessTokens
    /\ \A r \in Requests : pc[r] \in CodeLabels => code[r] \in Codes
    /\ now # 0

\* A revoked refresh token has no unrevoked successor: a rotation in flight
\* when revokeChainLocked ran does not slip its successor past the cascade.
RevokedSubtree == \A t \in refreshes : parentOf[t] \in revoked => t \in revoked

\* A sealed retry response is filed under the token whose rotation produced it:
\* a grace retry recovers the successor of the token it presents, and an
\* access token of the same chain (SaveRotationWithRetry, LoadRetryResponse).
RetryMatches ==
    \A t \in Tokens : retries[t] # NoRetry =>
        /\ retries[t][1] \in accessTokens /\ accessChain[retries[t][1]] = chainOf[t]
        /\ retries[t][2] \in refreshes /\ parentOf[retries[t][2]] = t

\* Once a replay cascade or an RFC 7009 revocation has retired its chain, no
\* unexpired refresh token of that chain is left, then or later: not the
\* ancestors, not a successor saved by a rotation the cascade overtook.
CascadeLeavesNone ==
    \A r \in Requests : scope[r] \in {"compromised", "access"} =>
        \A t \in refreshes : chainOf[t] = chainOf[tok[r]] /\ ~Expired(t) => t \in revoked

InProgress(r) == pc[r] \notin {"idle", "done"}

\* After a complete teardown that closed the grant at T, no access token a
\* client holds from a code or refresh token issued by T is live, once the
\* request that minted it has been answered: what a rung swept, and what an
\* exit persisted behind the sweep and retired at its own check.
ClosureHolds ==
    \A a \in sentAT : bornOf[a] <= tornAt /\ AccessLive(a) =>
        \E r \in Requests : newAT[r] = a /\ InProgress(r)

\* The same of refresh tokens after a teardown of the whole grant.
WholeClosureHolds ==
    \A t \in sentRT : bornRT[t] <= wholeAt /\ t \notin revoked =>
        \E r \in Requests : newRT[r] = t /\ InProgress(r)

\* An access token issued by the cutoff of a complete teardown is dead, however
\* the issuing request interleaved with the rungs.
IssuedByCutoffDead ==
    \A a \in sentAT : issuedAt[a] <= tornAt /\ AccessLive(a) =>
        \E r \in Requests : newAT[r] = a /\ InProgress(r)

\* Whatever the strategy that can revoke the token's format, an access token
\* issued before the teardown read its clock is swept by a complete teardown.
SweptByCutoff == \A a \in accessTokens : issuedAt[a] < tornAt => ~AccessLive(a)

\* With rotation disabled a refresh never spends the token it presents: only
\* a revocation marks it (exchangeWithoutRotation, markRevoked).
KeptUntilRevoked == ~Rotation => \A t \in refreshes : Consumed(t) => t \in revoked

\* A chain holds at most one live opaque access token
\* (retirePriorOpaqueAccessTokens).
OneLiveAccess ==
    \A a, b \in accessTokens :
        AccessLive(a) /\ AccessLive(b) /\ accessChain[a] = accessChain[b] => a = b

\* A code is redeemed for tokens at most once, however its presentations
\* interleave with each other and with the teardown a replay starts.
CodeRedeemedOnce == \A c \in Codes : redeemed[c] <= 1

\* A request on a chain that joined another client's grant retires nothing
\* outside that chain and never closes the grant, unless the subject is gone
\* (JoinsForeignGrant, OpaqueAccessTokensOfChain).
JoinedStaysInChain ==
    [][\A r \in Requests :
         pc'[r] # pc[r] /\ tok[r] \in joined /\ scope[r] \in {"none", "chain"} =>
            /\ \A t \in revoked' \ revoked : chainOf[t] = chainOf[tok[r]]
            /\ \A a \in accessRevoked' \ accessRevoked : accessChain[a] = chainOf[tok[r]]
            /\ UNCHANGED tombVars]_vars

\* Handlers run to completion: once started, a request's next step is taken.
FairSpec == Spec /\ \A r \in Requests : WF_vars(pc[r] # "idle" /\ Handle(r))

\* Every request is answered, whatever the others do.
Answered == \A r \in Requests : pc[r] # "idle" ~> pc[r] = "done"

\* A detected replay ends with no spendable token in the chain: it is retired,
\* unless the presented token expires before the cascade looks it up.
ReplayRetires ==
    \A r \in Requests, p \in Tokens : pc[r] = "retire" /\ tok[r] = p ~>
        \/ Expired(p)
        \/ \A t \in refreshes : chainOf[t] = chainOf[p] => Consumed(t)
=============================================================================
