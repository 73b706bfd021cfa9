-------------------------------- MODULE Teardown --------------------------------
(***************************************************************************)
(* The retirement of what was issued under the grant, as                   *)
(* internal/revocation runs it on behalf of a request: the chain walk of   *)
(* Retire, and the rungs of Revoker.Run over a scope.  Each rung is one    *)
(* store call, so other requests interleave between two rungs, and each    *)
(* rung is attempted whatever happened to the one before.                  *)
(*                                                                         *)
(* The requests' control state is declared here because every handler ends *)
(* in a teardown: pc names the next store call of the request.             *)
(***************************************************************************)
EXTENDS CredentialStores, FiniteSets

CONSTANTS
    Requests,        \* HTTP requests in flight
    ChainWalkLimit,  \* chainWalkLimit
    MaxFaults        \* bound on store faults and crashes

ASSUME TeardownAssumption ==
    /\ ChainWalkLimit \in Nat \ {0}
    /\ MaxFaults \in Nat

VARIABLES
    pc,         \* the next step of a request
    tok,        \* the refresh token it presented
    scope,      \* the scope of its teardown
    runNow,     \* Revoker.Now, read when the teardown is built
    failed,     \* requests whose teardown has a failed rung
    faults,     \* store faults and crashes so far
    grantSaved, \* the grant's consent record exists
    tornAt,     \* history: latest RevokedAt of a complete teardown that closed the grant
    wholeAt     \* history: the same of one that also revoked the refresh tokens

teardownVars == <<scope, runNow, failed, faults, grantSaved, tornAt, wholeAt>>

Scopes == {"none", "grant", "whole", "compromised", "access", "chain"}

TeardownTypeOK ==
    /\ scope \in [Requests -> Scopes]
    /\ runNow \in [Requests -> Times]
    /\ failed \subseteq Requests
    /\ faults \in 0 .. MaxFaults
    /\ grantSaved \in BOOLEAN
    /\ tornAt \in Times
    /\ wholeAt \in Times

Goto(r, label) == pc' = [pc EXCEPT ![r] = label]

-----------------------------------------------------------------------------
(* The chain walk *)

\* The rows FindRoot visits from t upwards, each resolved through Find.
ClosedUnderParents(S) == \A u \in S : Find(parentOf[u]) => parentOf[u] \in S
Lineage(t) ==
    {u \in refreshes : \A S \in SUBSET refreshes : t \in S /\ ClosedUnderParents(S) => u \in S}

\* Where the walk stops: at a root, or below an ancestor Find no longer answers.
Top(t) == CHOOSE u \in Lineage(t) : Find(parentOf[u]) => \A v \in Lineage(t) : Find(parentOf[v])

\* The walk visits at most ChainWalkLimit rows, the failing lookup included.
Lookups(t) == Cardinality(Lineage(t)) + IF parentOf[Top(t)] = NoToken THEN 0 ELSE 1
RootResolved(t) == Find(t) /\ Lookups(t) <= ChainWalkLimit

\* Mutant: the walk up to the root is skipped.
RetirePresented(t, grantKnown) ==
    IF Find(t) THEN RevokeChain(t)
    ELSE IF grantKnown /\ t \notin joined THEN RevokeRefreshesByGrant
    ELSE UNCHANGED refreshVars

\* Mutant: an unresolved walk falls back to the grant for every chain.
RetireOrGrant(t, grantKnown) ==
    IF RootResolved(t) THEN RevokeChain(Top(t))
    ELSE IF grantKnown THEN RevokeRefreshesByGrant
    ELSE UNCHANGED refreshVars

\* Retire and RetireRecord: the chain from its root, else the grant's tokens
\* when the caller knows the grant and the chain did not join another
\* client's grant.
Retire(t, grantKnown) ==
    IF RootResolved(t) THEN RevokeChain(Top(t))
    ELSE IF grantKnown /\ t \notin joined THEN RevokeRefreshesByGrant
    ELSE UNCHANGED refreshVars

\* Retirement.Retired
Retired(t, grantKnown) == RootResolved(t) \/ (grantKnown /\ t \notin joined)

-----------------------------------------------------------------------------
(* Revoker.Run *)

\* Enter a teardown of scope s at its first rung.
BeginTeardown(r, s) ==
    /\ scope' = [scope EXCEPT ![r] = s]
    /\ runNow' = [runNow EXCEPT ![r] = now]
    /\ Goto(r, IF s = "chain" THEN "opaqueRung" ELSE "jwtRung")

WholeGrant(s)     == s \in {"whole", "grant"}
ClosesIssuance(s) == WholeGrant(s) \/ s = "compromised"

\* Mutant: the last rung starts over.
NextRungAgain(s, rung) ==
    CASE rung = "jwtRung" -> "opaqueRung"
      [] rung = "opaqueRung" /\ WholeGrant(s) -> "refreshRung"
      [] OTHER -> "jwtRung"

\* Mutant: the refresh rung is left out.
NextRungNoRefresh(s, rung) ==
    CASE rung = "jwtRung" -> "opaqueRung"
      [] rung = "opaqueRung" /\ ClosesIssuance(s) /\ Strategy # "grant_tombstone" -> "closeRung"
      [] OTHER -> "settle"

\* Under the grant-tombstone strategy the JWT rung writes the closure itself.
NextRung(s, rung) ==
    IF rung = "jwtRung" THEN "opaqueRung"
    ELSE IF rung = "opaqueRung" /\ ClosesIssuance(s) /\ Strategy # "grant_tombstone" THEN "closeRung"
    ELSE IF rung # "refreshRung" /\ WholeGrant(s) THEN "refreshRung"
    ELSE "settle"

\* A rung whose store call errors is recorded, and the next one still runs.
RungFails(r) ==
    /\ faults < MaxFaults
    /\ faults' = faults + 1
    /\ failed' = failed \cup {r}
    /\ UNCHANGED <<storeVars, scope, runNow, grantSaved, tornAt, wholeAt>>

JwtWrites(r) ==
    /\ CASE Strategy = "grant_tombstone" ->
              CloseGrant(runNow[r], ~ClosesIssuance(scope[r])) /\ UNCHANGED accessVars
         [] Strategy = "jti_registry" ->
              RevokeAccess(IF Opaque THEN {} ELSE accessTokens) /\ UNCHANGED tombVars
         [] Strategy = "none" -> UNCHANGED <<accessVars, tombVars>>
    /\ UNCHANGED <<refreshVars, teardownVars>>

OpaqueWrites(r) ==
    /\ RevokeAccess(IF ~Opaque THEN {}
                    ELSE IF scope[r] = "chain" THEN OfChain(chainOf[tok[r]])
                    ELSE accessTokens)
    /\ UNCHANGED <<refreshVars, tombVars, teardownVars>>

CloseWrites(r) ==
    /\ CloseGrant(runNow[r], FALSE)
    /\ UNCHANGED <<refreshVars, accessVars, teardownVars>>

RefreshWrites(r) ==
    /\ RevokeRefreshesByGrant
    /\ UNCHANGED <<accessVars, tombVars, teardownVars>>

Rung(r, label, writes) ==
    /\ pc[r] = label
    /\ writes \/ RungFails(r)
    /\ Goto(r, NextRung(scope[r], label))
    /\ UNCHANGED <<now, tok>>

\* Outcome.Complete: the caller learns whether every rung ran.
Settle(r) ==
    /\ pc[r] = "settle"
    /\ tornAt' = IF r \in failed \/ ~ClosesIssuance(scope[r]) THEN tornAt
                 ELSE Later(tornAt, runNow[r])
    /\ wholeAt' = IF r \in failed \/ ~WholeGrant(scope[r]) THEN wholeAt
                  ELSE Later(wholeAt, runNow[r])
    /\ Goto(r, IF scope[r] = "grant" /\ r \notin failed THEN "deleteGrant" ELSE "done")
    /\ UNCHANGED <<now, storeVars, tok, scope, runNow, failed, faults, grantSaved>>

\* RevokeGrant deletes the consent record only after a complete teardown.
DeleteGrant(r) ==
    /\ pc[r] = "deleteGrant"
    /\ grantSaved' = FALSE
    /\ Goto(r, "done")
    /\ UNCHANGED <<now, storeVars, tok, scope, runNow, failed, faults, tornAt, wholeAt>>

TeardownStep(r) ==
    \/ Rung(r, "jwtRung", JwtWrites(r))
    \/ Rung(r, "opaqueRung", OpaqueWrites(r))
    \/ Rung(r, "closeRung", CloseWrites(r))
    \/ Rung(r, "refreshRung", RefreshWrites(r))
    \/ Settle(r)
    \/ DeleteGrant(r)
=============================================================================
