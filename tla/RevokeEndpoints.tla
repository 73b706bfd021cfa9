----------------------------- MODULE RevokeEndpoints -----------------------------
(***************************************************************************)
(* The requests that only retire: RFC 7009 revocation of a refresh or an   *)
(* access token (internal/revokeendpoint), and the revocation of a whole   *)
(* grant by Grant Management or Provider.RevokeSubject.                    *)
(***************************************************************************)
EXTENDS Issuance

\* revokeOpaque: an unknown, expired or foreign token is a silent 200.
RevokeStart(r, t, f) ==
    /\ pc[r] = "idle"
    /\ t \in sentRT
    /\ tok' = [tok EXCEPT ![r] = t]
    /\ fit' = [fit EXCEPT ![r] = f]
    /\ Goto(r, IF Find(t) /\ f = "ok" THEN "revokeRetire" ELSE "done")
    /\ UNCHANGED <<now, storeVars, teardownVars, inGrace, newAT, newRT, redeemedAt, subjectLive, historyVars>>

\* retireRefreshChain, then cascadeRevokeAccessTokens.
RevokeRetire(r) ==
    /\ pc[r] = "revokeRetire"
    /\ Retire(tok[r], TRUE)
    /\ IF Retired(tok[r], TRUE)
       THEN BeginTeardown(r, IF tok[r] \in joined THEN "chain" ELSE "access")
       ELSE Goto(r, "done") /\ UNCHANGED <<scope, runNow>>
    /\ UNCHANGED <<now, accessVars, tombVars, tok, failed, faults, grantSaved, tornAt, wholeAt, requestVars,
                   subjectLive, historyVars>>

\* revokeOpaqueAccessToken and revokeJWT: one row, denylist entry or registry
\* row; a JWT has none under the none strategy.
RevokeOneAccess(r, a) ==
    /\ pc[r] = "idle"
    /\ a \in sentAT
    /\ RevokeAccess(IF Opaque \/ Strategy # "none" THEN {a} ELSE {})
    /\ Goto(r, "done")
    /\ UNCHANGED <<now, refreshVars, tombVars, tok, teardownVars, requestVars, subjectLive, historyVars>>

\* serveRevoke and RevokeSubject: a grant that is still on record.
RevokeGrant(r) ==
    /\ pc[r] = "idle"
    /\ grantSaved
    /\ BeginTeardown(r, "grant")
    /\ UNCHANGED <<now, storeVars, tok, failed, faults, grantSaved, tornAt, wholeAt, requestVars, subjectLive, historyVars>>

RevokeStep(r) ==
    \/ \E t \in sentRT, f \in {"ok", "mismatch"} : RevokeStart(r, t, f)
    \/ RevokeRetire(r)
    \/ \E a \in sentAT : RevokeOneAccess(r, a)
    \/ RevokeGrant(r)
=============================================================================
