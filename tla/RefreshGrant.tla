------------------------------ MODULE RefreshGrant ------------------------------
(***************************************************************************)
(* The refresh_token grant of the token endpoint: preflight, consumption,  *)
(* grace retry, issuance of the successor pair, the post-persist check of  *)
(* the grant's closure, and the replay cascade.                            *)
(*                                                                         *)
(* With a transactional store everything from Consume to the last Save is  *)
(* one transaction; without one each store call stands alone.  Both paths  *)
(* run the same handler code (completeRefreshToken), and both are here.    *)
(***************************************************************************)
EXTENDS Issuance

CONSTANTS
    GraceTTL,       \* grace window of a consumed token, 0 when disabled
    Transactional,  \* the store implements store.Transactional
    Rotation,       \* FALSE: RefreshTokenRotationDisabled
    RetryKeys,      \* RefreshRetryEncryptionKeys are configured
    Constrained     \* tokens are DPoP or mTLS bound

ASSUME RefreshAssumption ==
    /\ GraceTTL \in Nat
    /\ Transactional \in BOOLEAN
    /\ Rotation \in BOOLEAN
    /\ RetryKeys \in BOOLEAN
    /\ Constrained \in BOOLEAN

-----------------------------------------------------------------------------
(* The refresh handler *)

\* preflightRefreshBeforeConsume: a request that does not fit a live token is
\* refused without spending it; a consumed or unknown token goes on.
RefreshStart(r, t, f) ==
    /\ pc[r] = "idle"
    /\ t \in sentRT
    /\ tok' = [tok EXCEPT ![r] = t]
    /\ fit' = [fit EXCEPT ![r] = f]
    /\ Goto(r, IF CanConsume(t) /\ f # "ok" THEN "done" ELSE "consume")
    /\ UNCHANGED <<now, storeVars, teardownVars, inGrace, newAT, newRT, redeemedAt,
                   subjectLive, historyVars>>

\* withinGraceWindow
WithinGrace(t) ==
    /\ GraceTTL > 0
    /\ Find(t) /\ Consumed(t) /\ t \notin revoked
    /\ now - consumedAt[t] <= GraceTTL

\* tryGrace: outside the window, or in it for another client or scope, the
\* presentation is a replay.
GraceApplies(r) == WithinGrace(tok[r]) /\ fit[r] # "mismatch"

\* Exchange without a transaction: Consume alone.
Exchange(r) ==
    /\ pc[r] = "consume" /\ Rotation /\ ~Transactional
    /\ IF CanConsume(tok[r])
       THEN /\ Consume(tok[r])
            /\ redeemedAt' = [redeemedAt EXCEPT ![r] = createdAt[tok[r]]]
            /\ Goto(r, "subject")
       ELSE /\ Goto(r, IF Find(tok[r]) THEN "grace" ELSE "done")
            /\ UNCHANGED <<consumedAt, redeemedAt>>
    /\ UNCHANGED <<now, refreshes, parentOf, chainOf, joined, createdAt, revoked, retries, accessVars,
                   tombVars, tok, teardownVars, fit, inGrace, newAT, newRT, subjectLive, historyVars>>

\* exchangeWithoutRotation: the token is read, never spent.
ExchangeKept(r) ==
    /\ pc[r] = "consume" /\ ~Rotation
    /\ redeemedAt' = [redeemedAt EXCEPT ![r] = createdAt[tok[r]]]
    /\ Goto(r, IF CanConsume(tok[r]) THEN "subject" ELSE IF Find(tok[r]) THEN "retire" ELSE "done")
    /\ UNCHANGED <<now, storeVars, tok, teardownVars, fit, inGrace, newAT, newRT, subjectLive, historyVars>>

\* tryGrace reads the row again after Consume refused it; the sender
\* constraint is enforced after the exchange and refuses without a cascade.
Grace(r) ==
    /\ pc[r] = "grace"
    /\ inGrace' = IF GraceApplies(r) THEN inGrace \cup {r} ELSE inGrace
    /\ redeemedAt' = [redeemedAt EXCEPT ![r] = createdAt[tok[r]]]
    /\ Goto(r, IF ~GraceApplies(r) THEN "retire" ELSE IF fit[r] = "ok" THEN "subject" ELSE "done")
    /\ UNCHANGED <<now, storeVars, tok, teardownVars, fit, newAT, newRT, subjectLive, historyVars>>

\* requireLiveRefreshSubject: a joined chain asks for the grant's own subject,
\* and goes on without one when the grant record is gone.
SubjectKnown(t) == LiveSubject \/ (t \in joined /\ ~grantSaved)

Subject(r) ==
    /\ pc[r] = "subject"
    /\ IF SubjectKnown(tok[r])
       THEN Goto(r, IF r \in inGrace THEN "load" ELSE "prior") /\ UNCHANGED <<scope, runNow>>
       ELSE BeginTeardown(r, "whole")
    /\ UNCHANGED <<now, storeVars, tok, failed, faults, grantSaved, tornAt, wholeAt, requestVars, subjectLive, historyVars>>

\* serveGraceRetry: the sealed response of the rotation, replayed as it is for
\* a bearer client and with a fresh access token for a bound one.
Load(r) ==
    /\ pc[r] = "load"
    /\ IF ~HasRetry(tok[r])
       THEN Goto(r, "done") /\ UNCHANGED historyVars
       ELSE IF Constrained
       THEN Goto(r, "closed") /\ UNCHANGED historyVars
       ELSE /\ Goto(r, "done")
            /\ Deliver(retries[tok[r]][1], retries[tok[r]][2])
            /\ UNCHANGED <<bornOf, bornRT>>
    /\ UNCHANGED <<now, storeVars, tok, teardownVars, requestVars, subjectLive>>

\* retirePriorOpaqueAccessTokens: the chain's opaque tokens, before the mint.
Prior(r) ==
    /\ pc[r] = "prior"
    /\ RevokeAccess(IF Opaque THEN OfChain(chainOf[tok[r]]) ELSE {})
    /\ Goto(r, IF r \in inGrace THEN "mint" ELSE "closed")
    /\ UNCHANGED <<now, refreshVars, tombVars, tok, teardownVars, requestVars, subjectLive, historyVars>>

\* refuseIssuanceUnderClosedGrant before the mint: nothing to retire yet.
CheckClosed(r) ==
    /\ pc[r] = "closed"
    /\ Goto(r, IF IssuanceRevoked(redeemedAt[r]) THEN "done" ELSE IF r \in inGrace THEN "prior" ELSE "mint")
    /\ UNCHANGED <<now, storeVars, tok, teardownVars, requestVars, subjectLive, historyVars>>

MintStep(r, a) ==
    /\ pc[r] = "mint"
    /\ UNCHANGED redeemedAt
    /\ Mint(r, a, chainOf[tok[r]])
    /\ Goto(r, IF r \in inGrace \/ ~Rotation THEN "confirm" ELSE "rotate")
    /\ UNCHANGED <<now, refreshVars, accessRevoked, tombVars, tok, teardownVars, fit, inGrace, newRT,
                   subjectLive, sentAT, sentRT, bornRT>>

Sealed(at, rt) == IF RetryKeys THEN <<at, rt>> ELSE NoRetry

\* rotateRefreshToken: the successor, refused when a cascade revoked its parent.
Rotate(r, t) ==
    /\ pc[r] = "rotate"
    /\ UNCHANGED redeemedAt
    /\ IF ParentAlive(tok[r])
       THEN /\ Persist(r, t, tok[r], chainOf[tok[r]], tok[r] \in joined, Sealed(newAT[r], t))
            /\ Goto(r, "confirm")
       ELSE /\ Goto(r, "done")
            /\ UNCHANGED <<refreshes, parentOf, chainOf, joined, createdAt, retries, newRT, bornRT>>
    /\ UNCHANGED <<now, consumedAt, revoked, accessVars, tombVars, tok, teardownVars, fit, inGrace, newAT,
                   subjectLive, sentAT, sentRT, bornOf>>

\* refreshIssuanceEnabled is off for the client: the chain ends here.
RotateNothing(r) ==
    /\ pc[r] = "rotate"
    /\ Goto(r, "confirm")
    /\ UNCHANGED <<now, storeVars, tok, teardownVars, requestVars, subjectLive, historyVars>>

\* replayCascade.run: retire the presented chain, then the grant's access
\* tokens, or only the chain's own when it joined another client's grant.  A
\* row Find no longer answers names no grant and nothing more is retired.
RetireReplayed(r) ==
    /\ pc[r] = "retire"
    /\ Retire(tok[r], Find(tok[r]))
    /\ IF Find(tok[r])
       THEN BeginTeardown(r, IF tok[r] \in joined THEN "chain" ELSE "compromised")
       ELSE Goto(r, "done") /\ UNCHANGED <<scope, runNow>>
    /\ UNCHANGED <<now, accessVars, tombVars, tok, failed, faults, grantSaved, tornAt, wholeAt, requestVars,
                   subjectLive, historyVars>>

-----------------------------------------------------------------------------
(* The same handler inside a transaction.  A transaction owns every substore *)
(* until it settles, so it is one step; a 4xx answer still commits what was  *)
(* staged before it, a 5xx answer or a commit conflict rolls back.           *)

TxBegin(r) == pc[r] = "consume" /\ Rotation /\ Transactional

TxOther == UNCHANGED <<now, tombVars, tok, failed, faults, grantSaved, tornAt, wholeAt, fit, subjectLive>>

RedeemedAt(r) == redeemedAt' = [redeemedAt EXCEPT ![r] = createdAt[tok[r]]]

\* Mutant: the prior access tokens are left alone.
PriorKept(t) == UNCHANGED accessRevoked

PriorRevoked(t) == accessRevoked' = IF Opaque THEN accessRevoked \cup OfChain(chainOf[t]) ELSE accessRevoked

\* First use: consume, retire the prior access tokens, mint and save.
TxRotate(r, a, t) ==
    /\ TxBegin(r)
    /\ CanConsume(tok[r]) /\ SubjectKnown(tok[r]) /\ ~IssuanceRevoked(createdAt[tok[r]])
    /\ Consume(tok[r])
    /\ RedeemedAt(r)
    /\ PriorRevoked(tok[r])
    /\ Mint(r, a, chainOf[tok[r]])
    /\ Persist(r, t, tok[r], chainOf[tok[r]], tok[r] \in joined, Sealed(a, t))
    /\ Goto(r, "confirm")
    /\ UNCHANGED <<revoked, scope, runNow, inGrace, sentAT, sentRT>> /\ TxOther

\* First use with refresh issuance off for the client: no successor.
TxRotateNothing(r, a) ==
    /\ TxBegin(r)
    /\ CanConsume(tok[r]) /\ SubjectKnown(tok[r]) /\ ~IssuanceRevoked(createdAt[tok[r]])
    /\ Consume(tok[r])
    /\ RedeemedAt(r)
    /\ PriorRevoked(tok[r])
    /\ Mint(r, a, chainOf[tok[r]])
    /\ Goto(r, "confirm")
    /\ UNCHANGED <<refreshes, parentOf, chainOf, joined, createdAt, revoked, retries,
                   scope, runNow, inGrace, newRT, sentAT, sentRT, bornRT>> /\ TxOther

\* First use under a closed grant or for a lost subject: 400, and the
\* consumption commits; the lost subject's teardown runs after it.
TxRefuse(r) ==
    /\ TxBegin(r)
    /\ CanConsume(tok[r])
    /\ Consume(tok[r])
    /\ \/ /\ ~SubjectKnown(tok[r])
          /\ BeginTeardown(r, "whole")
          /\ UNCHANGED accessRevoked
       \/ /\ SubjectKnown(tok[r]) /\ IssuanceRevoked(createdAt[tok[r]])
          /\ PriorRevoked(tok[r])
          /\ Goto(r, "done") /\ UNCHANGED <<scope, runNow>>
    /\ UNCHANGED <<refreshes, parentOf, chainOf, joined, createdAt, revoked, retries, accessTokens,
                   accessChain, issuedAt, inGrace, newAT, newRT, redeemedAt, historyVars>> /\ TxOther

\* A grace retry: the sealed response, with a fresh access token when bound.
TxGraceReplay(r) ==
    /\ TxBegin(r)
    /\ ~CanConsume(tok[r]) /\ GraceApplies(r) /\ fit[r] = "ok" /\ SubjectKnown(tok[r])
    /\ HasRetry(tok[r]) /\ ~Constrained
    /\ Deliver(retries[tok[r]][1], retries[tok[r]][2])
    /\ Goto(r, "done")
    /\ UNCHANGED <<refreshVars, accessVars, scope, runNow, inGrace, newAT, newRT, redeemedAt, bornOf, bornRT>> /\ TxOther

TxGraceRemint(r, a) ==
    /\ TxBegin(r)
    /\ ~CanConsume(tok[r]) /\ GraceApplies(r) /\ fit[r] = "ok" /\ SubjectKnown(tok[r])
    /\ HasRetry(tok[r]) /\ Constrained /\ ~IssuanceRevoked(createdAt[tok[r]])
    /\ inGrace' = inGrace \cup {r}
    /\ RedeemedAt(r)
    /\ PriorRevoked(tok[r])
    /\ Mint(r, a, chainOf[tok[r]])
    /\ Goto(r, "confirm")
    /\ UNCHANGED <<refreshVars, scope, runNow, newRT, sentAT, sentRT, bornRT>> /\ TxOther

\* A presentation that neither consumes nor is served: unknown, expired, an
\* unbound or unsealed retry, a retry under a closed grant; or a retry for a
\* lost subject, whose teardown runs; or a replay, whose cascade runs.
TxReject(r) ==
    /\ TxBegin(r)
    /\ ~CanConsume(tok[r])
    /\ \/ /\ ~Find(tok[r])
          /\ Goto(r, "done") /\ UNCHANGED <<scope, runNow>>
       \/ /\ Find(tok[r]) /\ ~GraceApplies(r)
          /\ Goto(r, "retire") /\ UNCHANGED <<scope, runNow>>
       \/ /\ GraceApplies(r) /\ fit[r] = "ok" /\ ~SubjectKnown(tok[r])
          /\ BeginTeardown(r, "whole")
       \/ /\ GraceApplies(r)
          /\ \/ fit[r] # "ok"
             \/ SubjectKnown(tok[r]) /\ (\/ ~HasRetry(tok[r])
                                         \/ Constrained /\ IssuanceRevoked(createdAt[tok[r]]))
          /\ Goto(r, "done") /\ UNCHANGED <<scope, runNow>>
    /\ UNCHANGED <<refreshVars, accessVars, inGrace, newAT, newRT, redeemedAt, historyVars>> /\ TxOther

RefreshStep(r) ==
    \/ \E t \in sentRT, f \in Fits : RefreshStart(r, t, f)
    \/ Exchange(r) \/ ExchangeKept(r) \/ Grace(r) \/ Subject(r) \/ Load(r) \/ Prior(r) \/ CheckClosed(r)
    \/ \E a \in AccessTokens : MintStep(r, a)
    \/ \E t \in Tokens \ refreshes : Rotate(r, t)
    \/ RotateNothing(r)
    \/ \E a \in AccessTokens, t \in Tokens : TxRotate(r, a, t)
    \/ \E a \in AccessTokens : TxRotateNothing(r, a)
    \/ TxRefuse(r) \/ TxGraceReplay(r)
    \/ \E a \in AccessTokens : TxGraceRemint(r, a)
    \/ TxReject(r)
    \/ RetireReplayed(r)
=============================================================================
