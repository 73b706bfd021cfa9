----------------------------- MODULE ClosureProofs -----------------------------
(***************************************************************************)
(* What a complete teardown covered stays dead, and a chain has one live   *)
(* access token.                                                           *)
(*                                                                         *)
(* The ladder of a teardown and the confinement of a joined chain follow   *)
(* from what a step may do.  With Provenance they give the inductive steps *)
(* of GrantClosed, AccessClosed, AgedClosed and OneMinter.                 *)
(***************************************************************************)
EXTENDS CustodyProofs

-----------------------------------------------------------------------------
(* The ladder of a teardown *)

\* A step of a request keeps every teardown on its ladder.
LEMMA HandleLadder ==
    ASSUME Typed, Ladder, NEW r \in Requests, Stable(r), Climbs(r)
    PROVE  Ladder'
<1>1. now \in Nat /\ now # 0
    BY StoreAssumption DEF Typed, Presented, TypeOK, StoresTypeOK, Times
<1>2. CASE pc'[r] \notin RungLabels \cup {"retireRT"}
    BY <1>2, Zenon DEF Ladder, Stable, RungLabels
<1>3. CASE pc'[r] = "retireRT" /\ newRT'[r] # NoToken
    BY <1>3, Zenon DEF Ladder, Stable, RungLabels
<1>4. CASE Enters(r)
    BY <1>1, <1>4 DEF Ladder, Stable, Enters, RungLabels
<1>5. CASE /\ pc[r] \in RungLabels \ {"settle"} /\ pc'[r] = NextRung(scope[r], pc[r])
           /\ scope'[r] = scope[r] /\ runNow'[r] = runNow[r]
    BY <1>5 DEF Ladder, Stable, NextRung, RungLabels, ClosesIssuance, WholeGrant
<1> QED
    BY <1>2, <1>3, <1>4, <1>5, Zenon DEF Climbs

\* So does every step of the service.
LEMMA NextLadder ==
    ASSUME Typed, Provenance, Ladder, [Next]_vars
    PROVE  Ladder'
<1>1. CASE World
    BY <1>1, WorldHolds DEF Ladder, teardownVars, requestVars, Typed, TypeOK, RequestsTypeOK, TeardownTypeOK, Times
<1> QED
    BY <1>1, NextCases, HandleLadder, Zenon DEF Effects

\* No request starts on a rung.
LEMMA InitLadder == Init => Ladder
    BY Zenon DEF Init, RequestsInit, Ladder, RungLabels

-----------------------------------------------------------------------------
(* A joined chain is left to itself *)

\* The chain walk visits rows of one chain and stops at one of them.
LEMMA TopOfChain ==
    ASSUME Typed, Provenance, NEW t \in refreshes
    PROVE  Top(t) \in refreshes /\ chainOf[Top(t)] = chainOf[t]
<1> DEFINE C == {u \in refreshes : chainOf[u] = chainOf[t]}
<1>1. refreshes \subseteq Tokens
    BY Zenon DEF Typed, TypeOK, StoresTypeOK, RefreshesTypeOK
<1>2. ClosedUnderParents(C)
    BY <1>1, StoreAssumption, Zenon DEF ClosedUnderParents, Find, Provenance, Rows, RowFits
<1>3. Lineage(t) \subseteq C
    <2>1. C \in SUBSET refreshes /\ t \in C
        BY Zenon
    <2> QED
        BY <1>2, <2>1, Zenon DEF Lineage
<1>4. t \in Lineage(t)
    BY Zenon DEF Lineage
<1>5. \E u \in Lineage(t) : Find(parentOf[u]) => \A v \in Lineage(t) : Find(parentOf[v])
    BY <1>4, Zenon
<1>6. Top(t) \in Lineage(t)
    BY <1>5, Zenon DEF Top
<1> QED
    BY <1>3, <1>6, Zenon

\* The walk over children stays in the chain of its root.
LEMMA SubtreeOfChain ==
    ASSUME Typed, Provenance, NEW u \in refreshes
    PROVE  \A t \in Subtree(u) : chainOf[t] = chainOf[u]
<1> DEFINE C == {t \in refreshes : chainOf[t] = chainOf[u]}
<1>1. refreshes \subseteq Tokens
    BY Zenon DEF Typed, TypeOK, StoresTypeOK, RefreshesTypeOK
<1>2. ClosedUnderChildren(C)
    BY <1>1, StoreAssumption, Zenon DEF ClosedUnderChildren, Provenance, Rows, RowFits
<1>3. C \in SUBSET Tokens /\ u \in C
    BY <1>1, Zenon
<1> QED
    BY <1>2, <1>3, Zenon DEF Subtree

\* Retire of a joined token marks rows of its chain alone.
LEMMA RetireConfined ==
    ASSUME Typed, Provenance, NEW t \in joined, NEW g, Retire(t, g)
    PROVE  \A u \in revoked' \ revoked : chainOf[u] = chainOf[t]
<1>1. CASE RootResolved(t)
    <2>1. t \in refreshes
        BY <1>1, Zenon DEF RootResolved, Find
    <2>2. \A u \in Subtree(Top(t)) : chainOf[u] = chainOf[t]
        BY <2>1, TopOfChain, SubtreeOfChain, Zenon
    <2>3. revoked' = revoked \cup Subtree(Top(t))
        BY <1>1, Zenon DEF Retire, RevokeChain, MarkRevoked
    <2> QED
        BY <2>2, <2>3, Zenon
<1>2. CASE ~RootResolved(t)
    BY <1>2, Zenon DEF Retire, refreshVars
<1> QED
    BY <1>1, <1>2, Zenon

\* What a request on a joined chain may mark.
Confined(r) ==
    /\ \A t \in revoked' \ revoked : chainOf[t] = chainOf[tok[r]]
    /\ \A a \in accessRevoked' \ accessRevoked : accessChain[a] = chainOf[tok[r]]
    /\ UNCHANGED tombVars

\* Most steps mark nothing.
LEMMA RefreshUnmarked ==
    ASSUME NEW r,
           \/ \E t \in sentRT, f \in Fits : RefreshStart(r, t, f)
           \/ Exchange(r) \/ ExchangeKept(r) \/ Grace(r) \/ Subject(r) \/ Load(r) \/ CheckClosed(r) \/ RotateNothing(r)
    PROVE  Confined(r)
    BY Zenon DEF RefreshStart, Exchange, ExchangeKept, Grace, Subject, Load, CheckClosed, RotateNothing, Confined,
       storeVars, refreshVars, accessVars

\* Neither does a step that mints or saves.
LEMMA IssueUnmarked ==
    ASSUME NEW r,
           \/ \E a \in AccessTokens : MintStep(r, a)
           \/ \E t \in Tokens : Rotate(r, t)
           \/ TxGraceReplay(r) \/ TxReject(r)
           \/ \E t \in sentRT, f \in {"ok", "mismatch"} : RevokeStart(r, t, f)
           \/ RevokeGrant(r) \/ Confirm(r) \/ Abort(r)
    PROVE  Confined(r)
    BY Zenon DEF MintStep, Rotate, TxGraceReplay, TxReject, TxOther, RevokeStart, RevokeGrant, Confirm, Abort, Confined,
       storeVars, refreshVars, accessVars

\* Neither does a code redemption.
LEMMA CodeUnmarked ==
    ASSUME NEW r, CodeStep(r)
    PROVE  Confined(r)
    BY Zenon DEF CodeStep, CodeStart, CodeConsume, CodeSubject, CodeMint, CodeRefresh, CodeRefreshWithheld,
       CodeRefreshFails, Confined, storeVars, refreshVars, accessVars

\* A rotation marks the access tokens of its own chain.
LEMMA PriorConfined ==
    ASSUME NEW r,
           \/ Prior(r) \/ TxRefuse(r)
           \/ \E a \in AccessTokens : TxRotateNothing(r, a) \/ TxGraceRemint(r, a)
           \/ \E a \in AccessTokens, t \in Tokens : TxRotate(r, a, t)
    PROVE  Confined(r)
<1>1. UNCHANGED <<revoked, tombVars>>
    BY Zenon DEF Prior, TxRefuse, TxRotateNothing, TxGraceRemint, TxRotate, TxOther, refreshVars
<1>2. accessRevoked' \subseteq accessRevoked \cup OfChain(chainOf[tok[r]])
    BY Zenon DEF Prior, RevokeAccess, TxRefuse, TxRotateNothing, TxGraceRemint, TxRotate, PriorRevoked
<1> QED
    BY <1>1, <1>2, Zenon DEF Confined, OfChain

\* The steps that retire look at the chain they were given.
LEMMA RetiringConfined ==
    ASSUME Typed, Provenance, Ladder, NEW r \in Requests, tok[r] \in joined, scope[r] \in {"none", "chain"},
           \/ RetireReplayed(r) \/ RevokeRetire(r) \/ RetireIssuedAT(r) \/ RetireIssuedRT(r) \/ TeardownStep(r)
           \/ \E a \in sentAT : RevokeOneAccess(r, a)
    PROVE  Confined(r)
<1>1. tok[r] # NoToken /\ Carries(r)
    BY StoreAssumption, Zenon DEF Typed, TypeOK, StoresTypeOK, RefreshesTypeOK, Provenance
<1>2. CASE RetireReplayed(r) \/ RevokeRetire(r)
    <2>1. UNCHANGED <<accessRevoked, tombVars>>
        BY <1>2, Zenon DEF RetireReplayed, RevokeRetire, accessVars
    <2>2. \A t \in revoked' \ revoked : chainOf[t] = chainOf[tok[r]]
        BY <1>2, RetireConfined, Zenon DEF RetireReplayed, RevokeRetire
    <2> QED
        BY <2>1, <2>2, Zenon DEF Confined
<1>3. CASE RetireIssuedAT(r)
    BY <1>1, <1>3, Zenon DEF RetireIssuedAT, RevokeAccess, Confined, Carries, refreshVars
<1>4. CASE RetireIssuedRT(r)
    <2>1. newRT[r] \in refreshes /\ chainOf[newRT[r]] = chainOf[tok[r]]
        BY <1>1, <1>4, Zenon DEF RetireIssuedRT, Ladder, Carries
    <2> QED
        BY <1>4, <2>1, SubtreeOfChain, Zenon DEF RetireIssuedRT, RevokeChain, MarkRevoked, Confined, accessVars
<1>5. CASE TeardownStep(r)
    <2>1. pc[r] \notin {"jwtRung", "closeRung", "refreshRung"}
        BY Zenon DEF Ladder, ClosesIssuance, WholeGrant
    <2>2. CASE Rung(r, "opaqueRung", OpaqueWrites(r))
        <3>1. scope[r] = "chain"
            BY <2>2, Zenon DEF Rung, Ladder
        <3> QED
            BY <2>2, <3>1, Zenon DEF Rung, OpaqueWrites, RungFails, RevokeAccess, OfChain, Confined, storeVars,
               refreshVars, accessVars
    <2>3. CASE Settle(r) \/ DeleteGrant(r)
        BY <2>3, Zenon DEF Settle, DeleteGrant, Confined, storeVars, refreshVars, accessVars
    <2> QED
        BY <1>5, <2>1, <2>2, <2>3, Zenon DEF TeardownStep, Rung
<1>6. CASE \E a \in sentAT : RevokeOneAccess(r, a)
    BY <1>1, <1>6, Zenon DEF RevokeOneAccess, Carries
<1> QED
    BY <1>2, <1>3, <1>4, <1>5, <1>6, Zenon

\* A step of a request on a joined chain retires nothing outside the chain.
LEMMA HandleConfined ==
    ASSUME Typed, Provenance, Ladder, NEW r \in Requests, tok[r] \in joined, scope[r] \in {"none", "chain"},
           Handle(r) \/ Abort(r)
    PROVE  Confined(r)
<1>1. CASE RefreshStep(r)
    BY <1>1, RefreshUnmarked, IssueUnmarked, PriorConfined, RetiringConfined, Zenon DEF RefreshStep
<1>2. CASE RevokeStep(r)
    BY <1>2, IssueUnmarked, RetiringConfined, Zenon DEF RevokeStep
<1> QED
    BY <1>1, <1>2, CodeUnmarked, IssueUnmarked, RetiringConfined, Zenon DEF Handle

-----------------------------------------------------------------------------
(* The grant stays closed, and its refresh tokens stay revoked *)

\* Every date is a natural number.
LEMMA TimesTyped ==
    ASSUME Typed
    PROVE  /\ now \in Nat /\ closedAt \in Nat /\ tornAt \in Nat /\ wholeAt \in Nat
           /\ \A r \in Requests : runNow[r] \in Nat /\ redeemedAt[r] \in Nat
           /\ \A t \in Tokens : bornRT[t] \in Nat /\ createdAt[t] \in Nat
           /\ \A a \in AccessTokens : bornOf[a] \in Nat /\ issuedAt[a] \in Nat
           /\ sentRT \subseteq Tokens /\ refreshes \subseteq Tokens /\ accessTokens \subseteq AccessTokens
    BY StoreAssumption DEF Typed, TypeOK, StoresTypeOK, TombTypeOK, RefreshesTypeOK, AccessTypeOK, RequestsTypeOK,
       TeardownTypeOK, LocalTypeOK, HistoryTypeOK, Times

\* A refresh token that reaches a client was redeemed for after the closure, or
\* succeeds a token the client already had.
LEMMA SentRefresh ==
    ASSUME Typed, Provenance, RevokedSubtree, NEW r \in Requests, Sends(r), NEW t \in sentRT' \ sentRT
    PROVE  /\ t \in refreshes
           /\ \/ bornRT[t] > closedAt
              \/ \E p \in sentRT : bornRT[p] <= bornRT[t] /\ (p \in revoked => t \in revoked)
<1>1. ASSUME tok[r] \in Tokens, retries[tok[r]] # NoRetry, t = retries[tok[r]][2]
      PROVE  t \in refreshes /\ \E p \in sentRT : bornRT[p] <= bornRT[t] /\ (p \in revoked => t \in revoked)
    <2>1. t \in refreshes /\ parentOf[t] = tok[r] /\ tok[r] \in refreshes
        BY <1>1, Zenon DEF Provenance, Rows, SealFits
    <2>2. tok[r] \in sentRT
        BY <1>1, StoreAssumption, Zenon DEF Provenance, Carries
    <2>3. bornRT[tok[r]] <= bornRT[t]
        BY <1>1, <2>1, StoreAssumption DEF Provenance, Rows, RowFits
    <2> QED
        BY <2>1, <2>2, <2>3, Zenon DEF RevokedSubtree
<1>2. CASE Released(r) /\ r \notin inGrace
    <2>1. t = newRT[r] /\ t # NoToken
        BY <1>2, Zenon DEF Released, Deliver
    <2>2. t \in refreshes /\ bornRT[t] = redeemedAt[r] /\ 1 <= bornRT[t]
        BY <2>1, Zenon DEF Provenance, Carries, Rows, RowFits
    <2> QED
        BY <1>2, <2>2, TimesTyped DEF Released, IssuanceRevoked, Covers
<1>3. CASE Released(r) /\ r \in inGrace
    <2>1. tok[r] \in Tokens
        BY <1>3, Zenon DEF Typed, Presented
    <2>2. t = retries[tok[r]][2] /\ t # NoToken
        BY <1>3, Zenon DEF Released, Deliver
    <2> QED
        BY <1>1, <2>1, <2>2 DEF NoRetry
<1>4. CASE Replayed(r)
    BY <1>1, <1>4, Zenon DEF Replayed, Deliver
<1> QED
    BY <1>2, <1>3, <1>4, Zenon DEF Sends

\* So what was swept up to a closed date stays swept.
LEMMA RefreshStaysSwept ==
    ASSUME Typed, Provenance, RevokedSubtree, NEW r \in Requests, Stable(r), Sends(r),
           NEW T \in Nat, T <= closedAt, RefreshSwept(T)
    PROVE  \A t \in sentRT' : bornRT'[t] <= T => t \in revoked'
<1> SUFFICES ASSUME NEW t \in sentRT', bornRT'[t] <= T PROVE t \in revoked'
    BY Zenon
<1>1. CASE t \in sentRT
    <2>1. bornRT'[t] = bornRT[t]
        BY <1>1, Zenon DEF Stable, Grows, Provenance, Rows
    <2> QED
        BY <1>1, <2>1, Zenon DEF RefreshSwept, Stable
<1>2. CASE t \notin sentRT
    <2>1. /\ t \in refreshes
          /\ \/ bornRT[t] > closedAt
             \/ \E p \in sentRT : bornRT[p] <= bornRT[t] /\ (p \in revoked => t \in revoked)
        BY <1>2, SentRefresh, Zenon
    <2>2. bornRT'[t] = bornRT[t] /\ bornRT[t] <= T
        BY <2>1, Zenon DEF Stable, Grows
    <2>3. \E p \in sentRT : bornRT[p] <= T /\ (p \in revoked => t \in revoked)
        BY <2>1, <2>2, TimesTyped
    <2> QED
        BY <2>3, Zenon DEF RefreshSwept, Stable
<1> QED
    BY <1>1, <1>2, Zenon

\* What the rungs write, and what a settled teardown records.
LEMMA RungWrites ==
    ASSUME Typed, Ladder, NEW r \in Requests, TeardownStep(r)
    PROVE  /\ closedAt <= closedAt'
           /\ r \notin failed' /\ ClosesIssuance(scope[r]) /\ pc[r] = "closeRung" => runNow[r] <= closedAt'
           /\ r \notin failed' /\ ClosesIssuance(scope[r]) /\ pc[r] = "jwtRung" /\ Strategy = "grant_tombstone"
                 => runNow[r] <= closedAt'
           /\ r \notin failed' /\ pc[r] = "refreshRung" => refreshes \subseteq revoked'
           /\ r \notin failed' /\ Opaque /\ pc[r] = "opaqueRung" /\ scope[r] # "chain" =>
                 accessTokens \subseteq accessRevoked'
           /\ r \notin failed' /\ ~Opaque /\ Strategy = "jti_registry" /\ pc[r] = "jwtRung"
                 => accessTokens \subseteq accessRevoked'
           /\ UNCHANGED accessTokens
<1> USE TimesTyped
<1>1. CASE Rung(r, "jwtRung", JwtWrites(r))
    <2>1. CASE RungFails(r)
        BY <1>1, <2>1 DEF Rung, RungFails, storeVars, tombVars, accessVars
    <2>2. CASE JwtWrites(r) /\ Strategy = "grant_tombstone"
        <3>1. CloseGrant(runNow[r], ~ClosesIssuance(scope[r])) /\ UNCHANGED accessVars
            BY <2>2, Zenon DEF JwtWrites
        <3>2. closedAt' = IF ClosesIssuance(scope[r]) THEN Later(closedAt, runNow[r]) ELSE closedAt
            BY <3>1, Zenon DEF CloseGrant
        <3> QED
            BY <1>1, <2>2, <3>1, <3>2 DEF Rung, Later, accessVars
    <2>3. CASE JwtWrites(r) /\ Strategy # "grant_tombstone"
        <3>1. CASE Strategy = "jti_registry"
            <4>1. RevokeAccess(IF Opaque THEN {} ELSE accessTokens) /\ UNCHANGED tombVars
                BY <2>3, <3>1, Zenon DEF JwtWrites
            <4> QED
                BY <1>1, <2>3, <4>1 DEF Rung, RevokeAccess, tombVars
        <3>2. CASE Strategy = "none"
            <4>1. UNCHANGED <<accessVars, tombVars>>
                BY <2>3, <3>2, Zenon DEF JwtWrites
            <4> QED
                BY <1>1, <2>3, <3>2, <4>1 DEF Rung, tombVars, accessVars
        <3> QED
            BY <2>3, <3>1, <3>2, StoreAssumption, Zenon DEF Strategies
    <2> QED
        BY <1>1, <2>1, <2>2, <2>3, Zenon DEF Rung
<1>2. CASE Rung(r, "opaqueRung", OpaqueWrites(r))
    BY <1>2 DEF Rung, OpaqueWrites, RungFails, RevokeAccess, storeVars, tombVars, accessVars
<1>3. CASE Rung(r, "closeRung", CloseWrites(r))
    BY <1>3 DEF Rung, CloseWrites, RungFails, CloseGrant, Later, storeVars, tombVars, accessVars
<1>4. CASE Rung(r, "refreshRung", RefreshWrites(r))
    BY <1>4 DEF Rung, RefreshWrites, RungFails, RevokeRefreshesByGrant, MarkRevoked, storeVars, tombVars, accessVars
<1>5. CASE Settle(r) \/ DeleteGrant(r)
    BY <1>5 DEF Settle, DeleteGrant, storeVars, tombVars, accessVars
<1> QED
    BY <1>1, <1>2, <1>3, <1>4, <1>5, Zenon DEF TeardownStep

\* A complete teardown records the time it was built with.
LEMMA SettleRecords ==
    ASSUME NEW r \in Requests, TeardownStep(r)
    PROVE  /\ \/ tornAt' = tornAt
              \/ pc[r] = "settle" /\ Closing(r) /\ tornAt' = Later(tornAt, runNow[r])
           /\ \/ wholeAt' = wholeAt
              \/ /\ pc[r] = "settle" /\ r \notin failed /\ WholeGrant(scope[r])
                 /\ wholeAt' = Later(wholeAt, runNow[r])
<1>1. JwtWrites(r) \/ OpaqueWrites(r) \/ CloseWrites(r) \/ RefreshWrites(r) \/ RungFails(r)
         => UNCHANGED <<tornAt, wholeAt>>
    BY Zenon DEF JwtWrites, OpaqueWrites, CloseWrites, RefreshWrites, RungFails, teardownVars
<1> QED
    BY <1>1, Zenon DEF TeardownStep, Rung, Settle, DeleteGrant, Closing

\* A request past a rung climbed to it from the rung before.
LEMMA Climbed ==
    ASSUME NEW r \in Requests, Climbs(r), pc'[r] \in RungLabels, ClosesIssuance(scope'[r]), pc'[r] # "jwtRung"
    PROVE  /\ TeardownStep(r) /\ scope'[r] = scope[r] /\ runNow'[r] = runNow[r]
           /\ pc[r] \in RungLabels \ {"settle"} /\ pc'[r] = NextRung(scope[r], pc[r])
    BY Zenon DEF Climbs, Enters, RungLabels, ClosesIssuance, WholeGrant

\* A rung sends nothing.
LEMMA RungSendsNothing ==
    ASSUME NEW r \in Requests, Sends(r), pc[r] \in RungLabels
    PROVE  UNCHANGED <<sentAT, sentRT>>
    BY Zenon DEF Sends, Released, Replayed, RungLabels

\* A step of a request keeps what the closure of the grant promises.
LEMMA HandleClosed ==
    ASSUME Typed, Typed', Provenance, RevokedSubtree, Ladder, GrantClosed, NEW r \in Requests, Effects(r)
    PROVE  GrantClosed'
<1> USE DEF Effects
<1>1. closedAt <= closedAt'
    BY RungWrites, TimesTyped DEF Closes, tombVars
<1>2. tornAt' <= closedAt' /\ wholeAt' <= closedAt'
    <2>1. tornAt <= closedAt /\ wholeAt <= closedAt
        BY Zenon DEF GrantClosed
    <2>2. pc[r] = "settle" /\ r \notin failed /\ (WholeGrant(scope[r]) \/ ClosesIssuance(scope[r])) =>
             runNow[r] <= closedAt
        BY Zenon DEF GrantClosed, Closing, PastClosing, ClosesIssuance
    <2>3. closedAt' \in Nat
        BY StoreAssumption DEF Typed, TypeOK, StoresTypeOK, TombTypeOK, Times
    <2> QED
        BY <1>1, <2>1, <2>2, <2>3, SettleRecords, TimesTyped DEF Closes, Closing, Later
<1>3. \A s \in Requests : Closing(s)' /\ PastClosing(s)' => runNow'[s] <= closedAt'
    <2> SUFFICES ASSUME NEW s \in Requests, Closing(s)', PastClosing(s)' PROVE runNow'[s] <= closedAt'
        BY Zenon
    <2>1. closedAt' \in Nat
        BY StoreAssumption DEF Typed, TypeOK, StoresTypeOK, TombTypeOK, Times
    <2>2. CASE Closing(s) /\ PastClosing(s) /\ runNow'[s] = runNow[s]
        BY <1>1, <2>1, <2>2, TimesTyped DEF GrantClosed
    <2>3. CASE s # r
        BY <2>2, <2>3, Zenon DEF Stable, Closing, PastClosing
    <2>4. CASE s = r
        <3>1. /\ TeardownStep(r) /\ scope'[r] = scope[r] /\ runNow'[r] = runNow[r]
              /\ r \notin failed' /\ r \notin failed
              /\ pc[r] \in RungLabels \ {"settle"} /\ pc'[r] = NextRung(scope[r], pc[r]) /\ ClosesIssuance(scope[r])
            BY <2>4, Climbed, Zenon DEF Stable, Closing, PastClosing, RungLabels
        <3>2. CASE pc[r] = "closeRung" \/ (pc[r] = "jwtRung" /\ Strategy = "grant_tombstone")
            BY <2>4, <3>1, <3>2, RungWrites, Zenon
        <3>3. CASE pc[r] = "refreshRung" \/ (pc[r] = "opaqueRung" /\ Strategy = "grant_tombstone")
            BY <2>2, <2>4, <3>1, <3>3, Zenon DEF Closing, PastClosing
        <3>4. CASE pc[r] \in {"jwtRung", "opaqueRung"} /\ Strategy # "grant_tombstone"
            <4>1. pc'[r] \in {"opaqueRung", "closeRung"}
                BY <3>1, <3>4, Zenon DEF NextRung
            <4> QED
                BY <2>4, <3>4, <4>1, Zenon DEF PastClosing
        <3> QED
            BY <3>1, <3>2, <3>3, <3>4, Zenon DEF RungLabels
    <2> QED
        BY <2>3, <2>4, Zenon
<1>4. RefreshSwept(wholeAt)'
    <2>1. wholeAt <= closedAt /\ RefreshSwept(wholeAt)
        BY Zenon DEF GrantClosed
    <2>2. CASE wholeAt' = wholeAt
        BY <2>1, <2>2, RefreshStaysSwept, TimesTyped, Zenon DEF RefreshSwept
    <2>3. CASE pc[r] = "settle" /\ r \notin failed /\ WholeGrant(scope[r]) /\ wholeAt' = runNow[r]
        <3>1. runNow[r] <= closedAt /\ RefreshSwept(runNow[r])
            BY <2>3, Zenon DEF GrantClosed, Closing, PastClosing, ClosesIssuance
        <3> QED
            BY <2>3, <3>1, RefreshStaysSwept, TimesTyped, Zenon DEF RefreshSwept
    <2> QED
        BY <2>2, <2>3, SettleRecords, Zenon DEF Closes, Later
<1>5. ASSUME NEW s \in Requests, s \notin failed', WholeGrant(scope'[s]), pc'[s] = "settle"
      PROVE  RefreshSwept(runNow[s])'
    <2>1. CASE s # r
        <3>1. s \notin failed /\ WholeGrant(scope[s]) /\ pc[s] = "settle" /\ runNow'[s] = runNow[s]
            BY <1>5, <2>1, Zenon DEF Stable
        <3>2. runNow[s] <= closedAt /\ RefreshSwept(runNow[s])
            BY <3>1, Zenon DEF GrantClosed, Closing, PastClosing, ClosesIssuance
        <3> QED
            BY <3>1, <3>2, RefreshStaysSwept, TimesTyped, Zenon DEF RefreshSwept
    <2>2. CASE s = r
        <3>1. /\ TeardownStep(r) /\ scope'[r] = scope[r]
              /\ pc[r] \in RungLabels \ {"settle"} /\ pc'[r] = NextRung(scope[r], pc[r])
            BY <1>5, <2>2, Climbed, Zenon DEF RungLabels, ClosesIssuance
        <3>2. pc[r] = "refreshRung"
            BY <1>5, <2>2, <3>1, Zenon DEF NextRung, RungLabels, ClosesIssuance
        <3>3. refreshes \subseteq revoked' /\ sentRT' = sentRT
            BY <1>5, <2>2, <3>1, <3>2, RungWrites, RungSendsNothing, Zenon DEF RungLabels
        <3> QED
            BY <2>2, <3>3, Zenon DEF RefreshSwept, Provenance, Rows
    <2> QED
        BY <2>1, <2>2, Zenon
<1> QED
    BY <1>2, <1>3, <1>4, <1>5, Zenon DEF GrantClosed

\* No teardown has completed at the start.
LEMMA InitClosed == Init => GrantClosed
<1> SUFFICES ASSUME Init PROVE GrantClosed
    BY Zenon
<1>1. closedAt = 0 /\ tornAt = 0 /\ wholeAt = 0 /\ sentRT = Roots /\ \A r \in Requests : pc[r] = "idle"
    BY Zenon DEF Init, StoresInit, RequestsInit
<1>2. \A t \in Roots : bornRT[t] = 1
    BY RootsAssumption, Zenon DEF Init, RequestsInit
<1> QED
    BY <1>1, <1>2 DEF GrantClosed, PastClosing, RefreshSwept

\* Every step of the service keeps what the closure promises.
LEMMA NextClosed ==
    ASSUME Typed, Typed', Provenance, RevokedSubtree, Ladder, GrantClosed, [Next]_vars
    PROVE  GrantClosed'
<1>1. CASE World
    BY <1>1, WorldHolds, Zenon DEF GrantClosed, Closing, PastClosing, RefreshSwept, storeVars, refreshVars, tombVars,
       teardownVars, historyVars
<1> QED
    BY <1>1, NextCases, HandleClosed, Zenon

-----------------------------------------------------------------------------
(* The access tokens a complete teardown covers *)

\* An access token that a sealed response begins to offer was redeemed for
\* after the closure, or its request has yet to check.
LEMMA SealedLate ==
    ASSUME Typed, Provenance, NEW r \in Requests, Handle(r) \/ (Abort(r) /\ UNCHANGED codeVars),
           NEW p \in Tokens, retries'[p] # NoRetry, retries'[p] # retries[p]
    PROVE  \/ bornOf'[retries'[p][1]] > closedAt
           \/ /\ ~Transactional
              /\ \E s \in Requests : newAT'[s] = retries'[p][1] /\ pc'[s] \in {"confirm", "retireAT"}
<1>1. CASE \E t \in Tokens : Rotate(r, t) /\ ParentAlive(tok[r])
    <2>1. PICK t \in Tokens : Rotate(r, t) /\ ParentAlive(tok[r])
        BY <1>1, Zenon
    <2>2. /\ pc[r] = "rotate" /\ pc'[r] = "confirm" /\ newAT'[r] = newAT[r]
          /\ Adds(r, t, tok[r], chainOf[tok[r]], Sealed(newAT[r], t)) /\ UNCHANGED <<redeemedAt, now>>
        BY <2>1, ControlTyped, Zenon DEF ControlTypeOK, Rotate, Goto, Persist, SaveRefresh, Adds
    <2>3. ~Transactional
        BY <2>2, Zenon DEF Provenance, Carries, Issuing
    <2>4. retries'[p] = <<newAT[r], t>>
        BY <2>2, Zenon DEF Adds, Sealed, Typed, TypeOK, StoresTypeOK, RefreshesTypeOK
    <2> QED
        BY <2>2, <2>3, <2>4
<1>2. CASE \E a \in AccessTokens, t \in Tokens : TxRotate(r, a, t)
    <2>1. PICK a \in AccessTokens, t \in Tokens : TxRotate(r, a, t)
        BY <1>2, Zenon
    <2>2. /\ pc[r] = "consume" /\ ~IssuanceRevoked(createdAt[tok[r]]) /\ Mint(r, a, chainOf[tok[r]])
          /\ Adds(r, t, tok[r], chainOf[tok[r]], Sealed(a, t)) /\ RedeemedAt(r)
        BY <2>1, Zenon DEF TxRotate, TxBegin, Persist, SaveRefresh, Adds
    <2>3. createdAt[tok[r]] > closedAt
        BY <2>2, IssuingDate, TimesTyped DEF IssuanceRevoked, Covers
    <2>4. bornOf'[a] = createdAt[tok[r]]
        <3>1. redeemedAt'[r] = createdAt[tok[r]]
            BY <2>2, TeardownTyping, Zenon DEF RedeemedAt, LocalTypeOK
        <3> QED
            BY <2>2, <3>1, MintGrows, Zenon
    <2>5. retries'[p] = <<a, t>>
        BY <2>2, Zenon DEF Adds, Sealed, Typed, TypeOK, StoresTypeOK, RefreshesTypeOK
    <2> QED
        BY <2>3, <2>4, <2>5
<1> QED
    BY <1>1, <1>2, SaveStep, Zenon

\* An access token that becomes exposed is as late.
LEMMA ExposedLate ==
    ASSUME Typed, Provenance, NEW r \in Requests, Handle(r) \/ (Abort(r) /\ UNCHANGED codeVars),
           NEW a \in AccessTokens, Exposed(a)', ~Exposed(a)
    PROVE  bornOf'[a] > closedAt \/ (~Transactional /\ ~Constrained /\ Retiring(a)')
<1>1. Stable(r) /\ Sends(r)
    BY HandleEffects, Zenon DEF Effects
<1>2. CASE a \in sentAT'
    <2>1. CASE Released(r)
        <3>1. a = newAT[r] /\ a # NoAccess
            BY <1>2, <2>1, Zenon DEF Released, Deliver, Exposed
        <3>2. a \in accessTokens /\ bornOf[a] = redeemedAt[r] /\ 1 <= bornOf[a]
            BY <3>1, Zenon DEF Provenance, Carries, Minted, AccessFits
        <3>3. bornOf'[a] = bornOf[a]
            BY <1>1, <3>2, Zenon DEF Stable, Grows
        <3> QED
            BY <2>1, <3>2, <3>3, TimesTyped DEF Released, IssuanceRevoked, Covers
    <2>2. CASE Replayed(r)
        BY <1>2, <2>2, Zenon DEF Replayed, Deliver, Exposed
    <2> QED
        BY <1>1, <1>2, <2>1, <2>2, Zenon DEF Sends, Exposed
<1>3. CASE ~Constrained /\ \E p \in Tokens : retries'[p] # NoRetry /\ retries'[p][1] = a
    <2>1. PICK p \in Tokens : retries'[p] # NoRetry /\ retries'[p][1] = a
        BY <1>3, Zenon
    <2>2. retries'[p] # retries[p]
        BY <1>3, <2>1, Zenon DEF Exposed
    <2> QED
        BY <1>3, <2>1, <2>2, SealedLate, Zenon DEF Retiring
<1> QED
    BY <1>2, <1>3, Zenon DEF Exposed

\* A request at its check or at the retirement takes that step.
LEMMA ExitStep ==
    ASSUME NEW r \in Requests, Handle(r), pc[r] \in {"confirm", "retireAT"}
    PROVE  Confirm(r) \/ RetireIssuedAT(r)
<1>1. ~CodeStep(r)
    BY Zenon DEF CodeStep, CodeStart, CodeConsume, CodeSubject, CodeMint, CodeRefresh, CodeRefreshWithheld,
       CodeRefreshFails
<1>2. ~RefreshStep(r)
    <2>1. ~(\/ \E t \in sentRT, f \in Fits : RefreshStart(r, t, f)
            \/ Exchange(r) \/ ExchangeKept(r) \/ Grace(r) \/ Subject(r) \/ Load(r) \/ Prior(r) \/ CheckClosed(r))
        BY Zenon DEF RefreshStart, Exchange, ExchangeKept, Grace, Subject, Load, Prior, CheckClosed
    <2>2. ~(\/ \E a \in AccessTokens : MintStep(r, a)
            \/ \E t \in Tokens \ refreshes : Rotate(r, t)
            \/ RotateNothing(r) \/ RetireReplayed(r))
        BY Zenon DEF MintStep, Rotate, RotateNothing, RetireReplayed
    <2>3. ~(\/ \E a \in AccessTokens, t \in Tokens : TxRotate(r, a, t)
            \/ \E a \in AccessTokens : TxRotateNothing(r, a)
            \/ TxRefuse(r) \/ TxGraceReplay(r)
            \/ \E a \in AccessTokens : TxGraceRemint(r, a)
            \/ TxReject(r))
        BY Zenon DEF TxRotate, TxRotateNothing, TxRefuse, TxGraceReplay, TxGraceRemint, TxReject, TxBegin
    <2> QED
        BY <2>1, <2>2, <2>3, Zenon DEF RefreshStep
<1>3. ~RevokeStep(r)
    BY Zenon DEF RevokeStep, RevokeStart, RevokeRetire, RevokeOneAccess, RevokeGrant
<1>4. ~TeardownStep(r)
    BY Zenon DEF TeardownStep, Rung, Settle, DeleteGrant
<1>5. ~RetireIssuedRT(r)
    BY Zenon DEF RetireIssuedRT
<1> QED
    BY <1>1, <1>2, <1>3, <1>4, <1>5, Zenon DEF Handle

\* Without faults a request at its check retires the token or may release it.
LEMMA RetiringEnds ==
    ASSUME Typed, Provenance, NEW r \in Requests, Handle(r) \/ (Abort(r) /\ UNCHANGED codeVars),
           MaxFaults = 0, Opaque, NEW a \in AccessTokens, Retiring(a)
    PROVE  Retiring(a)' \/ a \in accessRevoked' \/ bornOf[a] > closedAt
<1>1. PICK s \in Requests : newAT[s] = a /\ pc[s] \in {"confirm", "retireAT"}
    BY Zenon DEF Retiring
<1>2. CASE s # r
    BY <1>1, <1>2, HandleEffects, Zenon DEF Effects, Stable, Retiring
<1>3. CASE s = r
    <2>1. ~Abort(r)
        BY DEF Abort, Typed, TypeOK, RequestsTypeOK, TeardownTypeOK
    <2>2. CASE RetireIssuedAT(r)
        BY <1>1, <1>3, <2>2, StoreAssumption, Zenon DEF RetireIssuedAT, RevokeAccess
    <2>3. CASE Confirm(r) /\ IssuanceRevoked(redeemedAt[r])
        BY <1>1, <1>3, <2>3, ControlTyped, Zenon DEF ControlTypeOK, Confirm, Goto, requestVars, Retiring
    <2>4. CASE Confirm(r) /\ ~IssuanceRevoked(redeemedAt[r])
        <3>1. bornOf[a] = redeemedAt[r] /\ 1 <= bornOf[a]
            BY <1>1, <1>3, StoreAssumption, Zenon DEF Provenance, Carries, Minted, AccessFits
        <3> QED
            BY <2>4, <3>1, TimesTyped DEF IssuanceRevoked, Covers
    <2> QED
        BY <1>1, <1>3, <2>1, <2>2, <2>3, <2>4, ExitStep, Zenon
<1> QED
    BY <1>2, <1>3, Zenon

\* So what was swept up to a closed date stays swept.
LEMMA AccessStaysSwept ==
    ASSUME Typed, Typed', Provenance, AccessRegime, NEW r \in Requests, Handle(r) \/ (Abort(r) /\ UNCHANGED codeVars),
           NEW T \in Nat, T <= closedAt, AccessSwept(T)
    PROVE  \A a \in AccessTokens : Exposed(a)' /\ bornOf'[a] <= T =>
              a \in accessRevoked' \/ (~Transactional /\ ~Constrained /\ Retiring(a)')
<1> SUFFICES ASSUME NEW a \in AccessTokens, Exposed(a)', bornOf'[a] <= T
             PROVE  a \in accessRevoked' \/ (~Transactional /\ ~Constrained /\ Retiring(a)')
    BY Zenon
<1>1. Stable(r)
    BY HandleEffects, Zenon DEF Effects
<1>2. CASE ~Exposed(a)
    <2>1. bornOf'[a] \in Nat
        BY StoreAssumption DEF Typed, TypeOK, RequestsTypeOK, HistoryTypeOK, Times
    <2> QED
        BY <1>2, <2>1, ExposedLate, TimesTyped
<1>3. CASE Exposed(a)
    <2>1. a \in accessTokens
        BY <1>3, Zenon DEF Exposed, Provenance, Minted, Rows, SealFits
    <2>2. bornOf'[a] = bornOf[a]
        BY <1>1, <2>1, Zenon DEF Stable, Grows
    <2>3. CASE a \in accessRevoked
        BY <1>1, <2>3, Zenon DEF Stable
    <2>4. CASE ~Transactional /\ ~Constrained /\ Retiring(a)
        <3>1. ~(bornOf[a] > closedAt)
            BY <2>2, TimesTyped
        <3> QED
            BY <2>4, <3>1, RetiringEnds, Zenon DEF AccessRegime
    <2> QED
        BY <1>3, <2>2, <2>3, <2>4, Zenon DEF AccessSwept
<1> QED
    BY <1>2, <1>3, Zenon

\* A step of a request keeps what the closure promises of access tokens.
LEMMA HandleAccessClosed ==
    ASSUME Typed, Typed', Provenance, Provenance', Ladder, GrantClosed, AccessRegime, AccessClosed, NEW r \in Requests,
           Handle(r) \/ (Abort(r) /\ UNCHANGED codeVars)
    PROVE  AccessClosed'
<1>1. Effects(r)
    BY HandleEffects, Zenon
<1>2. AccessSwept(tornAt)'
    <2>1. tornAt <= closedAt /\ AccessSwept(tornAt)
        BY Zenon DEF GrantClosed, AccessClosed
    <2>2. CASE tornAt' = tornAt
        BY <2>1, <2>2, AccessStaysSwept, TimesTyped, Zenon DEF AccessSwept
    <2>3. CASE pc[r] = "settle" /\ Closing(r) /\ tornAt' = runNow[r]
        <3>1. runNow[r] <= closedAt /\ AccessSwept(runNow[r])
            BY <2>3, Zenon DEF GrantClosed, AccessClosed, PastClosing
        <3> QED
            BY <2>3, <3>1, AccessStaysSwept, TimesTyped, Zenon DEF AccessSwept
    <2> QED
        BY <1>1, <2>2, <2>3, SettleRecords, Zenon DEF Effects, Closes, Later
<1>3. ASSUME NEW s \in Requests, Closing(s)', pc'[s] \in {"refreshRung", "settle"}
      PROVE  AccessSwept(runNow[s])'
    <2>1. CASE Closing(s) /\ pc[s] \in {"refreshRung", "settle"} /\ runNow'[s] = runNow[s]
        <3>1. runNow[s] <= closedAt /\ AccessSwept(runNow[s])
            BY <2>1, Zenon DEF GrantClosed, AccessClosed, PastClosing
        <3> QED
            BY <2>1, <3>1, AccessStaysSwept, TimesTyped, Zenon DEF AccessSwept
    <2>2. CASE s # r
        BY <1>1, <1>3, <2>1, <2>2, Zenon DEF Effects, Stable, Closing
    <2>3. CASE s = r
        <3>1. /\ TeardownStep(r) /\ scope'[r] = scope[r] /\ runNow'[r] = runNow[r]
              /\ r \notin failed' /\ r \notin failed
              /\ pc[r] \in RungLabels \ {"settle"} /\ pc'[r] = NextRung(scope[r], pc[r]) /\ ClosesIssuance(scope[r])
            BY <1>1, <1>3, <2>3, Climbed, Zenon DEF Effects, Stable, Closing, RungLabels
        <3>2. CASE pc[r] = "refreshRung"
            BY <2>1, <2>3, <3>1, <3>2, Zenon DEF Closing
        <3>3. CASE pc[r] = "opaqueRung"
            <4>1. scope[r] # "chain"
                BY <3>1, Zenon DEF ClosesIssuance, WholeGrant
            <4>2. accessTokens' \subseteq accessRevoked'
                BY <3>1, <3>3, <4>1, RungWrites, Zenon DEF AccessRegime
            <4>3. \A a \in AccessTokens : Exposed(a)' => a \in accessTokens'
                BY Zenon DEF Exposed, Provenance, Minted, Rows, SealFits
            <4> QED
                BY <4>2, <4>3, Zenon DEF AccessSwept
        <3>4. pc[r] # "jwtRung" /\ pc[r] # "closeRung"
            BY <1>3, <2>3, <3>1, Zenon DEF NextRung, Ladder, AccessRegime
        <3> QED
            BY <3>1, <3>2, <3>3, <3>4, Zenon DEF RungLabels
    <2> QED
        BY <2>2, <2>3, Zenon
<1> QED
    BY <1>2, <1>3, Zenon DEF AccessClosed

\* So does every step of the service.
LEMMA NextAccessClosed ==
    ASSUME Typed, Typed', Provenance, Provenance', Ladder, GrantClosed, AccessRegime, AccessClosed, [Next]_vars
    PROVE  AccessClosed'
<1>1. CASE World
    <2>1. UNCHANGED <<pc, bornOf, newAT, sentAT, retries, accessRevoked, tornAt, runNow, scope, failed>>
        BY <1>1, WorldHolds, Zenon DEF storeVars, refreshVars, accessVars, teardownVars, requestVars, historyVars
    <2>2. \A a \in AccessTokens : (Exposed(a)' <=> Exposed(a)) /\ (Retiring(a)' <=> Retiring(a))
        BY <2>1, Zenon DEF Exposed, Retiring
    <2>3. \A r \in Requests : Closing(r)' <=> Closing(r)
        BY <2>1, Zenon DEF Closing
    <2>4. AccessSwept(tornAt)'
        BY <2>1, <2>2, Zenon DEF AccessClosed, AccessSwept
    <2>5. ASSUME NEW r \in Requests, Closing(r)', pc'[r] \in {"refreshRung", "settle"} PROVE AccessSwept(runNow[r])'
        <3>1. AccessSwept(runNow[r])
            BY <2>1, <2>3, <2>5, Zenon DEF AccessClosed
        <3> QED
            BY <2>1, <2>2, <3>1, Zenon DEF AccessSwept
    <2> QED
        BY <2>4, <2>5, Zenon DEF AccessClosed
<1> QED
    BY <1>1, HandleAccessClosed, Zenon DEF Next, Rest, World

\* Nobody holds an access token at the start.
LEMMA InitAccessClosed == Init => AccessClosed
<1> SUFFICES ASSUME Init PROVE AccessClosed
    BY Zenon
<1>1. \A a \in AccessTokens : ~Exposed(a)
    BY Zenon DEF Init, StoresInit, RequestsInit, Exposed
<1> QED
    BY <1>1, Zenon DEF AccessClosed, AccessSwept

-----------------------------------------------------------------------------
(* What was issued before the teardown read its clock *)

\* Only these steps mint.
LEMMA MintCases ==
    ASSUME Typed, Provenance, NEW r \in Requests, Handle(r) \/ (Abort(r) /\ UNCHANGED codeVars)
    PROVE  \/ UNCHANGED <<accessTokens, accessChain, issuedAt>>
           \/ \E a \in AccessTokens : \/ MintStep(r, a)
                                      \/ TxRotateNothing(r, a) \/ TxGraceRemint(r, a)
                                      \/ \E t \in Tokens : TxRotate(r, a, t)
                                      \/ \E k \in Chains : CodeMint(r, a, k)
<1>1. Passes(r) => UNCHANGED <<accessTokens, accessChain, issuedAt>>
    BY Zenon DEF Passes, SameTables
<1>2. CASE CodeStep(r)
    <2>1. CASE CodeSubject(r) \/ CodeRefreshWithheld(r) \/ CodeRefreshFails(r) \/ CodeConsume(r)
        BY <2>1, Zenon DEF CodeSubject, CodeRefreshWithheld, CodeRefreshFails, CodeConsume, storeVars, accessVars
    <2>2. CASE \/ \E c \in Codes, f \in {"ok", "mismatch"} : CodeStart(r, c, f)
               \/ \E t \in Tokens : CodeRefresh(r, t)
        BY <2>2, Zenon DEF CodeStart, CodeRefresh, storeVars, accessVars
    <2> QED
        BY <1>2, <2>1, <2>2, Zenon DEF CodeStep
<1>3. CASE RefreshStep(r) /\ UNCHANGED codeVars
    <2>1. CASE \/ \E t \in sentRT, f \in Fits : RefreshStart(r, t, f)
               \/ Exchange(r) \/ ExchangeKept(r) \/ Grace(r)
               \/ \E t \in Tokens \ refreshes : Rotate(r, t)
        BY <2>1, Zenon DEF RefreshStart, Exchange, ExchangeKept, Grace, Rotate, storeVars, accessVars
    <2> QED
        BY <1>1, <1>3, <2>1, IssuingPasses, RefusalPasses, ReplayPasses, Zenon DEF RefreshStep
<1>4. CASE RevokeStep(r) /\ UNCHANGED codeVars
    <2>1. CASE \E t \in sentRT, f \in {"ok", "mismatch"} : RevokeStart(r, t, f)
        BY <2>1, Zenon DEF RevokeStart, storeVars, accessVars
    <2> QED
        BY <1>1, <1>4, <2>1, RevokePasses, Zenon DEF RevokeStep
<1>5. CASE (Confirm(r) \/ RetireIssuedAT(r) \/ RetireIssuedRT(r) \/ Abort(r)) /\ UNCHANGED codeVars
    BY <1>1, <1>5, ExitPasses, Zenon DEF codeVars
<1>6. CASE TeardownStep(r) /\ UNCHANGED <<requestVars, subjectLive, historyVars, codeVars>>
    BY <1>1, <1>6, TeardownPasses, Zenon
<1> QED
    BY <1>2, <1>3, <1>4, <1>5, <1>6, Zenon DEF Handle

\* A mint is dated by the clock.
LEMMA MintedNow ==
    ASSUME Typed, Provenance, NEW r \in Requests, Handle(r) \/ (Abort(r) /\ UNCHANGED codeVars),
           NEW a \in accessTokens' \ accessTokens
    PROVE  issuedAt'[a] = now
<1>1. PICK b \in AccessTokens : \/ MintStep(r, b)
                                \/ TxRotateNothing(r, b) \/ TxGraceRemint(r, b)
                                \/ \E t \in Tokens : TxRotate(r, b, t)
                                \/ \E k \in Chains : CodeMint(r, b, k)
    BY MintCases, Zenon
<1>2. PICK k : Mint(r, b, k)
    BY <1>1, Zenon DEF MintStep, TxRotateNothing, TxGraceRemint, TxRotate, CodeMint
<1>3. accessTokens' = accessTokens \cup {b} /\ issuedAt'[b] = now
    BY <1>2, MintGrows
<1> QED
    BY <1>3, Zenon

\* A sweep up to a time that has passed stays complete: a mint is dated later.
LEMMA AgedStaysSwept ==
    ASSUME Typed, Provenance, NEW r \in Requests, Handle(r) \/ (Abort(r) /\ UNCHANGED codeVars),
           NEW T \in Nat, T <= now, AgedSwept(T)
    PROVE  \A a \in accessTokens' : issuedAt'[a] < T => a \in accessRevoked'
<1> SUFFICES ASSUME NEW a \in accessTokens', issuedAt'[a] < T PROVE a \in accessRevoked'
    BY Zenon
<1>1. CASE a \in accessTokens
    BY <1>1, HandleEffects, Zenon DEF Effects, Stable, Grows, AgedSwept
<1>2. CASE a \notin accessTokens
    <2>1. issuedAt'[a] = now
        BY <1>2, MintedNow, Zenon
    <2>2. now \in Nat
        BY TimesTyped, Zenon
    <2> QED
        BY <2>1, <2>2
<1> QED
    BY <1>1, <1>2, Zenon

\* A step of a request keeps the sweeps of the older tokens.
LEMMA HandleAged ==
    ASSUME Typed, Provenance, Ladder, MarkedRegime, AgedClosed, NEW r \in Requests,
           Handle(r) \/ (Abort(r) /\ UNCHANGED codeVars)
    PROVE  AgedClosed'
<1>1. Effects(r)
    BY HandleEffects, Zenon
<1>2. tornAt' <= now' /\ AgedSwept(tornAt)'
    <2>1. CASE tornAt' = tornAt
        BY <1>1, <2>1, AgedStaysSwept, TimesTyped, Zenon DEF AgedClosed, AgedSwept, Effects, Stable
    <2>2. CASE pc[r] = "settle" /\ Closing(r) /\ tornAt' = runNow[r]
        <3>1. runNow[r] \in 1 .. now
            BY <2>2, Zenon DEF Ladder, RungLabels
        <3>2. runNow[r] <= now
            BY <3>1
        <3>3. AgedSwept(runNow[r])
            BY <2>2, Zenon DEF AgedClosed, PastSweep
        <3> QED
            BY <1>1, <2>2, <3>2, <3>3, AgedStaysSwept, TimesTyped, Zenon DEF AgedSwept, Effects, Stable
    <2> QED
        BY <1>1, <2>1, <2>2, SettleRecords, Zenon DEF Effects, Closes, Later
<1>3. ASSUME NEW s \in Requests, Closing(s)', PastSweep(s)'
      PROVE  AgedSwept(runNow[s])'
    <2>1. CASE Closing(s) /\ PastSweep(s) /\ runNow'[s] = runNow[s]
        <3>1. runNow[s] <= now /\ AgedSwept(runNow[s])
            BY <2>1 DEF Ladder, RungLabels, AgedClosed, PastSweep
        <3> QED
            BY <2>1, <3>1, AgedStaysSwept, TimesTyped, Zenon DEF AgedSwept
    <2>2. CASE s # r
        BY <1>1, <1>3, <2>1, <2>2, Zenon DEF Effects, Stable, Closing, PastSweep
    <2>3. CASE s = r
        <3>1. /\ TeardownStep(r) /\ scope'[r] = scope[r] /\ runNow'[r] = runNow[r]
              /\ r \notin failed' /\ r \notin failed
              /\ pc[r] \in RungLabels \ {"settle"} /\ pc'[r] = NextRung(scope[r], pc[r]) /\ ClosesIssuance(scope[r])
            BY <1>1, <1>3, <2>3, Climbed, Zenon DEF Effects, Stable, Closing, PastSweep, RungLabels
        <3>2. CASE PastSweep(r)
            BY <2>1, <2>3, <3>1, <3>2, Zenon DEF Closing
        <3>3. CASE (Opaque /\ pc[r] = "opaqueRung") \/ (~Opaque /\ pc[r] = "jwtRung")
            <4>1. scope[r] # "chain"
                BY <3>1, Zenon DEF ClosesIssuance, WholeGrant
            <4>2. accessTokens' \subseteq accessRevoked'
                BY <3>1, <3>3, <4>1, RungWrites, Zenon DEF MarkedRegime
            <4> QED
                BY <4>2, Zenon DEF AgedSwept
        <3>4. ~(Opaque /\ pc[r] = "jwtRung")
            BY <1>3, <2>3, <3>1, Zenon DEF NextRung, PastSweep
        <3>5. CASE pc[r] = "jwtRung"
            BY <3>3, <3>4, <3>5, Zenon
        <3>6. CASE pc[r] = "opaqueRung"
            <4>1. CASE Opaque
                BY <3>3, <3>6, <4>1, Zenon
            <4>2. CASE ~Opaque
                BY <3>2, <3>6, <4>2, Zenon DEF PastSweep
            <4> QED
                BY <4>1, <4>2, Zenon
        <3>7. CASE pc[r] \in {"closeRung", "refreshRung", "settle"}
            BY <3>2, <3>7, Zenon DEF PastSweep
        <3> QED
            BY <3>1, <3>5, <3>6, <3>7, Zenon DEF RungLabels
    <2> QED
        BY <2>2, <2>3, Zenon
<1> QED
    BY <1>2, <1>3, Zenon DEF AgedClosed

\* So does every step of the service.
LEMMA NextAged ==
    ASSUME Typed, Provenance, Ladder, MarkedRegime, AgedClosed, [Next]_vars
    PROVE  AgedClosed'
<1>1. CASE World
    BY <1>1, WorldHolds, TimesTyped DEF AgedClosed, AgedSwept, Closing, PastSweep, storeVars, accessVars, teardownVars
<1> QED
    BY <1>1, HandleAged, Zenon DEF Next, Rest, World

-----------------------------------------------------------------------------
(* One live access token *)

\* A step of a request keeps the grace retries away from the mint.
LEMMA GraceWaitsStep ==
    ASSUME Typed, Provenance, Chained, GraceWaits, LiveRegime, NEW r \in Requests,
           Handle(r) \/ (Abort(r) /\ UNCHANGED codeVars)
    PROVE  GraceWaits'
<1>1. \A s \in Requests \ {r} : pc'[s] = pc[s]
    BY HandleEffects, Zenon DEF Effects, Stable
<1>2. ~Load(r) \/ pc'[r] = "done"
    <2> SUFFICES ASSUME Load(r), HasRetry(tok[r]), Constrained PROVE FALSE
        BY ControlTyped, Zenon DEF ControlTypeOK, Load, Goto
    <2>1. pc[r] = "load" /\ r \in inGrace /\ tok[r] \in Tokens
        BY Zenon DEF Load, Chained, GraceLoads, Typed, Presented, RefreshLabels
    <2>2. ~Transactional
        BY <2>1, Zenon DEF LiveRegime, Provenance, Carries, Issuing
    <2> QED
        BY <2>1, <2>2, Zenon DEF LiveRegime, GraceWaits, HasRetry
<1>3. \A s \in Requests : pc'[s] \in MintLabels => s \notin inGrace'
    <2>1. CASE UNCHANGED inGrace /\ pc'[r] \notin MintLabels
        BY <1>1, <2>1, Zenon DEF GraceWaits
    <2>2. CASE Subject(r) \/ Prior(r) \/ CheckClosed(r) \/ Load(r)
        BY <1>1, <1>2, <2>2, ControlTyped, Zenon DEF ControlTypeOK, Subject, Prior, CheckClosed, Load, Goto,
           BeginTeardown, requestVars, GraceWaits, MintLabels
    <2>3. CASE Grace(r) \/ \E a \in AccessTokens : TxGraceRemint(r, a)
        BY <1>1, <2>3, ControlTyped, Zenon DEF ControlTypeOK, Grace, TxGraceRemint, Goto, GraceWaits, MintLabels
    <2> QED
        BY <2>1, <2>2, <2>3, GraceCases, Zenon DEF GraceStep
<1>4. GraceTTL = 0 => inGrace' = {}
    <2>1. CASE UNCHANGED inGrace
        BY <2>1, Zenon DEF GraceWaits
    <2>2. CASE Grace(r) \/ \E a \in AccessTokens : TxGraceRemint(r, a)
        <3>1. GraceTTL = 0 => ~GraceApplies(r)
            BY DEF GraceApplies, WithinGrace
        <3> QED
            BY <2>1, <2>2, <3>1, Zenon DEF Grace, TxGraceRemint
    <2>3. CASE Subject(r) \/ Prior(r) \/ CheckClosed(r) \/ Load(r)
        BY <2>1, <2>3, Zenon DEF Subject, Prior, CheckClosed, Load, requestVars
    <2> QED
        BY <2>1, <2>2, <2>3, GraceCases, Zenon DEF GraceStep
<1>5. ~RetryKeys => \A t \in Tokens : retries'[t] = NoRetry
    <2> SUFFICES ASSUME ~RetryKeys PROVE UNCHANGED retries
        BY Zenon DEF GraceWaits
    <2>1. CASE \E t \in Tokens : Rotate(r, t) /\ ParentAlive(tok[r])
        BY <2>1, Zenon DEF Rotate, Persist, SaveRefresh, Sealed
    <2>2. CASE \E a \in AccessTokens, t \in Tokens : TxRotate(r, a, t)
        BY <2>2, Zenon DEF TxRotate, Persist, SaveRefresh, Sealed
    <2> QED
        BY <2>1, <2>2, SaveStep, Zenon
<1> QED
    BY <1>3, <1>4, <1>5, Zenon DEF GraceWaits

\* A step that mints nothing leaves every sweep and every live token alone.
LEMMA UnmintedKeeps ==
    ASSUME Typed, Provenance, Chained, GraceWaits, LiveRegime, OneMinter, NEW r \in Requests,
           Handle(r) \/ (Abort(r) /\ UNCHANGED codeVars),
           UNCHANGED <<accessTokens, accessChain, issuedAt>>
    PROVE  (\A s \in Requests : ChainSwept(s)') /\ OneLiveAccess'
<1>1. Stable(r)
    BY HandleEffects, Zenon DEF Effects
<1>2. ASSUME NEW s \in Requests \ {r} PROVE ChainSwept(s)'
    <2>1. pc[s] \in {"closed", "mint"} => tok[s] \in refreshes
        BY Zenon DEF Chained, Custody, Extending, OneMinter, GraceWaits, MintLabels, LiveRegime
    <2> QED
        BY <1>1, <1>2, <2>1 DEF Stable, Grows, ChainSwept, OneMinter
<1>3. ChainSwept(r)'
    <2>1. CASE pc'[r] \notin MintLabels
        BY <2>1, Zenon DEF ChainSwept, MintLabels
    <2>2. CASE Prior(r)
        <3>1. /\ UNCHANGED <<accessTokens, accessChain, chainOf, tok>>
              /\ accessRevoked' = accessRevoked \cup OfChain(chainOf[tok[r]])
            BY <2>2, Zenon DEF Prior, RevokeAccess, LiveRegime, refreshVars
        <3> QED
            BY <3>1, Zenon DEF ChainSwept, OfChain
    <2>3. CASE CheckClosed(r)
        <3>1. UNCHANGED <<accessTokens, accessChain, accessRevoked, chainOf, tok>> /\ pc[r] = "closed"
            BY <2>3, Zenon DEF CheckClosed, storeVars, refreshVars, accessVars
        <3> QED
            BY <3>1, Zenon DEF ChainSwept, OneMinter
    <2>4. CASE Subject(r) \/ Grace(r) \/ \E a \in AccessTokens : TxGraceRemint(r, a)
        BY <2>4, ControlTyped, Zenon DEF ControlTypeOK, Subject, Grace, TxGraceRemint, BeginTeardown, Goto, ChainSwept
    <2>5. CASE Load(r)
        <3>1. GraceWaits' /\ r \in inGrace'
            BY <2>5, GraceWaitsStep, Zenon DEF Load, Chained, GraceLoads, requestVars
        <3> QED
            BY <2>1, <3>1, Zenon DEF GraceWaits
    <2> QED
        BY <2>1, <2>2, <2>3, <2>4, <2>5, GraceCases, Zenon DEF GraceStep
<1>4. OneLiveAccess'
    BY <1>1, Zenon DEF Stable, OneMinter, OneLiveAccess, AccessLive, LiveRegime
<1> QED
    BY <1>2, <1>3, <1>4, Zenon

\* A mint on a chain whose tokens are all retired leaves one live token.
LEMMA SweptMint ==
    ASSUME Typed, OneLiveAccess, Opaque, NEW r \in Requests, NEW a \in AccessTokens, NEW k, Mint(r, a, k),
           accessRevoked \subseteq accessRevoked',
           \A b \in accessTokens : accessChain[b] = k => b \in accessRevoked'
    PROVE  OneLiveAccess'
<1>1. /\ a \notin accessTokens /\ accessTokens' = accessTokens \cup {a} /\ accessChain'[a] = k
      /\ \A b \in accessTokens : accessChain'[b] = accessChain[b]
    BY MintGrows
<1> QED
    BY <1>1, Zenon DEF OneLiveAccess, AccessLive

\* So does every step that mints, and the other requests about to mint work on
\* other chains.
LEMMA MintedKeeps ==
    ASSUME Typed, Provenance, Chained, LiveRegime, OneMinter, NEW r \in Requests, NEW a \in AccessTokens,
           \/ MintStep(r, a)
           \/ TxRotateNothing(r, a) \/ TxGraceRemint(r, a)
           \/ \E t \in Tokens : TxRotate(r, a, t)
           \/ \E k \in Chains : CodeMint(r, a, k),
           Stable(r)
    PROVE  (\A s \in Requests : ChainSwept(s)') /\ OneLiveAccess'
<1>1. PICK k :
         /\ Mint(r, a, k) /\ pc'[r] \notin {"closed", "mint"}
         /\ \A b \in accessTokens : accessChain[b] = k => b \in accessRevoked'
         /\ \A s \in Requests \ {r} : pc[s] \in {"closed", "mint"} => chainOf[tok[s]] # k
    <2>0. \A s \in Requests : pc[s] \in {"closed", "mint"} =>
             /\ Extending(s) /\ ~Opening(s) /\ tok[s] \in refreshes /\ ~Transactional
        <3>1. \A s \in Requests : pc[s] \in {"closed", "mint"} => Extending(s) /\ ~Opening(s)
            BY Zenon DEF Extending, Opening, OneMinter, GraceWaits, MintLabels, LiveRegime
        <3>2. \A s \in Requests : pc[s] \in {"closed", "mint"} => ~Transactional
            BY Zenon DEF LiveRegime, Provenance, Carries, Issuing
        <3> QED
            BY <3>1, <3>2, Zenon DEF Chained, Custody
    <2>1. CASE MintStep(r, a)
        <3>1. /\ pc[r] = "mint" /\ Mint(r, a, chainOf[tok[r]]) /\ pc'[r] \notin {"closed", "mint"}
              /\ accessRevoked' = accessRevoked
            BY <2>1, ControlTyped, Zenon DEF ControlTypeOK, MintStep, Goto
        <3>2. \A s \in Requests \ {r} : pc[s] \in {"closed", "mint"} => chainOf[tok[s]] # chainOf[tok[r]]
            BY <2>0, <3>1, Zenon DEF Chained, Custody, Claims, Claim
        <3>3. \A b \in accessTokens : accessChain[b] = chainOf[tok[r]] => b \in accessRevoked'
            BY <3>1, Zenon DEF OneMinter, ChainSwept
        <3> QED
            BY <3>1, <3>2, <3>3, Zenon
    <2>2. CASE TxRotateNothing(r, a) \/ TxGraceRemint(r, a) \/ \E t \in Tokens : TxRotate(r, a, t)
        <3>1. /\ Mint(r, a, chainOf[tok[r]]) /\ pc'[r] \notin {"closed", "mint"} /\ PriorRevoked(tok[r])
              /\ Transactional
            BY <2>2, ControlTyped, Zenon DEF ControlTypeOK, TxRotateNothing, TxGraceRemint, TxRotate, TxBegin, Goto
        <3>2. \A b \in accessTokens : accessChain[b] = chainOf[tok[r]] => b \in accessRevoked'
            BY <3>1, Zenon DEF PriorRevoked, OfChain, LiveRegime
        <3> QED
            BY <2>0, <3>1, <3>2, Zenon
    <2>3. CASE \E k \in Chains : CodeMint(r, a, k)
        <3>1. PICK k \in Chains : CodeMint(r, a, k)
            BY <2>3, Zenon
        <3>2. Mint(r, a, k) /\ FreshChain(k) /\ pc'[r] \notin {"closed", "mint"}
            BY <3>1, ControlTyped, Zenon DEF ControlTypeOK, CodeMint, Goto
        <3> QED
            BY <2>0, <3>2, Zenon DEF FreshChain
    <2> QED
        BY <2>1, <2>2, <2>3, Zenon
<1>2. OneLiveAccess'
    BY <1>1, SweptMint, Zenon DEF Stable, OneMinter, LiveRegime
<1>3. ASSUME NEW s \in Requests, pc'[s] \in {"closed", "mint"}, NEW b \in accessTokens',
             accessChain'[b] = (chainOf[tok[s]])'
      PROVE  b \in accessRevoked'
    <2>1. s # r /\ pc[s] \in {"closed", "mint"} /\ tok'[s] = tok[s]
        BY <1>1, <1>3, Zenon DEF Stable
    <2>2. tok[s] \in refreshes
        BY <2>1, Zenon DEF Chained, Custody, Extending, OneMinter, GraceWaits, MintLabels, LiveRegime
    <2>3. chainOf'[tok'[s]] = chainOf[tok[s]] /\ chainOf[tok[s]] # k
        BY <1>1, <2>1, <2>2, Zenon DEF Stable, Grows
    <2>4. Mint(r, a, k)
        BY <1>1, Zenon
    <2>5. b \in accessTokens /\ accessChain[b] = chainOf[tok[s]]
        <3>1. accessTokens' = accessTokens \cup {a} /\ accessChain'[a] = k
            BY <2>4, MintGrows
        <3>2. \A d \in accessTokens : accessChain'[d] = accessChain[d]
            BY <2>4, MintGrows, Zenon
        <3> QED
            BY <1>3, <2>3, <3>1, <3>2, Zenon
    <2> QED
        BY <2>1, <2>5, Zenon DEF OneMinter, ChainSwept, Stable
<1> QED
    BY <1>2, <1>3, Zenon DEF ChainSwept

\* Every step of the service keeps one minter on a chain.
LEMMA NextOneMinter ==
    ASSUME Typed, Provenance, Chained, LiveRegime, OneMinter, [Next]_vars
    PROVE  OneMinter'
<1>1. CASE World
    BY <1>1, Zenon DEF World, Clock, Tick, Deprovision, IssueCode, vars, issuanceVars, storeVars, refreshVars,
       accessVars, requestVars, OneMinter, GraceWaits, ChainSwept, OneLiveAccess, AccessLive, LiveRegime
<1>2. ASSUME NEW r \in Requests, Handle(r) \/ (Abort(r) /\ UNCHANGED codeVars)
      PROVE  OneMinter'
    <2>1. Stable(r) /\ GraceWaits'
        BY <1>2, HandleEffects, GraceWaitsStep, Zenon DEF Effects, OneMinter
    <2>2. (\A s \in Requests : ChainSwept(s)') /\ OneLiveAccess'
        BY <1>2, <2>1, MintCases, UnmintedKeeps, MintedKeeps, Zenon DEF OneMinter
    <2> QED
        BY <2>1, <2>2, Zenon DEF OneMinter
<1> QED
    BY <1>1, <1>2, Zenon DEF Next, Rest, World
=============================================================================
