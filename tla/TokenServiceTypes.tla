--------------------------- MODULE TokenServiceTypes ---------------------------
(***************************************************************************)
(* The type correctness of the token service.  A state is split into the   *)
(* groups of variables the actions leave alone together, so a step only    *)
(* argues about the groups it changes.                                     *)
(***************************************************************************)
EXTENDS TokenInvariants, TLAPS

-----------------------------------------------------------------------------
(* The facts every step rests on, and the refresh_token grant *)

\* A group of variables that does not change keeps its type.
LEMMA Frames ==
    /\ RefreshesTypeOK /\ UNCHANGED refreshVars => RefreshesTypeOK'
    /\ AccessTypeOK /\ UNCHANGED accessVars => AccessTypeOK'
    /\ TombTypeOK /\ UNCHANGED tombVars => TombTypeOK'
    /\ TeardownTypeOK /\ UNCHANGED teardownVars => TeardownTypeOK'
    /\ LocalTypeOK /\ UNCHANGED requestVars => LocalTypeOK'
    /\ HistoryTypeOK /\ UNCHANGED historyVars => HistoryTypeOK'
    /\ CodesTypeOK /\ UNCHANGED codeVars => CodesTypeOK'
    BY Zenon DEF RefreshesTypeOK, refreshVars, AccessTypeOK, accessVars, TombTypeOK, tombVars,
       TeardownTypeOK, teardownVars, LocalTypeOK, requestVars, HistoryTypeOK, historyVars,
       CodesTypeOK, codeVars

\* A request in the refresh handler or the revocation of a chain presented a token.
LEMMA Held ==
    ASSUME Typed, NEW r \in Requests, pc[r] \in RefreshLabels
    PROVE  Holds(tok[r])
<1>1. tok[r] \in Tokens
    BY Zenon DEF Typed, Presented
<1> QED
    BY <1>1, Zenon DEF Typed, TypeOK, StoresTypeOK, RefreshesTypeOK, Holds

\* Whatever branch Retire takes, the refresh substore keeps its type.
LEMMA RetireTyped ==
    ASSUME Typed, NEW t, NEW g, Retire(t, g)
    PROVE  RefreshesTypeOK'
<1> USE DEF Typed, TypeOK, StoresTypeOK, RefreshesTypeOK
<1>1. ASSUME NEW u, RevokeChain(u) PROVE RefreshesTypeOK'
    BY <1>1, Zenon DEF RevokeChain, MarkRevoked, Subtree
<1>2. ASSUME RevokeRefreshesByGrant PROVE RefreshesTypeOK'
    BY <1>2, Zenon DEF RevokeRefreshesByGrant, MarkRevoked
<1>3. ASSUME UNCHANGED refreshVars PROVE RefreshesTypeOK'
    BY <1>3, Zenon DEF refreshVars
<1> HIDE DEF Typed, RefreshesTypeOK
<1> QED
    BY <1>1, <1>2, <1>3, Zenon DEF Retire

\* A request that only moves to another label keeps what the label needs.
LEMMA Moved ==
    ASSUME Typed, NEW r \in Requests, NEW l \in Labels, Goto(r, l),
           UNCHANGED <<now, tok, inGrace, newAT, code>>,
           l \in RefreshLabels => tok[r] \in Tokens,
           l \notin CodeLabels, l # "codeRefresh"
    PROVE  ControlTypeOK' /\ Presented'
<1>1. ControlTypeOK'
    BY Zenon DEF Typed, TypeOK, RequestsTypeOK, ControlTypeOK, Goto
<1>2. \A s \in Requests : pc'[s] = IF s = r THEN l ELSE pc[s]
    BY Zenon DEF Typed, TypeOK, RequestsTypeOK, ControlTypeOK, Goto
<1> QED
    BY <1>1, <1>2, Zenon DEF Typed, Presented

\* Entering a teardown reads the clock and records a scope.
LEMMA BeginTyped ==
    ASSUME Typed, NEW r \in Requests, NEW s \in Scopes, BeginTeardown(r, s)
    PROVE  scope' \in [Requests -> Scopes] /\ runNow' \in [Requests -> Times]
    BY Zenon DEF Typed, TypeOK, StoresTypeOK, RequestsTypeOK, TeardownTypeOK, BeginTeardown

\* Save and SaveRotationWithRetry keep the columns they write in their types.
LEMMA SavedTyped ==
    ASSUME Typed, NEW t \in Tokens, NEW parent \in Tokens, NEW chain \in Chains \cup {NoChain},
           NEW isJoined, NEW sealed \in (AccessTokens \cup {NoAccess}) \X (Tokens \cup {NoToken}),
           SaveRefresh(t, parent, chain, isJoined, sealed)
    PROVE  /\ refreshes' \subseteq Tokens
           /\ parentOf' \in [Tokens -> Tokens \cup {NoToken}]
           /\ chainOf' \in [Tokens -> Chains \cup {NoChain}]
           /\ joined' \subseteq Tokens
           /\ createdAt' \in [Tokens -> Times]
           /\ retries' \in [Tokens -> (AccessTokens \cup {NoAccess}) \X (Tokens \cup {NoToken})]
<1> USE DEF Typed, TypeOK, StoresTypeOK, RefreshesTypeOK
<1>1. /\ refreshes' \subseteq Tokens
      /\ parentOf' \in [Tokens -> Tokens \cup {NoToken}]
      /\ chainOf' \in [Tokens -> Chains \cup {NoChain}]
      /\ createdAt' \in [Tokens -> Times]
    BY Zenon DEF SaveRefresh
<1>2. joined' = joined \cup {t} \/ joined' = joined
    BY Zenon DEF SaveRefresh
<1>3. retries' = [retries EXCEPT ![parent] = sealed] \/ retries' = retries
    BY Zenon DEF SaveRefresh
<1> QED
    BY <1>1, <1>2, <1>3

\* RefreshStart keeps every variable in its type and what the request holds.
LEMMA RefreshStartTyped ==
    ASSUME Typed, NEW r \in Requests, NEW t \in sentRT, NEW f \in Fits, RefreshStart(r, t, f),
       UNCHANGED codeVars
    PROVE  Typed'
<1> USE DEF Typed, TypeOK, StoresTypeOK, RequestsTypeOK
<1>1. LocalTypeOK'
    BY Zenon DEF RefreshStart, Fits, LocalTypeOK, requestVars
<1>2. ControlTypeOK' /\ Presented'
    BY Zenon DEF RefreshStart, ControlTypeOK, Presented, Goto, Labels, RefreshLabels, CodeLabels,
       LocalTypeOK, CodesTypeOK, HistoryTypeOK, requestVars, codeVars
<1> QED
    BY <1>1, <1>2, Frames, Zenon DEF RefreshStart, storeVars

\* Exchange keeps every variable in its type and what the request holds.
LEMMA ExchangeTyped ==
    ASSUME Typed, NEW r \in Requests, Exchange(r), UNCHANGED codeVars
    PROVE  Typed'
<1> USE DEF Typed, TypeOK, StoresTypeOK, RequestsTypeOK
<1>1. pc[r] \in RefreshLabels
    BY Zenon DEF Exchange, RefreshLabels
<1>2. Holds(tok[r])
    BY <1>1, Held, Zenon
<1>3. RefreshesTypeOK'
    BY <1>2, Zenon DEF Exchange, Consume, RefreshesTypeOK, Times, refreshVars, NoRetry, storeVars, Holds
<1>4. LocalTypeOK'
    BY <1>2, Zenon DEF Exchange, LocalTypeOK, requestVars, Holds
<1>5. ControlTypeOK' /\ Presented'
    BY <1>2 DEF Exchange, ControlTypeOK, Presented, Goto, Labels, RefreshLabels, CodeLabels,
       LocalTypeOK, CodesTypeOK, HistoryTypeOK, requestVars, codeVars, Holds
<1> QED
    BY <1>3, <1>4, <1>5, Frames, Zenon DEF Exchange, storeVars

\* ExchangeKept keeps every variable in its type and what the request holds.
LEMMA ExchangeKeptTyped ==
    ASSUME Typed, NEW r \in Requests, ExchangeKept(r), UNCHANGED codeVars
    PROVE  Typed'
<1> USE DEF Typed, TypeOK, StoresTypeOK, RequestsTypeOK
<1>1. pc[r] \in RefreshLabels
    BY Zenon DEF ExchangeKept, RefreshLabels
<1>2. Holds(tok[r])
    BY <1>1, Held, Zenon
<1>3. LocalTypeOK'
    BY <1>2, Zenon DEF ExchangeKept, LocalTypeOK, requestVars, Holds
<1>4. ControlTypeOK' /\ Presented'
    BY <1>2, Zenon DEF ExchangeKept, ControlTypeOK, Presented, Goto, Labels, RefreshLabels, CodeLabels,
       LocalTypeOK, CodesTypeOK, HistoryTypeOK, requestVars, codeVars, Holds
<1> QED
    BY <1>3, <1>4, Frames, Zenon DEF ExchangeKept, storeVars

\* Grace keeps every variable in its type and what the request holds.
LEMMA GraceTyped ==
    ASSUME Typed, NEW r \in Requests, Grace(r), UNCHANGED codeVars
    PROVE  Typed'
<1> USE DEF Typed, TypeOK, StoresTypeOK, RequestsTypeOK
<1>1. pc[r] \in RefreshLabels
    BY Zenon DEF Grace, RefreshLabels
<1>2. Holds(tok[r])
    BY <1>1, Held, Zenon
<1>3. LocalTypeOK'
    BY <1>2, Zenon DEF Grace, LocalTypeOK, requestVars, Holds
<1>4. ControlTypeOK' /\ Presented'
    BY <1>2, Zenon DEF Grace, ControlTypeOK, Presented, Goto, Labels, RefreshLabels, CodeLabels,
       LocalTypeOK, CodesTypeOK, HistoryTypeOK, requestVars, codeVars, Holds
<1> QED
    BY <1>3, <1>4, Frames, Zenon DEF Grace, storeVars

\* Subject keeps every variable in its type and what the request holds.
LEMMA SubjectTyped ==
    ASSUME Typed, NEW r \in Requests, Subject(r), UNCHANGED codeVars
    PROVE  Typed'
<1> USE DEF Typed, TypeOK, StoresTypeOK, RequestsTypeOK
<1>1. pc[r] \in RefreshLabels
    BY Zenon DEF Subject, RefreshLabels
<1>2. Holds(tok[r])
    BY <1>1, Held, Zenon
<1>3. TeardownTypeOK'
    BY <1>2, Zenon DEF Subject, BeginTeardown, Scopes, TeardownTypeOK, teardownVars, Times
<1>4. \E l \in {"load", "prior", "jwtRung"} : Goto(r, l)
    BY Zenon DEF Subject, BeginTeardown
<1>5. UNCHANGED <<now, tok, inGrace, newAT, code>>
    BY Zenon DEF Subject, requestVars, codeVars
<1>6. ControlTypeOK' /\ Presented'
    BY <1>2, <1>4, <1>5, Moved, Zenon DEF Holds, Labels, RefreshLabels, CodeLabels
<1> QED
    BY <1>3, <1>6, Frames, Zenon DEF Subject, storeVars

\* Load keeps every variable in its type and what the request holds.
LEMMA LoadTyped ==
    ASSUME Typed, NEW r \in Requests, Load(r), UNCHANGED codeVars
    PROVE  Typed'
<1> USE DEF Typed, TypeOK, StoresTypeOK, RequestsTypeOK
<1>1. pc[r] \in RefreshLabels
    BY Zenon DEF Load, RefreshLabels
<1>2. Holds(tok[r])
    BY <1>1, Held, Zenon
<1>3. HistoryTypeOK'
    BY <1>2, Zenon DEF Load, Deliver, HistoryTypeOK, historyVars, Holds
<1>4. ControlTypeOK' /\ Presented'
    BY <1>2 DEF Load, ControlTypeOK, Presented, Goto, Labels, RefreshLabels, CodeLabels,
       LocalTypeOK, CodesTypeOK, HistoryTypeOK, requestVars, codeVars, Holds
<1> QED
    BY <1>3, <1>4, Frames, Zenon DEF Load, storeVars

\* Prior keeps every variable in its type and what the request holds.
LEMMA PriorTyped ==
    ASSUME Typed, NEW r \in Requests, Prior(r), UNCHANGED codeVars
    PROVE  Typed'
<1> USE DEF Typed, TypeOK, StoresTypeOK, RequestsTypeOK
<1>1. pc[r] \in RefreshLabels
    BY Zenon DEF Prior, RefreshLabels
<1>2. Holds(tok[r])
    BY <1>1, Held, Zenon
<1>3. AccessTypeOK'
    BY <1>2, Zenon DEF Prior, RevokeAccess, OfChain, AccessTypeOK, accessVars, storeVars, Holds
<1>4. ControlTypeOK' /\ Presented'
    BY <1>2, Zenon DEF Prior, ControlTypeOK, Presented, Goto, Labels, RefreshLabels, CodeLabels,
       LocalTypeOK, CodesTypeOK, HistoryTypeOK, requestVars, codeVars, Holds
<1> QED
    BY <1>3, <1>4, Frames, Zenon DEF Prior, storeVars

\* CheckClosed keeps every variable in its type and what the request holds.
LEMMA CheckClosedTyped ==
    ASSUME Typed, NEW r \in Requests, CheckClosed(r), UNCHANGED codeVars
    PROVE  Typed'
<1> USE DEF Typed, TypeOK, StoresTypeOK, RequestsTypeOK
<1>1. ControlTypeOK' /\ Presented'
    BY Zenon DEF CheckClosed, ControlTypeOK, Presented, Goto, Labels, RefreshLabels, CodeLabels,
       LocalTypeOK, CodesTypeOK, HistoryTypeOK, requestVars, codeVars
<1> QED
    BY <1>1, Frames, Zenon DEF CheckClosed, storeVars

\* MintStep keeps every variable in its type and what the request holds.
LEMMA MintStepTyped ==
    ASSUME Typed, NEW r \in Requests, NEW a \in AccessTokens, MintStep(r, a), UNCHANGED codeVars
    PROVE  Typed'
<1> USE DEF Typed, TypeOK, StoresTypeOK, RequestsTypeOK
<1>1. pc[r] \in RefreshLabels
    BY Zenon DEF MintStep, RefreshLabels
<1>2. Holds(tok[r])
    BY <1>1, Held, Zenon
<1>3. AccessTypeOK'
    BY <1>2, Zenon DEF MintStep, Mint, MintAccess, AccessTypeOK, accessVars, storeVars, Holds
<1>4. LocalTypeOK'
    BY <1>2, Zenon DEF MintStep, Mint, LocalTypeOK, requestVars, Holds
<1>5. HistoryTypeOK'
    BY <1>2, Zenon DEF MintStep, Mint, HistoryTypeOK, LocalTypeOK, historyVars, Holds
<1>6. ControlTypeOK' /\ Presented'
    BY <1>2, Zenon DEF MintStep, Mint, ControlTypeOK, Presented, Goto, Labels, RefreshLabels, CodeLabels,
       LocalTypeOK, CodesTypeOK, HistoryTypeOK, requestVars, codeVars, Holds
<1> QED
    BY <1>3, <1>4, <1>5, <1>6, Frames, Zenon DEF MintStep, storeVars

\* Rotate keeps every variable in its type and what the request holds.
LEMMA RotateTyped ==
    ASSUME Typed, NEW r \in Requests, NEW t \in Tokens \ refreshes, Rotate(r, t), UNCHANGED codeVars
    PROVE  Typed'
<1> USE DEF Typed, TypeOK, StoresTypeOK, RequestsTypeOK
<1>1. pc[r] \in RefreshLabels
    BY Zenon DEF Rotate, RefreshLabels
<1>2. Holds(tok[r])
    BY <1>1, Held, Zenon
<1>3. RefreshesTypeOK'
    <2>1. CASE ParentAlive(tok[r])
        <3>1. Sealed(newAT[r], t) \in (AccessTokens \cup {NoAccess}) \X (Tokens \cup {NoToken})
            BY Zenon DEF Sealed, NoRetry, LocalTypeOK
        <3>2. SaveRefresh(t, tok[r], chainOf[tok[r]], tok[r] \in joined, Sealed(newAT[r], t))
            BY <2>1, Zenon DEF Rotate, Persist
        <3>3. UNCHANGED <<consumedAt, revoked>>
            BY Zenon DEF Rotate
        <3> QED
            BY <1>2, <3>1, <3>2, <3>3, SavedTyped, Zenon DEF RefreshesTypeOK, Holds
    <2>2. CASE ~ParentAlive(tok[r])
        BY <2>2, Frames, Zenon DEF Rotate, refreshVars
    <2> QED
        BY <2>1, <2>2, Zenon
<1>4. LocalTypeOK'
    <2>1. CASE ParentAlive(tok[r])
        BY <1>2, <2>1, Zenon DEF Rotate, Persist, LocalTypeOK, requestVars, Holds
    <2>2. CASE ~ParentAlive(tok[r])
        BY <1>2, <2>2, Zenon DEF Rotate, Persist, LocalTypeOK, requestVars, Holds
    <2> QED
        BY <2>1, <2>2, Zenon
<1>5. HistoryTypeOK'
    <2>1. CASE ParentAlive(tok[r])
        BY <1>2, <2>1, Zenon DEF Rotate, Persist, HistoryTypeOK, LocalTypeOK, historyVars, Holds
    <2>2. CASE ~ParentAlive(tok[r])
        BY <1>2, <2>2, Zenon DEF Rotate, Persist, HistoryTypeOK, LocalTypeOK, historyVars, Holds
    <2> QED
        BY <2>1, <2>2, Zenon
<1>6. ControlTypeOK' /\ Presented'
    <2>1. CASE ParentAlive(tok[r])
        BY <1>2, <2>1 DEF Rotate, ControlTypeOK, Presented, Goto, Labels, RefreshLabels, CodeLabels,
           LocalTypeOK, CodesTypeOK, HistoryTypeOK, requestVars, codeVars, Holds
    <2>2. CASE ~ParentAlive(tok[r])
        BY <1>2, <2>2 DEF Rotate, ControlTypeOK, Presented, Goto, Labels, RefreshLabels, CodeLabels,
           LocalTypeOK, CodesTypeOK, HistoryTypeOK, requestVars, codeVars, Holds
    <2> QED
        BY <2>1, <2>2, Zenon
<1> QED
    BY <1>3, <1>4, <1>5, <1>6, Frames, Zenon DEF Rotate, storeVars

\* RotateNothing keeps every variable in its type and what the request holds.
LEMMA RotateNothingTyped ==
    ASSUME Typed, NEW r \in Requests, RotateNothing(r), UNCHANGED codeVars
    PROVE  Typed'
<1> USE DEF Typed, TypeOK, StoresTypeOK, RequestsTypeOK
<1>1. ControlTypeOK' /\ Presented'
    BY Zenon DEF RotateNothing, ControlTypeOK, Presented, Goto, Labels, RefreshLabels, CodeLabels,
       LocalTypeOK, CodesTypeOK, HistoryTypeOK, requestVars, codeVars
<1> QED
    BY <1>1, Frames, Zenon DEF RotateNothing, storeVars

\* TxRotate keeps every variable in its type and what the request holds.
LEMMA TxRotateTyped ==
    ASSUME Typed, NEW r \in Requests, NEW a \in AccessTokens, NEW t \in Tokens, TxRotate(r, a, t),
       UNCHANGED codeVars
    PROVE  Typed'
<1> USE DEF Typed, TypeOK, StoresTypeOK, RequestsTypeOK
<1>1. pc[r] \in RefreshLabels
    BY Zenon DEF TxRotate, TxBegin, RefreshLabels
<1>2. Holds(tok[r])
    BY <1>1, Held, Zenon
<1>3. RefreshesTypeOK'
    <2>1. Sealed(a, t) \in (AccessTokens \cup {NoAccess}) \X (Tokens \cup {NoToken})
        BY Zenon DEF Sealed, NoRetry
    <2>2. SaveRefresh(t, tok[r], chainOf[tok[r]], tok[r] \in joined, Sealed(a, t))
        BY Zenon DEF TxRotate, Persist
    <2>3. Consume(tok[r]) /\ UNCHANGED revoked
        BY Zenon DEF TxRotate
    <2> QED
        BY <1>2, <2>1, <2>2, <2>3, SavedTyped, Zenon DEF RefreshesTypeOK, Consume, Holds
<1>4. AccessTypeOK'
    BY <1>2, Zenon DEF TxRotate, TxOther, PriorRevoked, OfChain, Mint, MintAccess, AccessTypeOK,
       RefreshesTypeOK, accessVars, storeVars, Holds
<1>5. TeardownTypeOK'
    BY <1>2, Zenon DEF TxRotate, TxOther, TeardownTypeOK, teardownVars, Times
<1>6. LocalTypeOK'
    BY <1>2, Zenon DEF TxRotate, TxOther, RedeemedAt, Persist, Mint, LocalTypeOK, requestVars, Holds
<1>7. HistoryTypeOK'
    BY <1>2, Zenon DEF TxRotate, TxOther, RedeemedAt, Persist, Mint, HistoryTypeOK, historyVars, Holds,
       LocalTypeOK
<1>8. ControlTypeOK' /\ Presented'
    BY <1>2, Zenon DEF TxRotate, TxBegin, TxOther, Mint, ControlTypeOK, Presented, Goto, Labels,
       RefreshLabels, CodeLabels, LocalTypeOK, CodesTypeOK, HistoryTypeOK, requestVars, codeVars,
       Holds
<1> QED
    BY <1>3, <1>4, <1>5, <1>6, <1>7, <1>8, Frames, Zenon DEF TxRotate, storeVars, TxOther

\* TxRotateNothing keeps every variable in its type and what the request holds.
LEMMA TxRotateNothingTyped ==
    ASSUME Typed, NEW r \in Requests, NEW a \in AccessTokens, TxRotateNothing(r, a), UNCHANGED
       codeVars
    PROVE  Typed'
<1> USE DEF Typed, TypeOK, StoresTypeOK, RequestsTypeOK
<1>1. pc[r] \in RefreshLabels
    BY Zenon DEF TxRotateNothing, TxBegin, RefreshLabels
<1>2. Holds(tok[r])
    BY <1>1, Held, Zenon
<1>3. RefreshesTypeOK'
    BY <1>2, Zenon DEF TxRotateNothing, TxOther, Consume, RefreshesTypeOK, refreshVars, NoRetry, storeVars,
       Holds
<1>4. AccessTypeOK'
    BY <1>2, Zenon DEF TxRotateNothing, TxOther, PriorRevoked, OfChain, Mint, MintAccess, AccessTypeOK,
       accessVars, storeVars, Holds
<1>5. TeardownTypeOK'
    BY <1>2, Zenon DEF TxRotateNothing, TxOther, TeardownTypeOK, teardownVars, Times
<1>6. LocalTypeOK'
    BY <1>2, Zenon DEF TxRotateNothing, TxOther, RedeemedAt, Mint, LocalTypeOK, requestVars, Holds
<1>7. HistoryTypeOK'
    BY <1>2, Zenon DEF TxRotateNothing, TxOther, RedeemedAt, Mint, HistoryTypeOK, historyVars, Holds,
       LocalTypeOK
<1>8. ControlTypeOK' /\ Presented'
    BY <1>2, Zenon DEF TxRotateNothing, TxBegin, TxOther, Mint, ControlTypeOK, Presented, Goto, Labels,
       RefreshLabels, CodeLabels, LocalTypeOK, CodesTypeOK, HistoryTypeOK, requestVars, codeVars,
       Holds
<1> QED
    BY <1>3, <1>4, <1>5, <1>6, <1>7, <1>8, Frames, Zenon DEF TxRotateNothing, storeVars, TxOther

\* TxRefuse keeps every variable in its type and what the request holds.
LEMMA TxRefuseTyped ==
    ASSUME Typed, NEW r \in Requests, TxRefuse(r), UNCHANGED codeVars
    PROVE  Typed'
<1> USE DEF Typed, TypeOK, StoresTypeOK, RequestsTypeOK
<1>1. pc[r] \in RefreshLabels
    BY Zenon DEF TxRefuse, TxBegin, RefreshLabels
<1>2. Holds(tok[r])
    BY <1>1, Held, Zenon
<1>3. RefreshesTypeOK'
    BY <1>2, Zenon DEF TxRefuse, TxOther, Consume, RefreshesTypeOK, refreshVars, NoRetry, storeVars, Holds
<1>4. AccessTypeOK'
    BY <1>2, Zenon DEF TxRefuse, TxOther, PriorRevoked, OfChain, AccessTypeOK, accessVars, storeVars, Holds
<1>5. TeardownTypeOK'
    BY <1>2, Zenon DEF TxRefuse, TxOther, BeginTeardown, Scopes, TeardownTypeOK, teardownVars, Times
<1>6. LocalTypeOK'
    BY <1>2, Zenon DEF TxRefuse, TxOther, RedeemedAt, LocalTypeOK, requestVars, Holds
<1>7. \E l \in {"done", "jwtRung"} : Goto(r, l)
    BY Zenon DEF TxRefuse, BeginTeardown
<1>8. UNCHANGED <<now, tok, inGrace, newAT, code>>
    BY Zenon DEF TxRefuse, TxOther, requestVars, codeVars
<1>9. ControlTypeOK' /\ Presented'
    BY <1>2, <1>7, <1>8, Moved, Zenon DEF Holds, Labels, RefreshLabels, CodeLabels
<1> QED
    BY <1>3, <1>4, <1>5, <1>6, <1>9, Frames, Zenon DEF TxRefuse, storeVars, TxOther

\* TxGraceReplay keeps every variable in its type and what the request holds.
LEMMA TxGraceReplayTyped ==
    ASSUME Typed, NEW r \in Requests, TxGraceReplay(r), UNCHANGED codeVars
    PROVE  Typed'
<1> USE DEF Typed, TypeOK, StoresTypeOK, RequestsTypeOK
<1>1. pc[r] \in RefreshLabels
    BY Zenon DEF TxGraceReplay, TxBegin, RefreshLabels
<1>2. Holds(tok[r])
    BY <1>1, Held, Zenon
<1>3. TeardownTypeOK'
    BY <1>2, Zenon DEF TxGraceReplay, TxOther, TeardownTypeOK, teardownVars, Times
<1>4. LocalTypeOK'
    BY <1>2, Zenon DEF TxGraceReplay, TxOther, RedeemedAt, LocalTypeOK, requestVars, Holds
<1>5. HistoryTypeOK'
    BY <1>2, Zenon DEF TxGraceReplay, TxOther, RedeemedAt, Deliver, HistoryTypeOK, historyVars, Holds,
       LocalTypeOK
<1>6. ControlTypeOK' /\ Presented'
    BY <1>2, Zenon DEF TxGraceReplay, TxBegin, TxOther, ControlTypeOK, Presented, Goto, Labels,
       RefreshLabels, CodeLabels, LocalTypeOK, CodesTypeOK, HistoryTypeOK, requestVars, codeVars,
       Holds
<1> QED
    BY <1>3, <1>4, <1>5, <1>6, Frames, Zenon DEF TxGraceReplay, storeVars, TxOther

\* TxGraceRemint keeps every variable in its type and what the request holds.
LEMMA TxGraceRemintTyped ==
    ASSUME Typed, NEW r \in Requests, NEW a \in AccessTokens, TxGraceRemint(r, a), UNCHANGED
       codeVars
    PROVE  Typed'
<1> USE DEF Typed, TypeOK, StoresTypeOK, RequestsTypeOK
<1>1. pc[r] \in RefreshLabels
    BY Zenon DEF TxGraceRemint, TxBegin, RefreshLabels
<1>2. Holds(tok[r])
    BY <1>1, Held, Zenon
<1>3. AccessTypeOK'
    BY <1>2, Zenon DEF TxGraceRemint, TxOther, PriorRevoked, OfChain, Mint, MintAccess, AccessTypeOK,
       accessVars, storeVars, Holds
<1>4. TeardownTypeOK'
    BY <1>2, Zenon DEF TxGraceRemint, TxOther, TeardownTypeOK, teardownVars, Times
<1>5. LocalTypeOK'
    BY <1>2, Zenon DEF TxGraceRemint, TxOther, RedeemedAt, Mint, LocalTypeOK, requestVars, Holds
<1>6. HistoryTypeOK'
    BY <1>2, Zenon DEF TxGraceRemint, TxOther, RedeemedAt, Mint, HistoryTypeOK, historyVars, Holds,
       LocalTypeOK
<1>7. ControlTypeOK' /\ Presented'
    BY <1>2, Zenon DEF TxGraceRemint, TxBegin, TxOther, Mint, ControlTypeOK, Presented, Goto, Labels,
       RefreshLabels, CodeLabels, LocalTypeOK, CodesTypeOK, HistoryTypeOK, requestVars, codeVars,
       Holds
<1> QED
    BY <1>3, <1>4, <1>5, <1>6, <1>7, Frames, Zenon DEF TxGraceRemint, storeVars, TxOther

\* TxReject keeps every variable in its type and what the request holds.
LEMMA TxRejectTyped ==
    ASSUME Typed, NEW r \in Requests, TxReject(r), UNCHANGED codeVars
    PROVE  Typed'
<1> USE DEF Typed, TypeOK, StoresTypeOK, RequestsTypeOK
<1>1. pc[r] \in RefreshLabels
    BY Zenon DEF TxReject, TxBegin, RefreshLabels
<1>2. Holds(tok[r])
    BY <1>1, Held, Zenon
<1>3. TeardownTypeOK'
    BY <1>2, Zenon DEF TxReject, TxOther, BeginTeardown, Scopes, TeardownTypeOK, teardownVars, Times
<1>4. LocalTypeOK'
    BY <1>2, Zenon DEF TxReject, TxOther, RedeemedAt, LocalTypeOK, requestVars, Holds
<1>5. \E l \in {"done", "retire", "jwtRung"} : Goto(r, l)
    BY Zenon DEF TxReject, BeginTeardown
<1>6. UNCHANGED <<now, tok, inGrace, newAT, code>>
    BY Zenon DEF TxReject, TxOther, requestVars, codeVars
<1>7. ControlTypeOK' /\ Presented'
    BY <1>2, <1>5, <1>6, Moved, Zenon DEF Holds, Labels, RefreshLabels, CodeLabels
<1> QED
    BY <1>3, <1>4, <1>7, Frames, Zenon DEF TxReject, storeVars, TxOther

\* RetireReplayed keeps every variable in its type and what the request holds.
LEMMA RetireReplayedTyped ==
    ASSUME Typed, NEW r \in Requests, RetireReplayed(r), UNCHANGED codeVars
    PROVE  Typed'
<1>1. RefreshesTypeOK'
    BY RetireTyped, Zenon DEF RetireReplayed
<1>2. \/ BeginTeardown(r, "chain")
      \/ BeginTeardown(r, "compromised")
      \/ Goto(r, "done") /\ UNCHANGED <<scope, runNow>>
    BY Zenon DEF RetireReplayed
<1>3. UNCHANGED <<now, tok, inGrace, newAT, code>>
    BY Zenon DEF RetireReplayed, requestVars, codeVars
<1>4. UNCHANGED <<failed, faults, grantSaved, tornAt, wholeAt>>
    BY Zenon DEF RetireReplayed
<1>5. TeardownTypeOK'
    BY <1>2, <1>4, BeginTyped, Zenon DEF Typed, TypeOK, RequestsTypeOK, TeardownTypeOK, Scopes
<1>6. \E l \in {"done", "jwtRung", "opaqueRung"} : Goto(r, l)
    BY <1>2, Zenon DEF BeginTeardown
<1>7. ControlTypeOK' /\ Presented'
    BY <1>3, <1>6, Moved, Zenon DEF Labels, RefreshLabels, CodeLabels
<1> QED
    BY <1>1, <1>3, <1>5, <1>7, Frames, Zenon
    DEF RetireReplayed, Typed, TypeOK, StoresTypeOK, RequestsTypeOK

\* The steps of the refresh_token grant keep the types.
LEMMA RefreshTyped ==
    ASSUME Typed, NEW r \in Requests, RefreshStep(r), UNCHANGED codeVars
    PROVE  Typed'
    BY RefreshStartTyped, ExchangeTyped, ExchangeKeptTyped, GraceTyped, SubjectTyped, LoadTyped,
       PriorTyped, CheckClosedTyped, MintStepTyped, RotateTyped, RotateNothingTyped, TxRotateTyped,
       TxRotateNothingTyped, TxRefuseTyped, TxGraceReplayTyped, TxGraceRemintTyped, TxRejectTyped,
       RetireReplayedTyped, Zenon DEF RefreshStep

\* CodeStart keeps every variable in its type and what the request holds.
LEMMA CodeStartTyped ==
    ASSUME Typed, NEW r \in Requests, NEW c \in Codes, NEW f \in {"ok", "mismatch"}, CodeStart(r, c,
       f)
    PROVE  Typed'
<1> USE DEF Typed, TypeOK, StoresTypeOK, RequestsTypeOK
<1>1. LocalTypeOK'
    BY Zenon DEF CodeStart, Fits, LocalTypeOK, requestVars
<1>2. CodesTypeOK'
    BY Zenon DEF CodeStart, CodesTypeOK, codeVars
<1>3. ControlTypeOK' /\ Presented'
    BY Zenon DEF CodeStart, ControlTypeOK, Presented, Goto, Labels, RefreshLabels, CodeLabels,
       LocalTypeOK, CodesTypeOK, HistoryTypeOK, requestVars, codeVars
<1> QED
    BY <1>1, <1>2, <1>3, Frames, Zenon DEF CodeStart, storeVars

\* CodeConsume keeps every variable in its type and what the request holds.
LEMMA CodeConsumeTyped ==
    ASSUME Typed, NEW r \in Requests, CodeConsume(r)
    PROVE  Typed'
<1> USE DEF Typed, TypeOK, StoresTypeOK, RequestsTypeOK
<1>1. code[r] \in Codes
    BY Zenon DEF CodeConsume, Presented, CodeLabels
<1>2. TeardownTypeOK'
    BY <1>1, Zenon DEF CodeConsume, BeginTeardown, Scopes, TeardownTypeOK, teardownVars, Times
<1>3. LocalTypeOK'
    BY <1>1 DEF CodeConsume, LocalTypeOK, CodesTypeOK, requestVars
<1>4. CodesTypeOK'
    BY <1>1, Zenon DEF CodeConsume, CodesTypeOK, codeVars
<1>5. ControlTypeOK' /\ Presented'
    BY <1>1 DEF CodeConsume, BeginTeardown, ControlTypeOK, Presented, Goto, Labels, RefreshLabels,
       CodeLabels, LocalTypeOK, CodesTypeOK, HistoryTypeOK, requestVars, codeVars
<1> QED
    BY <1>2, <1>3, <1>4, <1>5, Frames, Zenon DEF CodeConsume, storeVars

\* CodeSubject keeps every variable in its type and what the request holds.
LEMMA CodeSubjectTyped ==
    ASSUME Typed, NEW r \in Requests, CodeSubject(r)
    PROVE  Typed'
<1> USE DEF Typed, TypeOK, StoresTypeOK, RequestsTypeOK
<1>1. code[r] \in Codes
    BY Zenon DEF CodeSubject, Presented, CodeLabels
<1>2. TeardownTypeOK'
    BY <1>1, Zenon DEF CodeSubject, BeginTeardown, Scopes, TeardownTypeOK, teardownVars, Times
<1>3. ControlTypeOK' /\ Presented'
    BY <1>1 DEF CodeSubject, BeginTeardown, ControlTypeOK, Presented, Goto, Labels, RefreshLabels,
       CodeLabels, LocalTypeOK, CodesTypeOK, HistoryTypeOK, requestVars, codeVars
<1> QED
    BY <1>2, <1>3, Frames, Zenon DEF CodeSubject, storeVars

\* CodeMint keeps every variable in its type and what the request holds.
LEMMA CodeMintTyped ==
    ASSUME Typed, NEW r \in Requests, NEW a \in AccessTokens, NEW k \in Chains, CodeMint(r, a, k)
    PROVE  Typed'
<1> USE DEF Typed, TypeOK, StoresTypeOK, RequestsTypeOK
<1>1. code[r] \in Codes
    BY Zenon DEF CodeMint, Presented, CodeLabels
<1>2. AccessTypeOK'
    BY <1>1, Zenon DEF CodeMint, Mint, MintAccess, AccessTypeOK, accessVars, storeVars
<1>3. LocalTypeOK'
    BY <1>1, Zenon DEF CodeMint, Mint, LocalTypeOK, requestVars
<1>4. HistoryTypeOK'
    BY <1>1, Zenon DEF CodeMint, Mint, HistoryTypeOK, LocalTypeOK, historyVars
<1>5. CodesTypeOK'
    BY <1>1 DEF CodeMint, CodesTypeOK
<1>6. ControlTypeOK' /\ Presented'
    BY <1>1, Zenon DEF CodeMint, Mint, ControlTypeOK, Presented, Goto, Labels, RefreshLabels, CodeLabels,
       LocalTypeOK, CodesTypeOK, HistoryTypeOK, requestVars, codeVars
<1> QED
    BY <1>2, <1>3, <1>4, <1>5, <1>6, Frames, Zenon DEF CodeMint, storeVars

\* CodeRefresh keeps every variable in its type and what the request holds.
LEMMA CodeRefreshTyped ==
    ASSUME Typed, NEW r \in Requests, NEW t \in Tokens, CodeRefresh(r, t)
    PROVE  Typed'
<1> USE DEF Typed, TypeOK, StoresTypeOK, RequestsTypeOK
<1>1. newAT[r] \in AccessTokens
    BY Zenon DEF CodeRefresh, Presented
<1>2. RefreshesTypeOK'
    BY <1>1, Zenon DEF CodeRefresh, Persist, SaveRefresh, RefreshesTypeOK, AccessTypeOK, refreshVars,
       NoRetry, storeVars
<1>3. LocalTypeOK'
    BY <1>1, Zenon DEF CodeRefresh, Persist, LocalTypeOK, requestVars
<1>4. HistoryTypeOK'
    BY <1>1, Zenon DEF CodeRefresh, Persist, HistoryTypeOK, LocalTypeOK, historyVars
<1>5. ControlTypeOK' /\ Presented'
    BY <1>1, Zenon DEF CodeRefresh, ControlTypeOK, Presented, Goto, Labels, RefreshLabels, CodeLabels,
       LocalTypeOK, CodesTypeOK, HistoryTypeOK, requestVars, codeVars
<1> QED
    BY <1>2, <1>3, <1>4, <1>5, Frames, Zenon DEF CodeRefresh, storeVars

\* CodeRefreshWithheld keeps every variable in its type and what the request holds.
LEMMA CodeRefreshWithheldTyped ==
    ASSUME Typed, NEW r \in Requests, CodeRefreshWithheld(r)
    PROVE  Typed'
<1> USE DEF Typed, TypeOK, StoresTypeOK, RequestsTypeOK
<1>1. ControlTypeOK' /\ Presented'
    BY Zenon DEF CodeRefreshWithheld, ControlTypeOK, Presented, Goto, Labels, RefreshLabels, CodeLabels,
       LocalTypeOK, CodesTypeOK, HistoryTypeOK, requestVars, codeVars
<1> QED
    BY <1>1, Frames, Zenon DEF CodeRefreshWithheld, storeVars

\* CodeRefreshFails keeps every variable in its type and what the request holds.
LEMMA CodeRefreshFailsTyped ==
    ASSUME Typed, NEW r \in Requests, CodeRefreshFails(r)
    PROVE  Typed'
<1> USE StoreAssumption, TeardownAssumption DEF Typed, TypeOK, StoresTypeOK, RequestsTypeOK
<1>1. TeardownTypeOK'
    BY DEF CodeRefreshFails, TeardownTypeOK, teardownVars, Times
<1>2. ControlTypeOK' /\ Presented'
    BY Zenon DEF CodeRefreshFails, ControlTypeOK, Presented, Goto, Labels, RefreshLabels, CodeLabels,
       LocalTypeOK, CodesTypeOK, HistoryTypeOK, requestVars, codeVars
<1> QED
    BY <1>1, <1>2, Frames, Zenon DEF CodeRefreshFails, storeVars

\* The steps of the authorization_code grant keep the types.
LEMMA CodeTyped ==
    ASSUME Typed, NEW r \in Requests, CodeStep(r)
    PROVE  Typed'
    BY CodeStartTyped, CodeConsumeTyped, CodeSubjectTyped, CodeMintTyped, CodeRefreshTyped,
       CodeRefreshWithheldTyped, CodeRefreshFailsTyped, Zenon DEF CodeStep

\* RevokeStart keeps every variable in its type and what the request holds.
LEMMA RevokeStartTyped ==
    ASSUME Typed, NEW r \in Requests, NEW t \in sentRT, NEW f \in {"ok", "mismatch"}, RevokeStart(r,
       t, f), UNCHANGED codeVars
    PROVE  Typed'
<1> USE DEF Typed, TypeOK, StoresTypeOK, RequestsTypeOK
<1>1. LocalTypeOK'
    BY Zenon DEF RevokeStart, Fits, LocalTypeOK, requestVars
<1>2. ControlTypeOK' /\ Presented'
    BY Zenon DEF RevokeStart, ControlTypeOK, Presented, Goto, Labels, RefreshLabels, CodeLabels,
       LocalTypeOK, CodesTypeOK, HistoryTypeOK, requestVars, codeVars
<1> QED
    BY <1>1, <1>2, Frames, Zenon DEF RevokeStart, storeVars

\* RevokeRetire keeps every variable in its type and what the request holds.
LEMMA RevokeRetireTyped ==
    ASSUME Typed, NEW r \in Requests, RevokeRetire(r), UNCHANGED codeVars
    PROVE  Typed'
<1>1. RefreshesTypeOK'
    BY RetireTyped, Zenon DEF RevokeRetire
<1>2. \/ BeginTeardown(r, "chain")
      \/ BeginTeardown(r, "access")
      \/ Goto(r, "done") /\ UNCHANGED <<scope, runNow>>
    BY Zenon DEF RevokeRetire
<1>3. UNCHANGED <<now, tok, inGrace, newAT, code>>
    BY Zenon DEF RevokeRetire, requestVars, codeVars
<1>4. UNCHANGED <<failed, faults, grantSaved, tornAt, wholeAt>>
    BY Zenon DEF RevokeRetire
<1>5. TeardownTypeOK'
    BY <1>2, <1>4, BeginTyped, Zenon DEF Typed, TypeOK, RequestsTypeOK, TeardownTypeOK, Scopes
<1>6. \E l \in {"done", "jwtRung", "opaqueRung"} : Goto(r, l)
    BY <1>2, Zenon DEF BeginTeardown
<1>7. ControlTypeOK' /\ Presented'
    BY <1>3, <1>6, Moved, Zenon DEF Labels, RefreshLabels, CodeLabels
<1> QED
    BY <1>1, <1>3, <1>5, <1>7, Frames, Zenon DEF RevokeRetire, Typed, TypeOK, StoresTypeOK, RequestsTypeOK

\* RevokeOneAccess keeps every variable in its type and what the request holds.
LEMMA RevokeOneAccessTyped ==
    ASSUME Typed, NEW r \in Requests, NEW a \in sentAT, RevokeOneAccess(r, a), UNCHANGED codeVars
    PROVE  Typed'
<1> USE StoreAssumption, TeardownAssumption DEF Typed, TypeOK, StoresTypeOK, RequestsTypeOK
<1>1. AccessTypeOK'
    BY Zenon DEF RevokeOneAccess, RevokeAccess, AccessTypeOK, HistoryTypeOK, accessVars, storeVars
<1>2. ControlTypeOK' /\ Presented'
    BY Zenon DEF RevokeOneAccess, ControlTypeOK, Presented, Goto, Labels, RefreshLabels, CodeLabels,
       LocalTypeOK, CodesTypeOK, HistoryTypeOK, requestVars, codeVars
<1> QED
    BY <1>1, <1>2, Frames, Zenon DEF RevokeOneAccess, storeVars

\* RevokeGrant keeps every variable in its type and what the request holds.
LEMMA RevokeGrantTyped ==
    ASSUME Typed, NEW r \in Requests, RevokeGrant(r), UNCHANGED codeVars
    PROVE  Typed'
<1> USE DEF Typed, TypeOK, StoresTypeOK, RequestsTypeOK
<1>1. TeardownTypeOK'
    BY Zenon DEF RevokeGrant, BeginTeardown, Scopes, TeardownTypeOK, teardownVars, Times
<1>2. ControlTypeOK' /\ Presented'
    BY Zenon DEF RevokeGrant, BeginTeardown, ControlTypeOK, Presented, Goto, Labels, RefreshLabels,
       CodeLabels, LocalTypeOK, CodesTypeOK, HistoryTypeOK, requestVars, codeVars
<1> QED
    BY <1>1, <1>2, Frames, Zenon DEF RevokeGrant, storeVars

\* The steps of the revocation endpoints keep the types.
LEMMA RevokeTyped ==
    ASSUME Typed, NEW r \in Requests, RevokeStep(r), UNCHANGED codeVars
    PROVE  Typed'
    BY RevokeStartTyped, RevokeRetireTyped, RevokeOneAccessTyped, RevokeGrantTyped, Zenon DEF RevokeStep

\* What a rung may write.
RungKeepsTypes == RefreshesTypeOK' /\ AccessTypeOK' /\ TombTypeOK' /\ TeardownTypeOK'

\* A rung that fails is recorded and writes nothing to the stores.
LEMMA FailsTyped ==
    ASSUME Typed, NEW r \in Requests, RungFails(r)
    PROVE  RungKeepsTypes
<1>1. TeardownTypeOK'
    BY TeardownAssumption DEF RungFails, TeardownTypeOK, Typed, TypeOK, RequestsTypeOK
<1> QED
    BY <1>1, Frames, Zenon
    DEF RungFails, storeVars, RungKeepsTypes, Typed, TypeOK, StoresTypeOK, RequestsTypeOK

\* The tombstone's cutoffs stay within the clock.
LEMMA CloseTyped ==
    ASSUME Typed, NEW r \in Requests, NEW accessOnly \in BOOLEAN, CloseGrant(runNow[r], accessOnly)
    PROVE  TombTypeOK'
<1>1. runNow[r] \in Times /\ closedAt \in Times /\ accessClosedAt \in Times
    BY Zenon DEF Typed, TypeOK, StoresTypeOK, RequestsTypeOK, TombTypeOK, TeardownTypeOK
<1>2. \A x, y \in Times : Later(x, y) \in Times
    BY Zenon DEF Later
<1> QED
    BY <1>1, <1>2, Zenon DEF CloseGrant, TombTypeOK

\* A rung goes on to the next rung of its scope, or settles.
LEMMA RungTyped ==
    ASSUME Typed, NEW r \in Requests, RungKeepsTypes,
           NEW label \in {"jwtRung", "opaqueRung", "closeRung", "refreshRung"},
           Goto(r, NextRung(scope[r], label)),
           UNCHANGED <<now, tok>>, UNCHANGED <<requestVars, subjectLive, historyVars, codeVars>>
    PROVE  Typed'
<1>1. NextRung(scope[r], label) \in {"opaqueRung", "closeRung", "refreshRung", "settle"}
    BY Zenon DEF NextRung
<1>2. ControlTypeOK' /\ Presented'
    BY <1>1, Moved, Zenon DEF Labels, RefreshLabels, CodeLabels, requestVars, codeVars
<1> QED
    BY <1>2, Frames, Zenon DEF RungKeepsTypes, Typed, TypeOK, StoresTypeOK, RequestsTypeOK

\* The JWT rung keeps every variable in its type and what the request holds.
LEMMA JwtRungTyped ==
    ASSUME Typed, NEW r \in Requests, Rung(r, "jwtRung", JwtWrites(r)),
           UNCHANGED <<requestVars, subjectLive, historyVars, codeVars>>
    PROVE  Typed'
<1>1. ASSUME JwtWrites(r) PROVE RungKeepsTypes
    <2>1. RefreshesTypeOK' /\ TeardownTypeOK'
        BY <1>1, Frames, Zenon DEF JwtWrites, Typed, TypeOK, StoresTypeOK, RequestsTypeOK
    <2>2. CASE Strategy = "grant_tombstone"
        <3>1. \E accessOnly \in BOOLEAN : CloseGrant(runNow[r], accessOnly)
            BY <1>1, <2>2, Zenon DEF JwtWrites
        <3>2. UNCHANGED accessVars
            BY <1>1, <2>2, Zenon DEF JwtWrites
        <3> QED
            BY <2>1, <3>1, <3>2, Frames, CloseTyped, Zenon DEF Typed, TypeOK, StoresTypeOK, RungKeepsTypes
    <2>3. CASE Strategy = "jti_registry"
        <3>1. RevokeAccess(IF Opaque THEN {} ELSE accessTokens) /\ UNCHANGED tombVars
            BY <1>1, <2>3, Zenon DEF JwtWrites
        <3>2. AccessTypeOK'
            BY <3>1, StoreAssumption, Zenon DEF RevokeAccess, AccessTypeOK, Typed, TypeOK, StoresTypeOK
        <3> QED
            BY <2>1, <3>1, <3>2, Frames, Zenon DEF Typed, TypeOK, StoresTypeOK, RungKeepsTypes
    <2>4. CASE Strategy = "none"
        <3>1. UNCHANGED <<accessVars, tombVars>>
            BY <1>1, <2>4, Zenon DEF JwtWrites
        <3> QED
            BY <2>1, <3>1, Frames, Zenon DEF Typed, TypeOK, StoresTypeOK, RungKeepsTypes
    <2> QED
        BY <2>2, <2>3, <2>4, StoreAssumption, Zenon DEF Strategies
<1>2. RungKeepsTypes
    BY <1>1, FailsTyped, Zenon DEF Rung
<1> QED
    BY <1>2, RungTyped, Zenon DEF Rung

\* The opaque rung keeps every variable in its type and what the request holds.
LEMMA OpaqueRungTyped ==
    ASSUME Typed, NEW r \in Requests, Rung(r, "opaqueRung", OpaqueWrites(r)),
           UNCHANGED <<requestVars, subjectLive, historyVars, codeVars>>
    PROVE  Typed'
<1>1. ASSUME OpaqueWrites(r) PROVE RungKeepsTypes
    <2>1. AccessTypeOK'
        BY <1>1, StoreAssumption, Zenon
        DEF OpaqueWrites, RevokeAccess, OfChain, AccessTypeOK, Typed, TypeOK, StoresTypeOK
    <2> QED
        BY <1>1, <2>1, Frames, Zenon
        DEF OpaqueWrites, Typed, TypeOK, StoresTypeOK, RequestsTypeOK, RungKeepsTypes
<1>2. RungKeepsTypes
    BY <1>1, FailsTyped, Zenon DEF Rung
<1> QED
    BY <1>2, RungTyped, Zenon DEF Rung

\* The close rung keeps every variable in its type and what the request holds.
LEMMA CloseRungTyped ==
    ASSUME Typed, NEW r \in Requests, Rung(r, "closeRung", CloseWrites(r)),
           UNCHANGED <<requestVars, subjectLive, historyVars, codeVars>>
    PROVE  Typed'
<1>1. ASSUME CloseWrites(r) PROVE RungKeepsTypes
    <2>1. TombTypeOK'
        BY <1>1, CloseTyped, Zenon DEF CloseWrites
    <2> QED
        BY <1>1, <2>1, Frames, Zenon
        DEF CloseWrites, Typed, TypeOK, StoresTypeOK, RequestsTypeOK, RungKeepsTypes
<1>2. RungKeepsTypes
    BY <1>1, FailsTyped, Zenon DEF Rung
<1> QED
    BY <1>2, RungTyped, Zenon DEF Rung

\* The refresh rung keeps every variable in its type and what the request holds.
LEMMA RefreshRungTyped ==
    ASSUME Typed, NEW r \in Requests, Rung(r, "refreshRung", RefreshWrites(r)),
           UNCHANGED <<requestVars, subjectLive, historyVars, codeVars>>
    PROVE  Typed'
<1>1. ASSUME RefreshWrites(r) PROVE RungKeepsTypes
    <2>1. RefreshesTypeOK'
        BY <1>1, Zenon DEF RefreshWrites, RevokeRefreshesByGrant, MarkRevoked, RefreshesTypeOK,
           Typed, TypeOK, StoresTypeOK
    <2> QED
        BY <1>1, <2>1, Frames, Zenon
        DEF RefreshWrites, Typed, TypeOK, StoresTypeOK, RequestsTypeOK, RungKeepsTypes
<1>2. RungKeepsTypes
    BY <1>1, FailsTyped, Zenon DEF Rung
<1> QED
    BY <1>2, RungTyped, Zenon DEF Rung

\* Settle keeps every variable in its type and what the request holds.
LEMMA SettleTyped ==
    ASSUME Typed, NEW r \in Requests, Settle(r), UNCHANGED <<requestVars, subjectLive, historyVars,
       codeVars>>
    PROVE  Typed'
<1> USE DEF Typed, TypeOK, StoresTypeOK, RequestsTypeOK
<1>1. TeardownTypeOK'
    BY Zenon DEF Settle, Later, TeardownTypeOK, teardownVars, Times
<1>2. ControlTypeOK' /\ Presented'
    BY Zenon DEF Settle, ControlTypeOK, Presented, Goto, Labels, RefreshLabels, CodeLabels, LocalTypeOK,
       CodesTypeOK, HistoryTypeOK, requestVars, codeVars
<1> QED
    BY <1>1, <1>2, Frames, Zenon DEF Settle, storeVars

\* DeleteGrant keeps every variable in its type and what the request holds.
LEMMA DeleteGrantTyped ==
    ASSUME Typed, NEW r \in Requests, DeleteGrant(r),
           UNCHANGED <<requestVars, subjectLive, historyVars, codeVars>>
    PROVE  Typed'
<1>1. grantSaved' \in BOOLEAN
    BY Zenon DEF DeleteGrant
<1>2. TeardownTypeOK'
    BY <1>1, Zenon DEF DeleteGrant, TeardownTypeOK, Typed, TypeOK, RequestsTypeOK
<1>3. ControlTypeOK' /\ Presented'
    BY Moved, Zenon DEF DeleteGrant, Labels, RefreshLabels, CodeLabels, requestVars, codeVars
<1> QED
    BY <1>2, <1>3, Frames, Zenon
    DEF DeleteGrant, storeVars, Typed, TypeOK, StoresTypeOK, RequestsTypeOK

\* The steps of the teardown keep the types.
LEMMA TeardownTyped ==
    ASSUME Typed, NEW r \in Requests, TeardownStep(r),
           UNCHANGED <<requestVars, subjectLive, historyVars, codeVars>>
    PROVE  Typed'
    BY JwtRungTyped, OpaqueRungTyped, CloseRungTyped, RefreshRungTyped, SettleTyped,
       DeleteGrantTyped, Zenon DEF TeardownStep

\* Confirm keeps every variable in its type and what the request holds.
LEMMA ConfirmTyped ==
    ASSUME Typed, NEW r \in Requests, Confirm(r), UNCHANGED codeVars
    PROVE  Typed'
<1> USE DEF Typed, TypeOK, StoresTypeOK, RequestsTypeOK
<1>1. CASE IssuanceRevoked(redeemedAt[r])
    <2>1. ControlTypeOK' /\ Presented'
        BY <1>1 DEF Confirm, ControlTypeOK, Presented, Goto, Labels, RefreshLabels, CodeLabels,
           requestVars, codeVars
    <2> QED
        BY <1>1, <2>1, Frames, Zenon DEF Confirm, storeVars
<1>2. CASE ~IssuanceRevoked(redeemedAt[r])
    <2> DEFINE rt == IF r \in inGrace THEN retries[tok[r]][2] ELSE newRT[r]
    <2>1. rt \in Tokens \cup {NoToken}
        BY Zenon DEF Presented, RefreshesTypeOK, LocalTypeOK
    <2>2. newAT[r] \in AccessTokens \cup {NoAccess}
        BY Zenon DEF LocalTypeOK
    <2>3. Deliver(newAT[r], rt) /\ UNCHANGED <<bornOf, bornRT>> /\ Goto(r, "done")
        BY <1>2, Zenon DEF Confirm
    <2> HIDE DEF rt
    <2>4. HistoryTypeOK'
        BY <2>1, <2>2, <2>3, Zenon DEF Deliver, HistoryTypeOK
    <2>5. ControlTypeOK' /\ Presented'
        BY <2>3, Zenon DEF Confirm, ControlTypeOK, Presented, Goto, Labels, RefreshLabels, CodeLabels,
           requestVars, codeVars
    <2> QED
        BY <2>4, <2>5, Frames, Zenon DEF Confirm, storeVars
<1> QED
    BY <1>1, <1>2, Zenon

\* RetireIssuedAT keeps every variable in its type and what the request holds.
LEMMA RetireIssuedATTyped ==
    ASSUME Typed, NEW r \in Requests, RetireIssuedAT(r), UNCHANGED codeVars
    PROVE  Typed'
<1> USE StoreAssumption, TeardownAssumption DEF Typed, TypeOK, StoresTypeOK, RequestsTypeOK
<1>1. AccessTypeOK'
    BY Zenon DEF RetireIssuedAT, RevokeAccess, AccessTypeOK, LocalTypeOK, accessVars, storeVars
<1>2. ControlTypeOK' /\ Presented'
    BY Zenon DEF RetireIssuedAT, ControlTypeOK, Presented, Goto, Labels, RefreshLabels, CodeLabels,
       LocalTypeOK, CodesTypeOK, HistoryTypeOK, requestVars, codeVars
<1> QED
    BY <1>1, <1>2, Frames, Zenon DEF RetireIssuedAT, storeVars

\* RetireIssuedRT keeps every variable in its type and what the request holds.
LEMMA RetireIssuedRTTyped ==
    ASSUME Typed, NEW r \in Requests, RetireIssuedRT(r), UNCHANGED codeVars
    PROVE  Typed'
<1> USE StoreAssumption, TeardownAssumption DEF Typed, TypeOK, StoresTypeOK, RequestsTypeOK
<1>1. RefreshesTypeOK'
    BY Zenon DEF RetireIssuedRT, RevokeChain, MarkRevoked, Subtree, RefreshesTypeOK, refreshVars, NoRetry,
       storeVars
<1>2. ControlTypeOK' /\ Presented'
    BY DEF RetireIssuedRT, ControlTypeOK, Presented, Goto, Labels, RefreshLabels, CodeLabels,
       LocalTypeOK, CodesTypeOK, HistoryTypeOK, requestVars, codeVars
<1> QED
    BY <1>1, <1>2, Frames, Zenon DEF RetireIssuedRT, storeVars

\* Abort keeps every variable in its type and what the request holds.
LEMMA AbortTyped ==
    ASSUME Typed, NEW r \in Requests, Abort(r), UNCHANGED codeVars
    PROVE  Typed'
<1> USE StoreAssumption, TeardownAssumption DEF Typed, TypeOK, StoresTypeOK, RequestsTypeOK
<1>1. TeardownTypeOK'
    BY DEF Abort, TeardownTypeOK, teardownVars, Times
<1>2. ControlTypeOK' /\ Presented'
    BY Zenon DEF Abort, ControlTypeOK, Presented, Goto, Labels, RefreshLabels, CodeLabels, LocalTypeOK,
       CodesTypeOK, HistoryTypeOK, requestVars, codeVars
<1> QED
    BY <1>1, <1>2, Frames, Zenon DEF Abort, storeVars

\* The steps of the exits of an issuing request keep the types.
LEMMA ExitTyped ==
    ASSUME Typed, NEW r \in Requests, Confirm(r) \/ RetireIssuedAT(r) \/ RetireIssuedRT(r) \/ Abort(r),
           UNCHANGED codeVars
    PROVE  Typed'
    BY ConfirmTyped, RetireIssuedATTyped, RetireIssuedRTTyped, AbortTyped, Zenon
\* The initial state is well typed: the roots are tokens and carry chains.
LEMMA InitTyped == Init => Typed
<1> SUFFICES ASSUME Init PROVE Typed
    BY Zenon
<1> USE StoreAssumption, RootsAssumption DEF Init, Times
<1>1. now \in Times /\ RefreshesTypeOK
    BY DEF StoresInit, RefreshesTypeOK, NoRetry
<1>2. AccessTypeOK /\ TombTypeOK
    BY DEF StoresInit, AccessTypeOK, TombTypeOK
<1>3. ControlTypeOK
    BY Zenon DEF RequestsInit, ControlTypeOK, Labels
<1>4. grantSaved \in BOOLEAN /\ subjectLive \in BOOLEAN
    BY Zenon DEF RequestsInit
<1>5. TeardownTypeOK
    BY <1>4, TeardownAssumption DEF RequestsInit, TeardownTypeOK, Scopes
<1>6. LocalTypeOK /\ HistoryTypeOK
    BY DEF RequestsInit, LocalTypeOK, HistoryTypeOK, Fits
<1>7. CodesTypeOK
    BY DEF CodesInit, CodesTypeOK
<1>8. Presented
    BY DEF StoresInit, RequestsInit, Presented, RefreshLabels, CodeLabels
<1> QED
    BY <1>1, <1>2, <1>3, <1>4, <1>5, <1>6, <1>7, <1>8, Zenon
    DEF Typed, TypeOK, StoresTypeOK, RequestsTypeOK

\* The steps no request takes: the clock, the user store, the authorization endpoint.
LEMMA WorldTyped ==
    ASSUME Typed, Clock \/ Deprovision \/ (\E c \in Codes : IssueCode(c)) \/ UNCHANGED vars
    PROVE  Typed'
<1> USE DEF Typed, TypeOK, StoresTypeOK, RequestsTypeOK
<1>1. CASE Clock
    <2>1. now' \in Times /\ now' # 0
        BY <1>1, StoreAssumption DEF Clock, Tick, Times
    <2>2. ControlTypeOK' /\ Presented'
        BY <1>1, <2>1, Zenon DEF Clock, ControlTypeOK, Presented, requestVars, codeVars
    <2> QED
        BY <1>1, <2>1, <2>2, Frames, Zenon DEF Clock, Tick, storeVars
<1>2. CASE Deprovision
    <2>1. subjectLive' \in BOOLEAN
        BY <1>2, Zenon DEF Deprovision
    <2>2. ControlTypeOK' /\ Presented'
        BY <1>2, Zenon DEF Deprovision, ControlTypeOK, Presented, requestVars, codeVars
    <2> QED
        BY <1>2, <2>1, <2>2, Frames, Zenon DEF Deprovision, storeVars
<1>3. ASSUME NEW c \in Codes, IssueCode(c) PROVE Typed'
    <2>1. CodesTypeOK'
        BY <1>3, Zenon DEF IssueCode, issuanceVars, CodesTypeOK
    <2>2. ControlTypeOK' /\ Presented'
        BY <1>3, Zenon DEF IssueCode, issuanceVars, ControlTypeOK, Presented, requestVars
    <2> QED
        BY <1>3, <2>1, <2>2, Frames, Zenon DEF IssueCode, issuanceVars, storeVars
<1>4. CASE UNCHANGED vars
    <2>1. ControlTypeOK' /\ Presented'
        BY <1>4, Zenon DEF vars, issuanceVars, ControlTypeOK, Presented, requestVars, codeVars
    <2> QED
        BY <1>4, <2>1, Frames, Zenon DEF vars, issuanceVars, storeVars
<1> HIDE DEF Typed
<1> QED
    BY <1>1, <1>2, <1>3, <1>4, Zenon

\* Every step keeps the types.
LEMMA NextTyped ==
    ASSUME Typed, [Next]_vars
    PROVE  Typed'
    BY WorldTyped, CodeTyped, RefreshTyped, RevokeTyped, TeardownTyped, ExitTyped, Zenon
    DEF Next, Handle, Rest

\* Type correctness for every set of tokens, requests, codes and chains, every
\* lifetime, strategy and store capability: in particular no step of a handler
\* reads a row for a token, a code or an access token it does not hold.
THEOREM TypeCorrect == Spec => []Typed
<1>1. Typed /\ [Next]_vars => Typed'
    BY NextTyped, Zenon
<1> QED
    BY <1>1, InitTyped, PTL DEF Spec

\* The type invariant the runs check, for every value of the constants.
THEOREM TypeOKAlways == Spec => []TypeOK
<1>1. Typed => TypeOK
    BY Zenon DEF Typed
<1> QED
    BY <1>1, TypeCorrect, PTL
=============================================================================

