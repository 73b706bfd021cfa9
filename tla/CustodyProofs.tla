----------------------------- MODULE CustodyProofs -----------------------------
(***************************************************************************)
(* What a step of a request does, and who owns a chain while it does it.   *)
(*                                                                         *)
(* Effects says what a step may do to the teardown's control, to the marks *)
(* that retire a token, to the tombstone and to what clients hold.  To the *)
(* rows a step does one of four things: it leaves them, spends one, saves  *)
(* a successor of an unrevoked token, or revokes a set closed under        *)
(* children (RowStep).                                                     *)
(*                                                                         *)
(* OneSpendable is not inductive: between consuming a token and saving its *)
(* successor a request owns the chain, and the proof has to know that      *)
(* nobody else does.  Custody says so, and the two are inductive together  *)
(* with the fact that only a grace retry loads a sealed response.          *)
(***************************************************************************)
EXTENDS IssuanceProofs

-----------------------------------------------------------------------------
(* What a step of a request does *)

\* A mark once set stays, and the other requests are where they were.
Stable(r) ==
    /\ UNCHANGED now
    /\ revoked \subseteq revoked' /\ accessRevoked \subseteq accessRevoked' /\ failed \subseteq failed'
    /\ Grows
    /\ \A s \in Requests \ {r} :
          /\ pc'[s] = pc[s] /\ tok'[s] = tok[s] /\ scope'[s] = scope[s] /\ runNow'[s] = runNow[s]
          /\ newAT'[s] = newAT[s] /\ newRT'[s] = newRT[s] /\ redeemedAt'[s] = redeemedAt[s]

\* A request enters a teardown at its first rung with the clock's time, and
\* climbs it rung by rung.
Enters(r) ==
    \E s \in Scopes \ {"none"} :
        /\ pc'[r] = IF s = "chain" THEN "opaqueRung" ELSE "jwtRung"
        /\ scope'[r] = s /\ runNow'[r] = now

Climbs(r) ==
    \/ pc'[r] \notin RungLabels \cup {"retireRT"}
    \/ pc'[r] = "retireRT" /\ newRT'[r] # NoToken
    \/ Enters(r)
    \/ /\ TeardownStep(r) /\ pc[r] \in RungLabels \ {"settle"} /\ pc'[r] = NextRung(scope[r], pc[r])
       /\ scope'[r] = scope[r] /\ runNow'[r] = runNow[r]

Closes(r) == UNCHANGED <<tombVars, tornAt, wholeAt>> \/ TeardownStep(r)

\* Tokens reach a client at the check after the last Save, or as the sealed
\* response of the rotation it retries.
Released(r) ==
    /\ pc[r] = "confirm" /\ ~IssuanceRevoked(redeemedAt[r])
    /\ Deliver(newAT[r], IF r \in inGrace THEN retries[tok[r]][2] ELSE newRT[r])

Replayed(r) ==
    /\ pc[r] \in {"load", "consume"}
    /\ ~Constrained /\ tok[r] \in Tokens /\ retries[tok[r]] # NoRetry
    /\ Deliver(retries[tok[r]][1], retries[tok[r]][2])

Sends(r) == UNCHANGED <<sentAT, sentRT>> \/ Released(r) \/ Replayed(r)

Effects(r) == Stable(r) /\ Climbs(r) /\ Closes(r) /\ Sends(r)

\* A request that passes on keeps its tables: what is left is the marks.
LEMMA PassesHold ==
    ASSUME NEW r \in Requests, Passes(r),
           revoked \subseteq revoked', accessRevoked \subseteq accessRevoked', failed \subseteq failed',
           \A s \in Requests \ {r} : scope'[s] = scope[s] /\ runNow'[s] = runNow[s]
    PROVE  Stable(r)
<1>1. Grows
    BY Zenon DEF Passes, SameTables, Delivers, Grows
<1> QED
    BY <1>1, Zenon DEF Passes, Stable

\* The part of the type invariant that the teardown lives on.
LEMMA TeardownTyping ==
    ASSUME Typed
    PROVE  TeardownTypeOK /\ ControlTypeOK /\ LocalTypeOK
    BY Zenon DEF Typed, TypeOK, RequestsTypeOK

\* The refresh handler between its exchange and its mint.
LEMMA IssuingEffects ==
    ASSUME Typed, Provenance, NEW r \in Requests, UNCHANGED codeVars,
           Subject(r) \/ Prior(r) \/ CheckClosed(r) \/ RotateNothing(r)
    PROVE  Effects(r)
<1>1. Stable(r)
    <2>1. revoked \subseteq revoked' /\ accessRevoked \subseteq accessRevoked' /\ failed \subseteq failed'
        BY Zenon DEF Subject, Prior, RevokeAccess, CheckClosed, RotateNothing, storeVars, refreshVars, accessVars,
           teardownVars
    <2>2. \A s \in Requests \ {r} : scope'[s] = scope[s] /\ runNow'[s] = runNow[s]
        BY TeardownTyping, Zenon DEF TeardownTypeOK, Subject, Prior, CheckClosed, RotateNothing, BeginTeardown,
           teardownVars
    <2> QED
        BY <2>1, <2>2, IssuingPasses, PassesHold, Zenon
<1>2. Climbs(r)
    BY TeardownTyping, Zenon DEF TeardownTypeOK, ControlTypeOK, Subject, Prior, CheckClosed, RotateNothing,
       BeginTeardown, Goto, Climbs, Enters, Scopes, RungLabels
<1>3. Closes(r) /\ Sends(r)
    BY Zenon DEF Subject, Prior, CheckClosed, RotateNothing, Closes, Sends, storeVars, teardownVars, historyVars
<1> QED
    BY <1>1, <1>2, <1>3, Zenon DEF Effects

\* A retirement of refresh tokens takes no mark back.
LEMMA RetireMarks ==
    ASSUME NEW t, NEW g, Retire(t, g)
    PROVE  revoked \subseteq revoked'
    BY Zenon DEF Retire, RevokeChain, RevokeRefreshesByGrant, MarkRevoked, refreshVars

\* The refusals of the refresh handler, and the start of its cascade.
LEMMA RefusalEffects ==
    ASSUME Typed, Provenance, NEW r \in Requests, UNCHANGED codeVars,
           TxRefuse(r) \/ TxReject(r) \/ RetireReplayed(r)
    PROVE  Effects(r)
<1>1. Stable(r)
    <2>1. revoked \subseteq revoked' /\ accessRevoked \subseteq accessRevoked' /\ failed \subseteq failed'
        BY RetireMarks, Zenon DEF TxRefuse, TxReject, PriorRevoked, TxOther, RetireReplayed, refreshVars, accessVars
    <2>2. \A s \in Requests \ {r} : scope'[s] = scope[s] /\ runNow'[s] = runNow[s]
        BY TeardownTyping, Zenon DEF TeardownTypeOK, TxRefuse, TxReject, RetireReplayed, BeginTeardown
    <2> QED
        BY <2>1, <2>2, RefusalPasses, PassesHold, Zenon
<1>2. Climbs(r)
    BY TeardownTyping, Zenon DEF TeardownTypeOK, ControlTypeOK, TxRefuse, TxReject, RetireReplayed, BeginTeardown,
       Goto, Climbs, Enters, Scopes, RungLabels
<1>3. Closes(r) /\ Sends(r)
    BY Zenon DEF TxRefuse, TxReject, TxOther, RetireReplayed, Closes, Sends, historyVars
<1> QED
    BY <1>1, <1>2, <1>3, Zenon DEF Effects

\* A grace retry that is served from the sealed response.
LEMMA ReplayEffects ==
    ASSUME Typed, Provenance, NEW r \in Requests, UNCHANGED codeVars, Load(r) \/ TxGraceReplay(r)
    PROVE  Effects(r)
<1>1. Stable(r)
    <2>1. UNCHANGED <<revoked, accessRevoked, failed, scope, runNow>>
        BY Zenon DEF Load, TxGraceReplay, TxOther, storeVars, refreshVars, accessVars, teardownVars
    <2> QED
        BY <2>1, ReplayPasses, PassesHold, Zenon
<1>2. Climbs(r)
    BY TeardownTyping, Zenon DEF ControlTypeOK, Load, TxGraceReplay, Goto, Climbs, RungLabels
<1>3. Closes(r)
    BY Zenon DEF Load, TxGraceReplay, TxOther, Closes, storeVars, teardownVars
<1>4. Sends(r)
    <2>1. tok[r] \in Tokens
        BY Zenon DEF Load, TxGraceReplay, TxBegin, Typed, Presented, RefreshLabels
    <2> QED
        BY <2>1, Zenon DEF Load, TxGraceReplay, TxBegin, HasRetry, Sends, Replayed, historyVars
<1> QED
    BY <1>1, <1>2, <1>3, <1>4, Zenon DEF Effects

\* The revocation endpoints past their start.
LEMMA RevokeEffects ==
    ASSUME Typed, Provenance, NEW r \in Requests, UNCHANGED codeVars,
           RevokeRetire(r) \/ RevokeGrant(r) \/ \E a \in sentAT : RevokeOneAccess(r, a)
    PROVE  Effects(r)
<1>1. Stable(r)
    <2>1. revoked \subseteq revoked' /\ accessRevoked \subseteq accessRevoked' /\ failed \subseteq failed'
        BY RetireMarks, Zenon DEF RevokeRetire, RevokeGrant, RevokeOneAccess, RevokeAccess, storeVars, refreshVars,
           accessVars, teardownVars
    <2>2. \A s \in Requests \ {r} : scope'[s] = scope[s] /\ runNow'[s] = runNow[s]
        BY TeardownTyping, Zenon DEF TeardownTypeOK, RevokeRetire, RevokeGrant, RevokeOneAccess, BeginTeardown,
           teardownVars
    <2> QED
        BY <2>1, <2>2, RevokePasses, PassesHold, Zenon
<1>2. Climbs(r)
    BY TeardownTyping, Zenon DEF TeardownTypeOK, ControlTypeOK, RevokeRetire, RevokeGrant, RevokeOneAccess,
       BeginTeardown, Goto, Climbs, Enters, Scopes, RungLabels
<1>3. Closes(r) /\ Sends(r)
    BY Zenon DEF RevokeRetire, RevokeGrant, RevokeOneAccess, Closes, Sends, storeVars, teardownVars, historyVars
<1> QED
    BY <1>1, <1>2, <1>3, Zenon DEF Effects

\* The teardown.
LEMMA TeardownEffects ==
    ASSUME Typed, Provenance, NEW r \in Requests, TeardownStep(r), UNCHANGED <<requestVars, historyVars, codeVars>>
    PROVE  Effects(r)
<1>1. Stable(r)
    <2>1. JwtWrites(r) \/ OpaqueWrites(r) \/ CloseWrites(r) \/ RefreshWrites(r) \/ RungFails(r)
             => /\ revoked \subseteq revoked' /\ accessRevoked \subseteq accessRevoked' /\ failed \subseteq failed'
                /\ UNCHANGED <<scope, runNow>>
        BY StoreAssumption, Zenon DEF JwtWrites, OpaqueWrites, CloseWrites, RefreshWrites, RungFails, RevokeAccess,
           RevokeRefreshesByGrant, MarkRevoked, Strategies, storeVars, refreshVars, accessVars, teardownVars
    <2>2. /\ revoked \subseteq revoked' /\ accessRevoked \subseteq accessRevoked' /\ failed \subseteq failed'
          /\ UNCHANGED <<scope, runNow>>
        BY <2>1, Zenon DEF TeardownStep, Rung, Settle, DeleteGrant, storeVars, refreshVars, accessVars
    <2> QED
        BY <2>2, TeardownPasses, PassesHold, Zenon
<1>2. Climbs(r)
    <2>1. JwtWrites(r) \/ OpaqueWrites(r) \/ CloseWrites(r) \/ RefreshWrites(r) \/ RungFails(r)
             => UNCHANGED <<scope, runNow>>
        BY Zenon DEF JwtWrites, OpaqueWrites, CloseWrites, RefreshWrites, RungFails, teardownVars
    <2> QED
        BY <2>1, TeardownTyping, Zenon DEF ControlTypeOK, TeardownStep, Rung, Settle, DeleteGrant, Goto, Climbs,
           RungLabels
<1> QED
    BY <1>1, <1>2, Zenon DEF Effects, Closes, Sends, historyVars

\* The code handler around its mint, and the exits.
LEMMA ExitEffects ==
    ASSUME Typed, Provenance, NEW r \in Requests, UNCHANGED codeCreatedAt,
           \/ CodeSubject(r) \/ CodeRefreshWithheld(r) \/ CodeRefreshFails(r)
           \/ Confirm(r) \/ RetireIssuedAT(r) \/ RetireIssuedRT(r) \/ Abort(r)
    PROVE  Effects(r)
<1>1. Stable(r)
    <2>1. revoked \subseteq revoked' /\ accessRevoked \subseteq accessRevoked' /\ failed \subseteq failed'
        BY Zenon DEF CodeSubject, CodeRefreshWithheld, CodeRefreshFails, Confirm, RetireIssuedAT, RetireIssuedRT, Abort,
           RevokeAccess, RevokeChain, MarkRevoked, storeVars, refreshVars, accessVars, teardownVars
    <2>2. \A s \in Requests \ {r} : scope'[s] = scope[s] /\ runNow'[s] = runNow[s]
        BY TeardownTyping, Zenon DEF TeardownTypeOK, CodeSubject, CodeRefreshWithheld, CodeRefreshFails, Confirm,
           RetireIssuedAT, RetireIssuedRT, Abort, BeginTeardown, teardownVars
    <2> QED
        BY <2>1, <2>2, ExitPasses, PassesHold, Zenon
<1>2. Climbs(r)
    BY TeardownTyping, Zenon DEF TeardownTypeOK, ControlTypeOK, CodeSubject, CodeRefreshWithheld, CodeRefreshFails,
       Confirm, RetireIssuedAT, RetireIssuedRT, Abort, BeginTeardown, Goto, Climbs, Enters, Scopes, RungLabels,
       requestVars
<1>3. Closes(r) /\ Sends(r)
    BY Zenon DEF CodeSubject, CodeRefreshWithheld, CodeRefreshFails, Confirm, RetireIssuedAT, RetireIssuedRT, Abort,
       Closes, Sends, Released, storeVars, teardownVars, historyVars
<1> QED
    BY <1>1, <1>2, <1>3, Zenon DEF Effects

\* The steps that start a request or note the credential it redeems.
LEMMA StartEffects ==
    ASSUME Typed, NEW r \in Requests,
           \/ \E t \in sentRT, f \in Fits : RefreshStart(r, t, f)
           \/ \E t \in sentRT, f \in {"ok", "mismatch"} : RevokeStart(r, t, f)
           \/ \E c \in Codes, f \in {"ok", "mismatch"} : CodeStart(r, c, f)
    PROVE  Effects(r)
<1>1. UNCHANGED <<now, storeVars, teardownVars, newAT, newRT, redeemedAt, historyVars>>
    BY Zenon DEF RefreshStart, RevokeStart, CodeStart
<1>2. Stable(r)
    BY <1>1, TeardownTyping, Zenon DEF ControlTypeOK, RefreshStart, RevokeStart, CodeStart, Goto, Stable, Grows,
       storeVars, refreshVars, accessVars, teardownVars, historyVars
<1>3. Climbs(r)
    BY TeardownTyping, Zenon DEF ControlTypeOK, RefreshStart, RevokeStart, CodeStart, Goto, Climbs, RungLabels
<1> QED
    BY <1>1, <1>2, <1>3, Zenon DEF Effects, Closes, Sends, storeVars, teardownVars, historyVars

\* The exchange, the grace window and the start of a request retire nothing.
LEMMA ExchangeEffects ==
    ASSUME Typed, NEW r \in Requests, Exchange(r) \/ ExchangeKept(r) \/ Grace(r) \/ CodeConsume(r)
    PROVE  Effects(r)
<1>1. /\ UNCHANGED <<now, refreshes, parentOf, chainOf, createdAt, revoked, accessVars, tombVars, tok, newAT, newRT>>
      /\ UNCHANGED <<failed, tornAt, wholeAt, historyVars>>
    BY Zenon DEF Exchange, ExchangeKept, Grace, CodeConsume, storeVars, refreshVars, teardownVars
<1>2. \A s \in Requests \ {r} : /\ pc'[s] = pc[s] /\ scope'[s] = scope[s] /\ runNow'[s] = runNow[s]
                                /\ redeemedAt'[s] = redeemedAt[s]
    BY TeardownTyping, Zenon DEF TeardownTypeOK, ControlTypeOK, LocalTypeOK, Exchange, ExchangeKept, Grace, CodeConsume,
       BeginTeardown, Goto, teardownVars
<1>3. Stable(r)
    BY <1>1, <1>2, Zenon DEF Stable, Grows, accessVars, historyVars
<1>4. Climbs(r)
    BY TeardownTyping, Zenon DEF TeardownTypeOK, ControlTypeOK, Exchange, ExchangeKept, Grace, CodeConsume,
       BeginTeardown, Goto, Climbs, Enters, Scopes, RungLabels
<1> QED
    BY <1>1, <1>3, <1>4, Zenon DEF Effects, Closes, Sends, historyVars

\* A mint and a save only add to their tables.
LEMMA MintGrows ==
    ASSUME Typed, NEW r \in Requests, NEW a \in AccessTokens, NEW k, Mint(r, a, k)
    PROVE  /\ a \notin accessTokens /\ accessTokens' = accessTokens \cup {a}
           /\ \A b \in accessTokens :
                 accessChain'[b] = accessChain[b] /\ issuedAt'[b] = issuedAt[b] /\ bornOf'[b] = bornOf[b]
           /\ accessChain'[a] = k /\ issuedAt'[a] = now /\ bornOf'[a] = redeemedAt'[r]
           /\ newAT'[r] = a /\ \A s \in Requests \ {r} : newAT'[s] = newAT[s]
    BY Zenon DEF Mint, MintAccess, Typed, TypeOK, StoresTypeOK, AccessTypeOK, RequestsTypeOK, LocalTypeOK, HistoryTypeOK

\* A save adds one row and moves no other.
LEMMA SaveGrows ==
    ASSUME Typed, NEW r \in Requests, NEW t \in Tokens, NEW p, NEW k, NEW sealed, Adds(r, t, p, k, sealed)
    PROVE  /\ refreshes \subseteq refreshes'
           /\ \A u \in refreshes : /\ parentOf'[u] = parentOf[u] /\ chainOf'[u] = chainOf[u]
                                    /\ createdAt'[u] = createdAt[u] /\ bornRT'[u] = bornRT[u]
           /\ \A s \in Requests \ {r} : newRT'[s] = newRT[s]
    BY Zenon DEF Adds, Typed, TypeOK, StoresTypeOK, RefreshesTypeOK, RequestsTypeOK, LocalTypeOK, HistoryTypeOK

\* The steps that mint.
LEMMA MintEffects ==
    ASSUME Typed, NEW r \in Requests, NEW a \in AccessTokens,
           MintStep(r, a) \/ TxRotateNothing(r, a) \/ TxGraceRemint(r, a) \/ \E k \in Chains : CodeMint(r, a, k)
    PROVE  Effects(r)
<1>1. /\ UNCHANGED <<now, refreshes, parentOf, chainOf, createdAt, revoked, tombVars, tok, newRT, scope, runNow>>
      /\ UNCHANGED <<failed, tornAt, wholeAt, sentAT, sentRT, bornRT>>
    BY Zenon DEF MintStep, TxRotateNothing, TxGraceRemint, TxOther, CodeMint, refreshVars, teardownVars
<1>2. accessRevoked \subseteq accessRevoked'
    BY Zenon DEF MintStep, TxRotateNothing, TxGraceRemint, PriorRevoked, CodeMint
<1>3. /\ accessTokens \subseteq accessTokens'
      /\ \A b \in accessTokens :
            accessChain'[b] = accessChain[b] /\ issuedAt'[b] = issuedAt[b] /\ bornOf'[b] = bornOf[b]
      /\ \A s \in Requests \ {r} : newAT'[s] = newAT[s]
    <2>1. PICK k : Mint(r, a, k)
        BY Zenon DEF MintStep, TxRotateNothing, TxGraceRemint, CodeMint
    <2> QED
        BY <2>1, MintGrows, Zenon
<1>4. /\ \A s \in Requests \ {r} : pc'[s] = pc[s] /\ redeemedAt'[s] = redeemedAt[s]
      /\ pc'[r] \in {"confirm", "rotate", "codeRefresh"}
    BY TeardownTyping, Zenon DEF ControlTypeOK, LocalTypeOK, MintStep, TxRotateNothing, TxGraceRemint, CodeMint,
       RedeemedAt, Goto
<1>5. Stable(r)
    BY <1>1, <1>2, <1>3, <1>4, Zenon DEF Stable, Grows
<1> QED
    BY <1>1, <1>4, <1>5, Zenon DEF Effects, Climbs, RungLabels, Closes, Sends

\* The steps that save.
LEMMA SaveEffects ==
    ASSUME Typed, NEW r \in Requests, NEW t \in Tokens, Rotate(r, t) \/ CodeRefresh(r, t)
    PROVE  Effects(r)
<1>1. /\ UNCHANGED <<now, revoked, accessTokens, accessRevoked, accessChain, issuedAt, tombVars, tok, newAT, scope>>
      /\ UNCHANGED <<runNow, redeemedAt, failed, tornAt, wholeAt, sentAT, sentRT, bornOf>>
    BY Zenon DEF Rotate, CodeRefresh, accessVars, teardownVars
<1>2. \/ \E p, k, sealed : Adds(r, t, p, k, sealed)
      \/ UNCHANGED <<refreshes, parentOf, chainOf, createdAt, newRT, bornRT>>
    BY Zenon DEF Rotate, CodeRefresh, Persist, SaveRefresh, Adds
<1>3. /\ \A s \in Requests \ {r} : pc'[s] = pc[s]
      /\ pc'[r] \in {"confirm", "done"}
    BY TeardownTyping, Zenon DEF ControlTypeOK, Rotate, CodeRefresh, Goto
<1>4. Stable(r)
    BY <1>1, <1>2, <1>3, SaveGrows, Zenon DEF Stable, Grows
<1> QED
    BY <1>1, <1>3, <1>4, Zenon DEF Effects, Climbs, RungLabels, Closes, Sends

\* The transactional rotation consumes, mints and saves in one step.
LEMMA TxRotateEffects ==
    ASSUME Typed, NEW r \in Requests, NEW a \in AccessTokens, NEW t \in Tokens, TxRotate(r, a, t)
    PROVE  Effects(r)
<1>1. UNCHANGED <<now, revoked, tombVars, tok, scope, runNow, failed, tornAt, wholeAt, sentAT, sentRT>>
    BY Zenon DEF TxRotate, TxOther
<1>2. /\ Mint(r, a, chainOf[tok[r]]) /\ Adds(r, t, tok[r], chainOf[tok[r]], Sealed(a, t))
      /\ accessRevoked \subseteq accessRevoked'
    BY Zenon DEF TxRotate, PriorRevoked, Persist, SaveRefresh, Adds
<1>3. \A s \in Requests \ {r} : pc'[s] = pc[s] /\ redeemedAt'[s] = redeemedAt[s]
    BY TeardownTyping, Zenon DEF ControlTypeOK, LocalTypeOK, TxRotate, RedeemedAt, Goto
<1>4. pc'[r] = "confirm"
    BY TeardownTyping, Zenon DEF ControlTypeOK, TxRotate, Goto
<1>5. /\ accessTokens \subseteq accessTokens'
      /\ \A b \in accessTokens :
            accessChain'[b] = accessChain[b] /\ issuedAt'[b] = issuedAt[b] /\ bornOf'[b] = bornOf[b]
      /\ \A s \in Requests \ {r} : newAT'[s] = newAT[s]
    BY <1>2, MintGrows, Zenon
<1>6. /\ refreshes \subseteq refreshes'
      /\ \A u \in refreshes : /\ parentOf'[u] = parentOf[u] /\ chainOf'[u] = chainOf[u]
                               /\ createdAt'[u] = createdAt[u] /\ bornRT'[u] = bornRT[u]
      /\ \A s \in Requests \ {r} : newRT'[s] = newRT[s]
    BY <1>2, SaveGrows, Zenon
<1>7. Stable(r)
    BY <1>1, <1>2, <1>3, <1>5, <1>6, Zenon DEF Stable, Grows
<1> QED
    BY <1>1, <1>4, <1>7, Zenon DEF Effects, Climbs, RungLabels, Closes, Sends

\* Every step of a request has these effects.
LEMMA HandleEffects ==
    ASSUME Typed, Provenance, NEW r \in Requests, Handle(r) \/ (Abort(r) /\ UNCHANGED codeVars)
    PROVE  Effects(r)
<1>1. CASE CodeStep(r)
    <2>1. CASE CodeSubject(r) \/ CodeRefreshWithheld(r) \/ CodeRefreshFails(r)
        BY <2>1, ExitEffects, Zenon DEF CodeSubject, CodeRefreshWithheld, CodeRefreshFails, codeVars
    <2> QED
        BY <1>1, <2>1, StartEffects, ExchangeEffects, MintEffects, SaveEffects, Zenon DEF CodeStep
<1>2. CASE RefreshStep(r) /\ UNCHANGED codeVars
    BY <1>2, StartEffects, ExchangeEffects, IssuingEffects, RefusalEffects, ReplayEffects, MintEffects, SaveEffects,
       TxRotateEffects, Zenon DEF RefreshStep
<1>3. CASE RevokeStep(r) /\ UNCHANGED codeVars
    BY <1>3, StartEffects, RevokeEffects, Zenon DEF RevokeStep
<1>4. CASE (Confirm(r) \/ RetireIssuedAT(r) \/ RetireIssuedRT(r) \/ Abort(r)) /\ UNCHANGED codeVars
    BY <1>4, ExitEffects, Zenon DEF codeVars
<1>5. CASE TeardownStep(r) /\ UNCHANGED <<requestVars, subjectLive, historyVars, codeVars>>
    BY <1>5, TeardownEffects, Zenon
<1> QED
    BY <1>1, <1>2, <1>3, <1>4, <1>5, Zenon DEF Handle

\* The steps no request takes leave all of it alone.
World == Clock \/ Deprovision \/ (\E c \in Codes : IssueCode(c)) \/ UNCHANGED vars

\* The clock, the user store and the authorization endpoint leave the tables alone.
LEMMA WorldHolds ==
    ASSUME Typed, World
    PROVE  /\ UNCHANGED <<storeVars, pc, tok, teardownVars, requestVars, historyVars>>
           /\ now \in Nat /\ now' \in Nat /\ now <= now'
<1>1. UNCHANGED <<storeVars, pc, tok, teardownVars, requestVars, historyVars>>
    BY Zenon DEF World, Clock, Tick, Deprovision, IssueCode, vars, issuanceVars
<1>2. now \in Nat /\ now' \in Nat /\ now <= now'
    BY StoreAssumption DEF World, Clock, Tick, Deprovision, IssueCode, vars, issuanceVars, Typed, TypeOK, StoresTypeOK,
       Times
<1> QED
    BY <1>1, <1>2, Zenon

\* A step of the service is one of these or a step of one request.
LEMMA NextCases ==
    ASSUME Typed, Provenance, [Next]_vars
    PROVE  World \/ \E r \in Requests : Effects(r)
    BY HandleEffects, Zenon DEF Next, Rest, World

\* Only these steps save a row, and only a rotation seals a response.
LEMMA SaveStep ==
    ASSUME Typed, Provenance, NEW r \in Requests, Handle(r) \/ (Abort(r) /\ UNCHANGED codeVars)
    PROVE  \/ UNCHANGED <<refreshes, retries>>
           \/ \E t \in Tokens : Rotate(r, t) /\ ParentAlive(tok[r])
           \/ \E a \in AccessTokens, t \in Tokens : TxRotate(r, a, t)
           \/ UNCHANGED retries /\ \E t \in Tokens : CodeRefresh(r, t)
<1>1. CASE CodeStep(r)
    <2>1. CASE CodeSubject(r) \/ CodeRefreshWithheld(r) \/ CodeRefreshFails(r)
        BY <2>1, Zenon DEF CodeSubject, CodeRefreshWithheld, CodeRefreshFails, storeVars, refreshVars
    <2>2. CASE \/ \E c \in Codes, f \in {"ok", "mismatch"} : CodeStart(r, c, f)
               \/ CodeConsume(r)
               \/ \E a \in AccessTokens, k \in Chains : CodeMint(r, a, k)
        BY <2>2, Zenon DEF CodeStart, CodeConsume, CodeMint, storeVars, refreshVars
    <2>3. CASE \E t \in Tokens : CodeRefresh(r, t)
        BY <2>3, Zenon DEF CodeRefresh, Persist, SaveRefresh
    <2> QED
        BY <1>1, <2>1, <2>2, <2>3, Zenon DEF CodeStep
<1>2. CASE RefreshStep(r) /\ UNCHANGED codeVars
    <2>1. CASE \/ \E t \in sentRT, f \in Fits : RefreshStart(r, t, f)
               \/ Exchange(r) \/ ExchangeKept(r) \/ Grace(r)
               \/ \E a \in AccessTokens : MintStep(r, a) \/ TxRotateNothing(r, a) \/ TxGraceRemint(r, a)
        BY <2>1, Zenon DEF RefreshStart, Exchange, ExchangeKept, Grace, MintStep, TxRotateNothing, TxGraceRemint,
           storeVars, refreshVars
    <2>2. CASE \E t \in Tokens \ refreshes : Rotate(r, t)
        BY <2>2, Zenon DEF Rotate
    <2>3. ASSUME Passes(r) PROVE UNCHANGED <<refreshes, retries>>
        BY <2>3, Zenon DEF Passes, SameTables
    <2> QED
        BY <1>2, <2>1, <2>2, <2>3, IssuingPasses, RefusalPasses, ReplayPasses, Zenon DEF RefreshStep
<1>3. CASE RevokeStep(r) /\ UNCHANGED codeVars
    BY <1>3, RevokePasses, Zenon DEF RevokeStep, RevokeStart, Passes, SameTables, storeVars, refreshVars
<1>4. CASE (Confirm(r) \/ RetireIssuedAT(r) \/ RetireIssuedRT(r) \/ Abort(r)) /\ UNCHANGED codeVars
    BY <1>4, ExitPasses, Zenon DEF codeVars, Passes, SameTables
<1>5. CASE TeardownStep(r) /\ UNCHANGED <<requestVars, subjectLive, historyVars, codeVars>>
    BY <1>5, TeardownPasses, Zenon DEF Passes, SameTables
<1> QED
    BY <1>1, <1>2, <1>3, <1>4, <1>5, Zenon DEF Handle

\* The labels at which a request owns a chain, and the ones that lead there.
ClaimLabels == {"subject", "load", "prior", "closed", "mint", "rotate", "codeRefresh"}

\* Only these steps bring a request towards the mint or open a grace retry.
GraceStep(r) ==
    Subject(r) \/ Load(r) \/ Prior(r) \/ CheckClosed(r) \/ Grace(r) \/ \E a \in AccessTokens : TxGraceRemint(r, a)

\* Every other step but four leaves the grace window alone and leads to no claim.
LEMMA ClaimCases ==
    ASSUME Typed, NEW r \in Requests, Handle(r) \/ (Abort(r) /\ UNCHANGED codeVars)
    PROVE  \/ UNCHANGED inGrace /\ pc'[r] \notin ClaimLabels
           \/ GraceStep(r) \/ Exchange(r) \/ ExchangeKept(r)
           \/ \E a \in AccessTokens : MintStep(r, a)
           \/ \E a \in AccessTokens, k \in Chains : CodeMint(r, a, k)
<1> USE ControlTyped DEF ControlTypeOK, ClaimLabels, Goto
<1>1. CASE CodeStep(r)
    <2>1. CASE CodeSubject(r) \/ CodeRefreshWithheld(r) \/ CodeRefreshFails(r) \/ CodeConsume(r)
        BY <2>1, Zenon DEF CodeSubject, CodeRefreshWithheld, CodeRefreshFails, CodeConsume, BeginTeardown, requestVars
    <2>2. CASE \/ \E c \in Codes, f \in {"ok", "mismatch"} : CodeStart(r, c, f)
               \/ \E t \in Tokens : CodeRefresh(r, t)
        BY <2>2, Zenon DEF CodeStart, CodeRefresh
    <2> QED
        BY <1>1, <2>1, <2>2, Zenon DEF CodeStep
<1>2. CASE RefreshStep(r)
    <2>1. CASE \/ \E t \in sentRT, f \in Fits : RefreshStart(r, t, f)
               \/ RotateNothing(r) \/ RetireReplayed(r)
        BY <2>1, Zenon DEF RefreshStart, RotateNothing, RetireReplayed, BeginTeardown, requestVars
    <2>2. CASE \/ \E a \in AccessTokens : TxRotateNothing(r, a)
               \/ \E t \in Tokens \ refreshes : Rotate(r, t)
               \/ \E a \in AccessTokens, t \in Tokens : TxRotate(r, a, t)
        BY <2>2, Zenon DEF TxRotateNothing, Rotate, TxRotate
    <2>3. CASE TxRefuse(r) \/ TxGraceReplay(r) \/ TxReject(r)
        BY <2>3, Zenon DEF TxRefuse, TxGraceReplay, TxReject, BeginTeardown
    <2> QED
        BY <1>2, <2>1, <2>2, <2>3, Zenon DEF RefreshStep, GraceStep
<1>3. CASE RevokeStep(r)
    BY <1>3, Zenon DEF RevokeStep, RevokeStart, RevokeRetire, RevokeGrant, RevokeOneAccess, BeginTeardown, requestVars
<1>4. CASE Confirm(r) \/ RetireIssuedAT(r) \/ RetireIssuedRT(r) \/ Abort(r)
    BY <1>4, Zenon DEF Confirm, RetireIssuedAT, RetireIssuedRT, Abort, requestVars
<1>5. CASE TeardownStep(r) /\ UNCHANGED <<requestVars, subjectLive, historyVars, codeVars>>
    BY <1>5, Zenon DEF TeardownStep, Rung, NextRung, Settle, DeleteGrant, requestVars
<1> QED
    BY <1>1, <1>2, <1>3, <1>4, <1>5, Zenon DEF Handle

\* Outside the steps of a grace retry nothing approaches the mint.
LEMMA GraceCases ==
    ASSUME Typed, NEW r \in Requests, Handle(r) \/ (Abort(r) /\ UNCHANGED codeVars)
    PROVE  (UNCHANGED inGrace /\ pc'[r] \notin MintLabels) \/ GraceStep(r)
<1>1. CASE UNCHANGED inGrace /\ pc'[r] \notin ClaimLabels
    BY <1>1, Zenon DEF ClaimLabels, MintLabels
<1>2. CASE \/ Exchange(r) \/ ExchangeKept(r)
           \/ \E a \in AccessTokens : MintStep(r, a)
           \/ \E a \in AccessTokens, k \in Chains : CodeMint(r, a, k)
    BY <1>2, ControlTyped, Zenon DEF ControlTypeOK, Exchange, ExchangeKept, MintStep, CodeMint, Goto, MintLabels
<1> QED
    BY <1>1, <1>2, ClaimCases, Zenon

-----------------------------------------------------------------------------
(* The four things a step does to the rows *)

Spends ==
    /\ Rotation
    /\ \E p \in refreshes : Consume(p)
    /\ UNCHANGED <<refreshes, parentOf, revoked>>

Saves ==
    /\ \E t \in Tokens \ refreshes, p \in Tokens \cup {NoToken} :
          /\ ParentAlive(p)
          /\ refreshes' = refreshes \cup {t}
          /\ parentOf' = [parentOf EXCEPT ![t] = p]
    /\ UNCHANGED revoked
    /\ UNCHANGED consumedAt \/ (Rotation /\ \E p \in refreshes : Consume(p))

Revokes ==
    /\ \E S \in SUBSET refreshes : ClosedUnderChildren(S) /\ MarkRevoked(S)
    /\ UNCHANGED <<refreshes, parentOf>>

RowStep == UNCHANGED <<refreshes, parentOf, consumedAt, revoked>> \/ Spends \/ Saves \/ Revokes

\* The set RevokeChain walks is closed under children, and so is the whole table.
LEMMA RevokesClosed ==
    ASSUME Typed
    PROVE  /\ \A root : RevokeChain(root) => Revokes
           /\ RevokeRefreshesByGrant => Revokes
<1>1. ASSUME NEW root, RevokeChain(root) PROVE Revokes
    <2>1. Subtree(root) \in SUBSET refreshes
        BY Zenon DEF Subtree
    <2>2. ClosedUnderChildren(Subtree(root))
        <3> SUFFICES ASSUME NEW u \in refreshes, parentOf[u] \in Subtree(root),
                            NEW S \in SUBSET Tokens, root \in S, ClosedUnderChildren(S)
                     PROVE  u \in S
            BY Zenon DEF Subtree, ClosedUnderChildren
        <3>1. parentOf[u] \in S
            BY Zenon DEF Subtree
        <3> QED
            BY <3>1, Zenon DEF ClosedUnderChildren
    <2> QED
        BY <1>1, <2>1, <2>2, Zenon DEF RevokeChain, Revokes
<1>2. ASSUME RevokeRefreshesByGrant PROVE Revokes
    BY <1>2, Zenon DEF RevokeRefreshesByGrant, Revokes, ClosedUnderChildren
<1> QED
    BY <1>1, <1>2, Zenon

\* Retire revokes a chain, every chain, or nothing.
LEMMA RetireRows ==
    ASSUME Typed, NEW t, NEW g, Retire(t, g)
    PROVE  RowStep
<1>1. UNCHANGED refreshVars => RowStep
    BY Zenon DEF refreshVars, RowStep
<1> QED
    BY <1>1, RevokesClosed, Zenon DEF Retire, RowStep

\* Save refuses the successor of a revoked token.
LEMMA SaveRows ==
    ASSUME NEW t \in Tokens, NEW p \in Tokens \cup {NoToken}, NEW chain, NEW isJoined, NEW sealed,
           SaveRefresh(t, p, chain, isJoined, sealed), UNCHANGED revoked,
           UNCHANGED consumedAt \/ (Rotation /\ \E q \in refreshes : Consume(q))
    PROVE  RowStep
    BY Zenon DEF SaveRefresh, Saves, RowStep

\* The refresh_token grant.
LEMMA RefreshRows ==
    ASSUME Typed, NEW r \in Requests, RefreshStep(r)
    PROVE  RowStep
<1>1. ASSUME pc[r] \in RefreshLabels PROVE tok[r] \in Tokens
    BY <1>1, Zenon DEF Typed, Presented
<1>2. CASE Exchange(r)
    <2>1. CASE CanConsume(tok[r])
        BY <1>2, <2>1, Zenon DEF Exchange, CanConsume, Find, Spends, RowStep
    <2>2. CASE ~CanConsume(tok[r])
        BY <1>2, <2>2, Zenon DEF Exchange, RowStep
    <2> QED
        BY <2>1, <2>2, Zenon
<1>3. ASSUME NEW t \in Tokens \ refreshes, Rotate(r, t) PROVE RowStep
    <2>1. CASE ParentAlive(tok[r])
        <3>1. SaveRefresh(t, tok[r], chainOf[tok[r]], tok[r] \in joined, Sealed(newAT[r], t))
            BY <1>3, <2>1, Zenon DEF Rotate, Persist
        <3>2. tok[r] \in Tokens
            BY <1>1, <1>3, Zenon DEF Rotate, RefreshLabels
        <3> QED
            BY <1>3, <3>1, <3>2, SaveRows, Zenon DEF Rotate
    <2>2. CASE ~ParentAlive(tok[r])
        BY <1>3, <2>2, Zenon DEF Rotate, RowStep
    <2> QED
        BY <2>1, <2>2, Zenon
<1>4. ASSUME NEW a \in AccessTokens, NEW t \in Tokens, TxRotate(r, a, t) PROVE RowStep
    <2>1. SaveRefresh(t, tok[r], chainOf[tok[r]], tok[r] \in joined, Sealed(a, t))
        BY <1>4, Zenon DEF TxRotate, Persist
    <2>2. tok[r] \in Tokens
        BY <1>1, <1>4, Zenon DEF TxRotate, TxBegin, RefreshLabels
    <2>3. Rotation /\ tok[r] \in refreshes /\ Consume(tok[r]) /\ UNCHANGED revoked
        BY <1>4, Zenon DEF TxRotate, TxBegin, CanConsume, Find
    <2> QED
        BY <2>1, <2>2, <2>3, SaveRows, Zenon
<1>5. ASSUME NEW a \in AccessTokens, TxRotateNothing(r, a) PROVE RowStep
    BY <1>5, Zenon DEF TxRotateNothing, TxBegin, CanConsume, Find, Spends, RowStep
<1>6. CASE TxRefuse(r)
    BY <1>6, Zenon DEF TxRefuse, TxBegin, CanConsume, Find, Spends, RowStep
<1>7. CASE RetireReplayed(r)
    BY <1>7, RetireRows, Zenon DEF RetireReplayed
<1>8. CASE UNCHANGED refreshVars
    BY <1>8, Zenon DEF refreshVars, RowStep
<1>9. /\ \A t \in sentRT, f \in Fits : RefreshStart(r, t, f) => UNCHANGED refreshVars
      /\ ExchangeKept(r) \/ Grace(r) \/ Subject(r) \/ Load(r) \/ CheckClosed(r) \/ RotateNothing(r)
         => UNCHANGED refreshVars
      /\ Prior(r) => UNCHANGED refreshVars
      /\ \A a \in AccessTokens : MintStep(r, a) => UNCHANGED refreshVars
    BY Zenon DEF RefreshStart, ExchangeKept, Grace, Subject, Load, CheckClosed, RotateNothing, Prior, MintStep,
       storeVars
<1>10. /\ TxGraceReplay(r) => UNCHANGED refreshVars
       /\ \A a \in AccessTokens : TxGraceRemint(r, a) => UNCHANGED refreshVars
       /\ TxReject(r) => UNCHANGED refreshVars
    BY Zenon DEF TxGraceReplay, TxGraceRemint, TxReject
<1> QED
    BY <1>2, <1>3, <1>4, <1>5, <1>6, <1>7, <1>8, <1>9, <1>10, Zenon DEF RefreshStep

\* The authorization_code grant saves a chain's first token, which has no parent.
LEMMA CodeRows ==
    ASSUME Typed, NEW r \in Requests, CodeStep(r)
    PROVE  RowStep
<1>1. ASSUME NEW t \in Tokens, CodeRefresh(r, t) PROVE RowStep
    <2>1. SaveRefresh(t, NoToken, accessChain[newAT[r]], FALSE, NoRetry)
        BY <1>1, Zenon DEF CodeRefresh, Persist
    <2>2. UNCHANGED <<revoked, consumedAt>>
        BY <1>1, Zenon DEF CodeRefresh
    <2> QED
        BY <2>1, <2>2, SaveRows, Zenon
<1>2. CASE UNCHANGED refreshVars
    BY <1>2, Zenon DEF refreshVars, RowStep
<1>3. /\ \A c \in Codes, f \in {"ok", "mismatch"} : CodeStart(r, c, f) => UNCHANGED refreshVars
      /\ CodeConsume(r) \/ CodeSubject(r) \/ CodeRefreshWithheld(r) \/ CodeRefreshFails(r)
         => UNCHANGED refreshVars
      /\ \A a \in AccessTokens, k \in Chains : CodeMint(r, a, k) => UNCHANGED refreshVars
    BY Zenon DEF CodeStart, CodeConsume, CodeSubject, CodeRefreshWithheld, CodeRefreshFails, CodeMint, storeVars
<1> QED
    BY <1>1, <1>2, <1>3, Zenon DEF CodeStep

\* The revocation endpoints, the teardown and the exits.
LEMMA RetiringRows ==
    ASSUME Typed, NEW r \in Requests,
           \/ RevokeStep(r) \/ TeardownStep(r)
           \/ Confirm(r) \/ RetireIssuedAT(r) \/ RetireIssuedRT(r) \/ Abort(r)
    PROVE  RowStep
<1>1. CASE UNCHANGED refreshVars
    BY <1>1, Zenon DEF refreshVars, RowStep
<1>2. CASE RevokeStep(r)
    <2>1. CASE RevokeRetire(r)
        BY <2>1, RetireRows, Zenon DEF RevokeRetire
    <2>2. /\ \A t \in sentRT, f \in {"ok", "mismatch"} : RevokeStart(r, t, f) => UNCHANGED refreshVars
          /\ \A a \in sentAT : RevokeOneAccess(r, a) => UNCHANGED refreshVars
          /\ RevokeGrant(r) => UNCHANGED refreshVars
        BY Zenon DEF RevokeStart, RevokeOneAccess, RevokeGrant, storeVars
    <2> QED
        BY <1>1, <1>2, <2>1, <2>2, Zenon DEF RevokeStep
<1>3. CASE TeardownStep(r)
    <2>1. RungFails(r) => UNCHANGED refreshVars
        BY Zenon DEF RungFails, storeVars
    <2>2. JwtWrites(r) \/ OpaqueWrites(r) \/ CloseWrites(r) => UNCHANGED refreshVars
        BY Zenon DEF JwtWrites, OpaqueWrites, CloseWrites
    <2>3. RefreshWrites(r) => Revokes
        BY RevokesClosed, Zenon DEF RefreshWrites
    <2>4. Settle(r) \/ DeleteGrant(r) => UNCHANGED refreshVars
        BY Zenon DEF Settle, DeleteGrant, storeVars
    <2> QED
        BY <1>1, <1>3, <2>1, <2>2, <2>3, <2>4, Zenon DEF TeardownStep, Rung, RowStep
<1>4. CASE RetireIssuedRT(r)
    BY <1>4, RevokesClosed, Zenon DEF RetireIssuedRT, RowStep
<1>5. Confirm(r) \/ RetireIssuedAT(r) \/ Abort(r) => UNCHANGED refreshVars
    BY Zenon DEF Confirm, RetireIssuedAT, Abort, storeVars
<1> QED
    BY <1>1, <1>2, <1>3, <1>4, <1>5, Zenon

\* Every step of a request is one of the four.
LEMMA HandleRows ==
    ASSUME Typed, NEW r \in Requests, Handle(r) \/ Abort(r)
    PROVE  RowStep
    BY RefreshRows, CodeRows, RetiringRows, Zenon DEF Handle

\* Every step of the service is one of the four.
LEMMA NextRows ==
    ASSUME Typed, [Next]_vars
    PROVE  RowStep
<1>1. CASE World
    BY <1>1, Zenon DEF World, Clock, Tick, Deprovision, IssueCode, vars, issuanceVars, storeVars, refreshVars, RowStep
<1> QED
    BY <1>1, HandleRows, Zenon DEF Next, Rest, World

\* None of the four takes a consumption back.
LEMMA SpentStays ==
    ASSUME Typed, RowStep
    PROVE  \A t \in refreshes : Consumed(t) => consumedAt'[t] # 0
<1> USE DEF Typed, TypeOK, Presented, StoresTypeOK, RefreshesTypeOK, Consumed
<1>1. CASE UNCHANGED consumedAt
    BY <1>1, Zenon
<1>2. CASE \E p \in refreshes : Consume(p)
    BY <1>2, Zenon DEF Consume
<1>3. CASE Revokes
    BY <1>3, Zenon DEF Revokes, MarkRevoked
<1> QED
    BY <1>1, <1>2, <1>3, Zenon DEF RowStep, Spends, Saves

-----------------------------------------------------------------------------
(* Custody of a chain *)

\* What a step of request r leaves alone: the other requests, and the chain of
\* a token once it is saved or minted; a spent token stays spent.
Elsewhere(r) ==
    /\ accessTokens \subseteq accessTokens'
    /\ \A a \in accessTokens : accessChain'[a] = accessChain[a]
    /\ \A t \in refreshes : chainOf'[t] = chainOf[t] /\ (Consumed(t) => consumedAt'[t] # 0)
    /\ \A s \in Requests \ {r} :
          /\ pc'[s] = pc[s] /\ tok'[s] = tok[s] /\ newAT'[s] = newAT[s]
          /\ s \in inGrace' <=> s \in inGrace

\* A step after which the request claims no chain it did not claim before.
Yields(r) ==
    /\ refreshes' = refreshes
    /\ Extending(r)' => Extending(r) /\ tok'[r] = tok[r]
    /\ ~Opening(r)' /\ (pc'[r] = "load" => r \in inGrace')

\* A step that claims nothing new keeps the custody of every chain.
LEMMA YieldsKeeps ==
    ASSUME Chained, NEW r \in Requests, Elsewhere(r), Yields(r)
    PROVE  Chained'
<1> USE DEF Yields, Elsewhere, Chained
<1>1. OneSpendable'
    BY DEF OneSpendable, Consumed
<1>2. \A s \in Requests \ {r} :
         /\ Extending(s)' <=> Extending(s)
         /\ Opening(s)' <=> Opening(s)
    BY Zenon DEF Extending, Opening
<1>3. \A s \in Requests : Extending(s)' => Extending(s) /\ tok'[s] = tok[s]
    BY <1>2, Zenon
<1>4. \A s \in Requests : Opening(s)' => Opening(s) /\ newAT'[s] = newAT[s]
    BY <1>2, Zenon
<1>5. \A s \in Requests : Claims(s)' => Claims(s) /\ Claim(s)' = Claim(s)
    BY <1>3, <1>4 DEF Claims, Claim, Custody, Extending, Opening
<1>6. Custody'
    BY <1>3, <1>4, <1>5 DEF Custody, Consumed
<1>7. GraceLoads'
    BY Zenon DEF GraceLoads
<1> QED
    BY <1>1, <1>6, <1>7, Zenon

\* Consume of an unspent token: the request alone claims the chain.
LEMMA ClaimKeeps ==
    ASSUME Chained, NEW r \in Requests, Elsewhere(r), refreshes' = refreshes,
           tok[r] \in refreshes, ~Consumed(tok[r]), consumedAt'[tok[r]] # 0,
           tok'[r] = tok[r], ~Opening(r)', pc'[r] # "load"
    PROVE  Chained'
<1> USE DEF Elsewhere, Chained
<1>1. OneSpendable'
    BY DEF OneSpendable, Consumed
<1>2. \A s \in Requests \ {r} :
         /\ Extending(s)' <=> Extending(s)
         /\ Opening(s)' <=> Opening(s)
    BY Zenon DEF Extending, Opening
<1>3. \A s \in Requests \ {r} : Claims(s)' => Claims(s) /\ Claim(s)' = Claim(s)
    BY <1>2, Zenon DEF Claims, Claim, Custody
<1>4. Claims(r)' => Claim(r)' = chainOf[tok[r]]
    BY Zenon DEF Claims, Claim
<1>5. \A t \in refreshes : chainOf[t] = chainOf[tok[r]] => consumedAt'[t] # 0
    BY Zenon DEF OneSpendable, Consumed
<1>6. \A s \in Requests \ {r} : Claims(s) => Claim(s) # chainOf[tok[r]]
    BY Zenon DEF Custody
<1>7. \A s \in Requests : Claims(s)' => \A t \in refreshes : chainOf[t] = Claim(s)' => consumedAt'[t] # 0
    <2> SUFFICES ASSUME NEW s \in Requests, Claims(s)', NEW t \in refreshes, chainOf[t] = Claim(s)'
                 PROVE  consumedAt'[t] # 0
        BY Zenon
    <2>1. CASE s = r
        BY <1>4, <1>5, <2>1
    <2>2. CASE s # r
        <3>1. Claims(s) /\ chainOf[t] = Claim(s)
            BY <1>3, <2>2
        <3> QED
            BY <3>1, Zenon DEF Custody
    <2> QED
        BY <2>1, <2>2, Zenon
<1>8. \A s, u \in Requests : Claims(s)' /\ Claims(u)' /\ Claim(s)' = Claim(u)' => s = u
    <2> SUFFICES ASSUME NEW s \in Requests, NEW u \in Requests, Claims(s)', Claims(u)', Claim(s)' = Claim(u)'
                 PROVE  s = u
        BY Zenon
    <2>1. CASE s # r /\ u # r
        <3>1. Claims(s) /\ Claims(u) /\ Claim(s) = Claim(u)
            BY <1>3, <2>1
        <3> QED
            BY <3>1, Zenon DEF Custody
    <2>2. CASE s = r \/ u = r
        BY <1>3, <1>4, <1>6, <2>2
    <2> QED
        BY <2>1, <2>2, Zenon
<1>9. /\ \A s \in Requests : Extending(s)' => tok'[s] \in refreshes
      /\ \A s \in Requests : Opening(s)' => newAT'[s] \in accessTokens'
    BY <1>2, Zenon DEF Custody
<1>10. GraceLoads'
    BY Zenon DEF GraceLoads
<1> QED
    BY <1>1, <1>7, <1>8, <1>9, <1>10 DEF Custody, Consumed

\* NewChainID: the request that redeemed a code alone claims the new chain.
LEMMA OpenKeeps ==
    ASSUME Chained, NEW r \in Requests, Elsewhere(r), refreshes' = refreshes,
           NEW k, FreshChain(k), newAT'[r] \in accessTokens', accessChain'[newAT'[r]] = k,
           Opening(r)', pc'[r] # "load"
    PROVE  Chained'
<1> USE DEF Elsewhere, Chained
<1>1. OneSpendable'
    BY DEF OneSpendable, Consumed
<1>2. \A s \in Requests \ {r} :
         /\ Extending(s)' <=> Extending(s)
         /\ Opening(s)' <=> Opening(s)
    BY Zenon DEF Extending, Opening
<1>3. \A s \in Requests \ {r} : Claims(s)' => Claims(s) /\ Claim(s)' = Claim(s)
    BY <1>2, Zenon DEF Claims, Claim, Custody
<1>4. Claim(r)' = k /\ ~Extending(r)'
    BY Zenon DEF Claim, Opening, Extending
<1>5. \A t \in refreshes : chainOf[t] # k
    BY Zenon DEF FreshChain
<1>6. \A s \in Requests \ {r} : Claims(s) => Claim(s) # k
    BY Zenon DEF FreshChain, Claims, Claim, Custody
<1>7. \A s \in Requests : Claims(s)' => \A t \in refreshes : chainOf[t] = Claim(s)' => consumedAt'[t] # 0
    <2> SUFFICES ASSUME NEW s \in Requests, Claims(s)', NEW t \in refreshes, chainOf[t] = Claim(s)'
                 PROVE  consumedAt'[t] # 0
        BY Zenon
    <2>1. CASE s = r
        BY <1>4, <1>5, <2>1
    <2>2. CASE s # r
        <3>1. Claims(s) /\ chainOf[t] = Claim(s)
            BY <1>3, <2>2
        <3> QED
            BY <3>1, Zenon DEF Custody
    <2> QED
        BY <2>1, <2>2, Zenon
<1>8. \A s, u \in Requests : Claims(s)' /\ Claims(u)' /\ Claim(s)' = Claim(u)' => s = u
    <2> SUFFICES ASSUME NEW s \in Requests, NEW u \in Requests, Claims(s)', Claims(u)', Claim(s)' = Claim(u)'
                 PROVE  s = u
        BY Zenon
    <2>1. CASE s # r /\ u # r
        <3>1. Claims(s) /\ Claims(u) /\ Claim(s) = Claim(u)
            BY <1>3, <2>1
        <3> QED
            BY <3>1, Zenon DEF Custody
    <2>2. CASE s = r \/ u = r
        BY <1>3, <1>4, <1>6, <2>2
    <2> QED
        BY <2>1, <2>2, Zenon
<1>9. /\ \A s \in Requests : Extending(s)' => tok'[s] \in refreshes
      /\ \A s \in Requests : Opening(s)' => newAT'[s] \in accessTokens'
    BY <1>2, <1>4, Zenon DEF Custody
<1>10. GraceLoads'
    BY Zenon DEF GraceLoads
<1> QED
    BY <1>1, <1>7, <1>8, <1>9, <1>10 DEF Custody, Consumed

\* The next token t joins chain k, whose other tokens are all spent and which no
\* other request claims; the request claims nothing any more.
LEMMA GrowKeeps ==
    ASSUME Chained, NEW r \in Requests, Elsewhere(r), ~Claims(r)', pc'[r] # "load", NEW t, NEW k,
           t \notin refreshes, refreshes' = refreshes \cup {t}, chainOf'[t] = k,
           \A u \in refreshes : chainOf[u] = k => consumedAt'[u] # 0,
           \A s \in Requests \ {r} : Claims(s) => Claim(s) # k
    PROVE  Chained'
<1> USE DEF Elsewhere, Chained
<1>1. OneSpendable'
    BY DEF OneSpendable, Consumed
<1>2. \A s \in Requests \ {r} :
         /\ Extending(s)' <=> Extending(s)
         /\ Opening(s)' <=> Opening(s)
    BY Zenon DEF Extending, Opening
<1>3. \A s \in Requests : Claims(s)' => s # r /\ Claims(s) /\ Claim(s)' = Claim(s)
    BY <1>2 DEF Claims, Claim, Custody
<1>4. \A s \in Requests : Claims(s)' => \A u \in refreshes' : chainOf'[u] = Claim(s)' => consumedAt'[u] # 0
    BY <1>3 DEF Custody, Consumed
<1>5. \A s, u \in Requests : Claims(s)' /\ Claims(u)' /\ Claim(s)' = Claim(u)' => s = u
    BY <1>3 DEF Custody
<1>6. /\ \A s \in Requests : Extending(s)' => tok'[s] \in refreshes'
      /\ \A s \in Requests : Opening(s)' => newAT'[s] \in accessTokens'
    BY <1>2, <1>3, Zenon DEF Custody, Claims
<1>7. GraceLoads'
    BY Zenon DEF GraceLoads
<1> QED
    BY <1>1, <1>4, <1>5, <1>6, <1>7, Zenon DEF Custody, Consumed

\* The steps of the refresh handler up to the mint claim nothing new, and
\* neither does a step that leads to no claim.
LEMMA YieldCases ==
    ASSUME Typed, Chained, NEW r \in Requests, UNCHANGED refreshes,
           \/ UNCHANGED inGrace /\ pc'[r] \notin ClaimLabels
           \/ GraceStep(r) \/ ExchangeKept(r)
           \/ \E a \in AccessTokens : MintStep(r, a)
    PROVE  Yields(r)
<1>1. CASE UNCHANGED inGrace /\ pc'[r] \notin ClaimLabels
    BY <1>1, Zenon DEF Yields, ClaimLabels, Extending, Opening
<1>2. CASE Subject(r) \/ Load(r)
    BY <1>2, ControlTyped, Zenon DEF ControlTypeOK, Subject, Load, BeginTeardown, Goto, Yields, Extending, Opening,
       Chained, GraceLoads, requestVars
<1>3. CASE Prior(r) \/ CheckClosed(r)
    BY <1>3, ControlTyped, Zenon DEF ControlTypeOK, Prior, CheckClosed, Goto, Yields, Extending, Opening, requestVars
<1>4. CASE Grace(r) \/ ExchangeKept(r)
    BY <1>4, ControlTyped, Zenon DEF ControlTypeOK, Grace, ExchangeKept, Goto, Yields, Extending, Opening
<1>5. CASE \E a \in AccessTokens : TxGraceRemint(r, a) \/ MintStep(r, a)
    BY <1>5, ControlTyped, Zenon DEF ControlTypeOK, TxGraceRemint, MintStep, Goto, Yields, Extending, Opening
<1> QED
    BY <1>1, <1>2, <1>3, <1>4, <1>5, Zenon DEF GraceStep

\* Every step of a request leaves the other requests and the chains alone.
LEMMA HandleElsewhere ==
    ASSUME Typed, Provenance, NEW r \in Requests, Handle(r) \/ (Abort(r) /\ UNCHANGED codeVars)
    PROVE  Elsewhere(r)
<1>1. Stable(r) /\ RowStep
    BY HandleEffects, HandleRows, Zenon DEF Effects
<1>2. \A t \in refreshes : Consumed(t) => consumedAt'[t] # 0
    BY <1>1, SpentStays, Zenon
<1>3. \A s \in Requests \ {r} : s \in inGrace' <=> s \in inGrace
    <2>1. CASE Grace(r) \/ \E a \in AccessTokens : TxGraceRemint(r, a)
        BY <2>1, Zenon DEF Grace, TxGraceRemint
    <2>2. CASE Subject(r) \/ Load(r) \/ Prior(r) \/ CheckClosed(r)
        BY <2>2, Zenon DEF Subject, Load, Prior, CheckClosed, requestVars
    <2> QED
        BY <2>1, <2>2, GraceCases, Zenon DEF GraceStep
<1> QED
    BY <1>1, <1>2, <1>3, Zenon DEF Elsewhere, Stable, Grows

\* Consume won: the request owns the chain.  Consume lost: it owns nothing.
LEMMA ExchangeKeeps ==
    ASSUME Typed, Chained, NEW r \in Requests, Elsewhere(r), Exchange(r)
    PROVE  Chained'
<1>1. tok'[r] = tok[r] /\ ~Opening(r)' /\ pc'[r] # "load" /\ refreshes' = refreshes
    BY ControlTyped, Zenon DEF ControlTypeOK, Exchange, Goto, Opening
<1>2. CASE CanConsume(tok[r])
    <2>1. tok[r] \in refreshes /\ ~Consumed(tok[r]) /\ Consume(tok[r])
        BY <1>2, Zenon DEF Exchange, CanConsume, Find
    <2>2. consumedAt'[tok[r]] # 0
        BY <2>1, Zenon DEF Consume, Typed, TypeOK, StoresTypeOK, RefreshesTypeOK, Presented
    <2> QED
        BY <1>1, <2>1, <2>2, ClaimKeeps, Zenon
<1>3. CASE ~CanConsume(tok[r])
    <2>1. ~Extending(r)'
        BY <1>3, ControlTyped, Zenon DEF ControlTypeOK, Exchange, Goto, Extending
    <2> QED
        BY <1>1, <2>1, YieldsKeeps, Zenon DEF Yields
<1> QED
    BY <1>2, <1>3, Zenon

\* What SaveRefresh does to the rows that were there and to the new one.
LEMMA SavedRows ==
    ASSUME Typed, NEW t \in Tokens, NEW parent, NEW chain, NEW isJoined, NEW sealed,
           SaveRefresh(t, parent, chain, isJoined, sealed)
    PROVE  t \notin refreshes /\ refreshes' = refreshes \cup {t} /\ chainOf'[t] = chain
    BY Zenon DEF SaveRefresh, Typed, TypeOK, StoresTypeOK, RefreshesTypeOK

\* The successor replaces the claim.
LEMMA RotateKeeps ==
    ASSUME Typed, Chained, NEW r \in Requests, Elsewhere(r), NEW t \in Tokens, Rotate(r, t), ParentAlive(tok[r])
    PROVE  Chained'
<1>1. SaveRefresh(t, tok[r], chainOf[tok[r]], tok[r] \in joined, Sealed(newAT[r], t))
    BY Zenon DEF Rotate, Persist
<1>2. ~Claims(r)' /\ pc'[r] # "load"
    BY ControlTyped, Zenon DEF ControlTypeOK, Rotate, Goto, Claims, Extending, Opening
<1>3. Claims(r) /\ Claim(r) = chainOf[tok[r]]
    BY Zenon DEF Rotate, Claims, Claim, Extending, Opening
<1>4. \A u \in refreshes : chainOf[u] = chainOf[tok[r]] => consumedAt'[u] # 0
    BY <1>3, Zenon DEF Chained, Custody, Elsewhere
<1>5. \A s \in Requests \ {r} : Claims(s) => Claim(s) # chainOf[tok[r]]
    BY <1>3, Zenon DEF Chained, Custody
<1>6. t \notin refreshes /\ refreshes' = refreshes \cup {t} /\ chainOf'[t] = chainOf[tok[r]]
    BY <1>1, SavedRows, Zenon
<1> QED
    BY <1>2, <1>4, <1>5, <1>6, GrowKeeps, Zenon

\* In a transaction the successor replaces the token it spends.
LEMMA TxRotateKeeps ==
    ASSUME Typed, Chained, NEW r \in Requests, Elsewhere(r), NEW a \in AccessTokens, NEW t \in Tokens,
           TxRotate(r, a, t)
    PROVE  Chained'
<1>1. SaveRefresh(t, tok[r], chainOf[tok[r]], tok[r] \in joined, Sealed(a, t))
    BY Zenon DEF TxRotate, Persist
<1>2. ~Claims(r)' /\ pc'[r] # "load"
    BY ControlTyped, Zenon DEF ControlTypeOK, TxRotate, Goto, Claims, Extending, Opening
<1>3. tok[r] \in refreshes /\ ~Consumed(tok[r]) /\ Consume(tok[r])
    BY Zenon DEF TxRotate, CanConsume, Find
<1>4. consumedAt'[tok[r]] # 0
    BY <1>3, Zenon DEF Consume, Typed, TypeOK, StoresTypeOK, RefreshesTypeOK, Presented
<1>5. \A u \in refreshes : chainOf[u] = chainOf[tok[r]] => consumedAt'[u] # 0
    BY <1>3, <1>4, Zenon DEF Chained, OneSpendable, Elsewhere
<1>6. \A s \in Requests \ {r} : Claims(s) => Claim(s) # chainOf[tok[r]]
    BY <1>3, Zenon DEF Chained, Custody
<1>7. t \notin refreshes /\ refreshes' = refreshes \cup {t} /\ chainOf'[t] = chainOf[tok[r]]
    BY <1>1, SavedRows, Zenon
<1> QED
    BY <1>2, <1>5, <1>6, <1>7, GrowKeeps, Zenon

\* A redeemed code opens a chain nobody has.
LEMMA CodeMintKeeps ==
    ASSUME Typed, Chained, NEW r \in Requests, Elsewhere(r), NEW a \in AccessTokens, NEW k \in Chains,
           CodeMint(r, a, k)
    PROVE  Chained'
<1>1. newAT'[r] = a /\ a \in accessTokens' /\ accessChain'[a] = k
    BY Zenon DEF CodeMint, Mint, MintAccess, Typed, TypeOK, StoresTypeOK, RequestsTypeOK, LocalTypeOK, AccessTypeOK
<1>2. Opening(r)' /\ pc'[r] # "load" /\ refreshes' = refreshes /\ FreshChain(k)
    BY ControlTyped, Zenon DEF ControlTypeOK, CodeMint, Goto, Opening, refreshVars
<1> QED
    BY <1>1, <1>2, OpenKeeps, Zenon

\* The first refresh token of the chain the request opened.
LEMMA CodeRefreshKeeps ==
    ASSUME Typed, Chained, NEW r \in Requests, Elsewhere(r), NEW t \in Tokens, CodeRefresh(r, t)
    PROVE  Chained'
<1>1. SaveRefresh(t, NoToken, accessChain[newAT[r]], FALSE, NoRetry)
    BY Zenon DEF CodeRefresh, Persist
<1>2. ~Claims(r)' /\ pc'[r] # "load"
    BY ControlTyped, Zenon DEF ControlTypeOK, CodeRefresh, Goto, Claims, Extending, Opening
<1>3. Claims(r) /\ Claim(r) = accessChain[newAT[r]]
    BY Zenon DEF CodeRefresh, Claims, Claim, Opening
<1>4. /\ \A u \in refreshes : chainOf[u] = accessChain[newAT[r]] => consumedAt'[u] # 0
      /\ \A s \in Requests \ {r} : Claims(s) => Claim(s) # accessChain[newAT[r]]
    BY <1>3, Zenon DEF Chained, Custody, Elsewhere
<1>5. t \notin refreshes /\ refreshes' = refreshes \cup {t} /\ chainOf'[t] = accessChain[newAT[r]]
    BY <1>1, SavedRows, Zenon
<1> QED
    BY <1>2, <1>4, <1>5, GrowKeeps, Zenon

\* Every step of a request keeps the custody of every chain.
LEMMA HandleChained ==
    ASSUME Typed, Provenance, Chained, NEW r \in Requests, Handle(r) \/ (Abort(r) /\ UNCHANGED codeVars)
    PROVE  Chained'
<1>1. Elsewhere(r)
    BY HandleElsewhere, Zenon
<1>2. ASSUME UNCHANGED refreshes PROVE Chained'
    <2>1. CASE Exchange(r)
        BY <1>1, <2>1, ExchangeKeeps, Zenon
    <2>2. ASSUME NEW a \in AccessTokens, NEW k \in Chains, CodeMint(r, a, k) PROVE Chained'
        BY <1>1, <2>2, CodeMintKeeps, Zenon
    <2>3. CASE Yields(r)
        BY <1>1, <2>3, YieldsKeeps, Zenon
    <2> QED
        BY <1>2, <2>1, <2>2, <2>3, ClaimCases, YieldCases, Zenon
<1> QED
    BY <1>1, <1>2, SaveStep, RotateKeeps, TxRotateKeeps, CodeRefreshKeeps, Zenon

\* The steps no request takes touch neither rows nor claims.
LEMMA NextChained ==
    ASSUME Typed, Provenance, Chained, [Next]_vars
    PROVE  Chained'
<1>1. CASE World
    BY <1>1, WorldHolds DEF Chained, OneSpendable, Custody, GraceLoads, Claims, Claim, Extending, Opening, Consumed,
       storeVars, refreshVars, accessVars, requestVars
<1> QED
    BY <1>1, HandleChained, Zenon DEF Next, Rest, World

\* Each root is the only token of its chain, and no request has started.
LEMMA InitChained == Init => Chained
<1> SUFFICES ASSUME Init PROVE Chained
    BY Zenon
<1>1. refreshes = Roots /\ \A t \in Roots : chainOf[t] = RootChain[t]
    BY RootsAssumption, Zenon DEF Init, StoresInit
<1>2. OneSpendable
    BY <1>1, RootsAssumption, Zenon DEF OneSpendable
<1>3. \A r \in Requests : pc[r] = "idle"
    BY Zenon DEF Init, RequestsInit
<1> QED
    BY <1>2, <1>3, Zenon DEF Chained, Custody, GraceLoads, Claims, Extending, Opening
=============================================================================
