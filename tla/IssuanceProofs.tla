---------------------------- MODULE IssuanceProofs ----------------------------
(***************************************************************************)
(* Where a token came from: Provenance is inductive.  It says that the     *)
(* rows, the access tokens and what a request carries agree on chain,      *)
(* parent and the date of the credential that was redeemed for them.  So   *)
(* is RedeemInv: a code that was consumed is in the hands of one request,  *)
(* until it is counted as redeemed.                                        *)
(***************************************************************************)
EXTENDS TokenInvariants, TLAPS

-----------------------------------------------------------------------------
(* Provenance *)

\* The tables a step of request r may only add to, and what it leaves to the
\* other requests.
Grows ==
    /\ refreshes \subseteq refreshes' /\ accessTokens \subseteq accessTokens' /\ sentRT \subseteq sentRT'
    /\ \A t \in refreshes :
          /\ parentOf'[t] = parentOf[t] /\ chainOf'[t] = chainOf[t]
          /\ createdAt'[t] = createdAt[t] /\ bornRT'[t] = bornRT[t]
    /\ \A a \in accessTokens :
          accessChain'[a] = accessChain[a] /\ issuedAt'[a] = issuedAt[a] /\ bornOf'[a] = bornOf[a]

Apart(r) ==
    \A s \in Requests \ {r} :
        /\ pc'[s] = pc[s] /\ tok'[s] = tok[s]
        /\ newAT'[s] = newAT[s] /\ newRT'[s] = newRT[s] /\ redeemedAt'[s] = redeemedAt[s]

\* What the other requests carry stays true.
LEMMA OthersCarry ==
    ASSUME Typed, Provenance, NEW r \in Requests, Grows, Apart(r), UNCHANGED now
    PROVE  \A s \in Requests \ {r} : Carries(s)'
<1> SUFFICES ASSUME NEW s \in Requests \ {r} PROVE Carries(s)'
    BY Zenon
<1>1. Carries(s) /\ sentRT \subseteq refreshes
    BY Zenon DEF Provenance, Rows
<1>2. tok[s] # NoToken => chainOf'[tok[s]] = chainOf[tok[s]] /\ createdAt'[tok[s]] = createdAt[tok[s]]
    BY <1>1, Zenon DEF Carries, Grows
<1>3. pc[s] \in Issuing => tok[s] # NoToken
    BY StoreAssumption, Zenon DEF Typed, Presented, Issuing, RefreshLabels
<1> QED
    BY <1>1, <1>2, <1>3 DEF Carries, Grows, Apart

\* A step that changes no table keeps the provenance of every token.
SameTables ==
    UNCHANGED <<refreshes, parentOf, chainOf, createdAt, retries, bornRT, accessTokens, accessChain, issuedAt, bornOf>>

Delivers ==
    /\ sentRT \subseteq sentRT' /\ sentRT' \subseteq refreshes
    /\ sentAT' \subseteq accessTokens

\* A step that changes no table keeps every provenance.
LEMMA StepKeeps ==
    ASSUME Typed, Provenance, NEW r \in Requests, SameTables, Delivers, UNCHANGED <<now, codeCreatedAt>>,
           Apart(r), Carries(r)'
    PROVE  Provenance'
<1>1. Grows
    BY Zenon DEF SameTables, Delivers, Grows
<1>2. \A s \in Requests : Carries(s)'
    BY <1>1, OthersCarry, Zenon
<1>3. Rows'
    BY Zenon DEF Provenance, SameTables, Delivers, Rows, RowFits, SealFits
<1>4. Minted' /\ Dated'
    BY Zenon DEF Provenance, SameTables, Delivers, Minted, AccessFits, Dated
<1> QED
    BY <1>2, <1>3, <1>4, Zenon DEF Provenance

\* From label l a request may go on to m with what it carries.
Onward(l, m) ==
    /\ m \notin {"idle", "codeConsume", "grace", "rotate"}
    /\ l \in Ends \cup {"rotate", "codeRefresh"} => m \in Ends
    /\ m \in Issuing => l \in Issuing
    /\ m \in CodeIssuing => l \in CodeIssuing

Passes(r) ==
    /\ SameTables /\ Delivers
    /\ UNCHANGED <<now, codeCreatedAt, tok, newAT, newRT, redeemedAt>>
    /\ \A s \in Requests \ {r} : pc'[s] = pc[s]
    /\ Onward(pc[r], pc'[r])

\* A request that goes on with what it carries keeps every provenance.
LEMMA PassesKeeps ==
    ASSUME Typed, Provenance, NEW r \in Requests, Passes(r)
    PROVE  Provenance'
<1>1. Apart(r)
    BY Zenon DEF Passes, Apart
<1>2. Carries(r)'
    <2>1. Carries(r)
        BY Zenon DEF Provenance
    <2> QED
        BY <2>1, Zenon DEF Passes, SameTables, Delivers, Onward, Carries, Ends, Issuing, CodeIssuing
<1> QED
    BY <1>1, <1>2, StepKeeps, Zenon DEF Passes

\* Nothing is delivered: the sent tokens stay the tokens of the tables.
LEMMA NothingSent ==
    ASSUME Provenance, UNCHANGED <<sentAT, sentRT>>
    PROVE  Delivers
    BY Zenon DEF Provenance, Rows, Minted, Delivers

\* A sealed response names stored tokens.
LEMMA SealedIsStored ==
    ASSUME Typed, Provenance, NEW t \in Tokens
    PROVE  /\ {retries[t][1]} \ {NoAccess} \subseteq accessTokens
           /\ {retries[t][2]} \ {NoToken} \subseteq refreshes
<1>1. CASE retries[t] = NoRetry
    BY <1>1 DEF NoRetry
<1>2. CASE retries[t] # NoRetry
    BY <1>2, Zenon DEF Provenance, Rows, SealFits
<1> QED
    BY <1>1, <1>2, Zenon

\* The control state has its type.
LEMMA ControlTyped ==
    ASSUME Typed
    PROVE  ControlTypeOK
    BY Zenon DEF Typed, TypeOK, RequestsTypeOK

\* A retirement of refresh tokens adds no row and moves none.
LEMMA RetireKeepsTables ==
    ASSUME NEW t, NEW g, Retire(t, g)
    PROVE  UNCHANGED <<refreshes, parentOf, chainOf, joined, createdAt, retries>>
    BY Zenon DEF Retire, RevokeChain, RevokeRefreshesByGrant, refreshVars

\* Neither does a rung of a teardown, and it mints nothing.
LEMMA TeardownKeepsTables ==
    ASSUME NEW r, TeardownStep(r)
    PROVE  UNCHANGED <<refreshes, parentOf, chainOf, joined, createdAt, retries, accessTokens, accessChain, issuedAt>>
<1>1. JwtWrites(r) \/ OpaqueWrites(r) \/ CloseWrites(r) \/ RefreshWrites(r) \/ RungFails(r)
         => UNCHANGED <<refreshes, parentOf, chainOf, joined, createdAt, retries, accessTokens, accessChain, issuedAt>>
    BY StoreAssumption, Zenon DEF JwtWrites, OpaqueWrites, CloseWrites, RefreshWrites, RungFails, RevokeAccess,
       RevokeRefreshesByGrant, Strategies, storeVars, refreshVars, accessVars
<1> QED
    BY <1>1, Zenon DEF TeardownStep, Rung, Settle, DeleteGrant, storeVars, refreshVars, accessVars

-----------------------------------------------------------------------------
(* The steps that go on with what the request carries *)

\* The refresh handler between its exchange and its mint.
LEMMA IssuingPasses ==
    ASSUME Typed, Provenance, NEW r \in Requests, UNCHANGED codeVars,
           Subject(r) \/ Prior(r) \/ CheckClosed(r) \/ RotateNothing(r)
    PROVE  Passes(r)
<1>1. Delivers
    BY NothingSent, Zenon DEF Subject, Prior, CheckClosed, RotateNothing, historyVars
<1>2. SameTables
    BY Zenon DEF Subject, Prior, RevokeAccess, CheckClosed, RotateNothing, SameTables, storeVars, refreshVars,
       accessVars, historyVars
<1>3. UNCHANGED <<now, codeCreatedAt, tok, newAT, newRT, redeemedAt>>
    BY Zenon DEF Subject, Prior, CheckClosed, RotateNothing, requestVars, codeVars
<1>4. (\A s \in Requests \ {r} : pc'[s] = pc[s]) /\ Onward(pc[r], pc'[r])
    BY ControlTyped, Zenon DEF ControlTypeOK, Subject, Prior, CheckClosed, RotateNothing, BeginTeardown, Goto, Onward,
       Ends, Issuing, CodeIssuing
<1> QED
    BY <1>1, <1>2, <1>3, <1>4, Zenon DEF Passes

\* The refusals of the refresh handler, and the start of its cascade.
LEMMA RefusalPasses ==
    ASSUME Typed, Provenance, NEW r \in Requests, UNCHANGED codeVars,
           TxRefuse(r) \/ TxReject(r) \/ RetireReplayed(r)
    PROVE  Passes(r)
<1>1. Delivers
    BY NothingSent, Zenon DEF TxRefuse, TxReject, RetireReplayed, historyVars
<1>2. SameTables
    <2>1. CASE TxRefuse(r) \/ TxReject(r)
        BY <2>1, Zenon DEF TxRefuse, TxReject, SameTables, refreshVars, accessVars, historyVars
    <2>2. CASE RetireReplayed(r)
        BY <2>2, RetireKeepsTables, Zenon DEF RetireReplayed, SameTables, accessVars, historyVars
    <2> QED
        BY <2>1, <2>2, Zenon
<1>3. UNCHANGED <<now, codeCreatedAt, tok, newAT, newRT, redeemedAt>>
    BY Zenon DEF TxRefuse, TxReject, TxOther, RetireReplayed, requestVars, codeVars
<1>4. (\A s \in Requests \ {r} : pc'[s] = pc[s]) /\ Onward(pc[r], pc'[r])
    BY ControlTyped, Zenon DEF ControlTypeOK, TxRefuse, TxReject, RetireReplayed, TxBegin, BeginTeardown, Goto,
       Onward, Ends, Issuing, CodeIssuing
<1> QED
    BY <1>1, <1>2, <1>3, <1>4, Zenon DEF Passes

\* A grace retry replays the sealed response of the token it presents.
LEMMA ReplayPasses ==
    ASSUME Typed, Provenance, NEW r \in Requests, UNCHANGED codeVars, Load(r) \/ TxGraceReplay(r)
    PROVE  Passes(r)
<1>1. Delivers
    <2>1. tok[r] \in Tokens
        BY Zenon DEF Load, TxGraceReplay, TxBegin, Typed, Presented, RefreshLabels
    <2>2. UNCHANGED <<sentAT, sentRT>> \/ Deliver(retries[tok[r]][1], retries[tok[r]][2])
        BY Zenon DEF Load, TxGraceReplay, historyVars
    <2> QED
        BY <2>1, <2>2, SealedIsStored, NothingSent, Zenon DEF Deliver, Delivers, Provenance, Rows, Minted
<1>2. SameTables
    BY Zenon DEF Load, TxGraceReplay, SameTables, storeVars, refreshVars, accessVars, historyVars
<1>3. UNCHANGED <<now, codeCreatedAt, tok, newAT, newRT, redeemedAt>>
    BY Zenon DEF Load, TxGraceReplay, TxOther, requestVars, codeVars
<1>4. (\A s \in Requests \ {r} : pc'[s] = pc[s]) /\ Onward(pc[r], pc'[r])
    BY ControlTyped, Zenon DEF ControlTypeOK, Load, TxGraceReplay, TxBegin, Goto, Onward, Ends, Issuing, CodeIssuing
<1> QED
    BY <1>1, <1>2, <1>3, <1>4, Zenon DEF Passes

\* The revocation endpoints past their start.
LEMMA RevokePasses ==
    ASSUME Typed, Provenance, NEW r \in Requests, UNCHANGED codeVars,
           RevokeRetire(r) \/ RevokeGrant(r) \/ \E a \in sentAT : RevokeOneAccess(r, a)
    PROVE  Passes(r)
<1>1. Delivers
    BY NothingSent, Zenon DEF RevokeRetire, RevokeGrant, RevokeOneAccess, historyVars
<1>2. SameTables
    <2>1. CASE RevokeRetire(r)
        BY <2>1, RetireKeepsTables, Zenon DEF RevokeRetire, SameTables, accessVars, historyVars
    <2>2. CASE RevokeGrant(r) \/ \E a \in sentAT : RevokeOneAccess(r, a)
        BY <2>2, Zenon DEF RevokeGrant, RevokeOneAccess, RevokeAccess, SameTables, storeVars, refreshVars, accessVars,
           historyVars
    <2> QED
        BY <2>1, <2>2, Zenon
<1>3. UNCHANGED <<now, codeCreatedAt, tok, newAT, newRT, redeemedAt>>
    BY Zenon DEF RevokeRetire, RevokeGrant, RevokeOneAccess, requestVars, codeVars
<1>4. (\A s \in Requests \ {r} : pc'[s] = pc[s]) /\ Onward(pc[r], pc'[r])
    BY ControlTyped, Zenon DEF ControlTypeOK, RevokeRetire, RevokeGrant, RevokeOneAccess, BeginTeardown, Goto, Onward,
       Ends, Issuing, CodeIssuing
<1> QED
    BY <1>1, <1>2, <1>3, <1>4, Zenon DEF Passes

\* The teardown.
LEMMA TeardownPasses ==
    ASSUME Typed, Provenance, NEW r \in Requests, TeardownStep(r), UNCHANGED <<requestVars, historyVars, codeVars>>
    PROVE  Passes(r)
<1>1. Delivers
    BY NothingSent, Zenon DEF historyVars
<1>2. SameTables
    BY TeardownKeepsTables, Zenon DEF SameTables, accessVars, historyVars
<1>3. UNCHANGED <<now, codeCreatedAt, tok, newAT, newRT, redeemedAt>>
    BY Zenon DEF TeardownStep, Rung, Settle, DeleteGrant, requestVars, codeVars
<1>4. (\A s \in Requests \ {r} : pc'[s] = pc[s]) /\ Onward(pc[r], pc'[r])
    BY ControlTyped, Zenon DEF ControlTypeOK, TeardownStep, Rung, NextRung, Settle, DeleteGrant, Goto, Onward, Ends,
       Issuing, CodeIssuing
<1> QED
    BY <1>1, <1>2, <1>3, <1>4, Zenon DEF Passes

\* The code handler at its subject check and around a missing refresh token,
\* and the exits.
LEMMA ExitPasses ==
    ASSUME Typed, Provenance, NEW r \in Requests, UNCHANGED codeCreatedAt,
           \/ CodeSubject(r) \/ CodeRefreshWithheld(r) \/ CodeRefreshFails(r)
           \/ Confirm(r) \/ RetireIssuedAT(r) \/ RetireIssuedRT(r) \/ Abort(r)
    PROVE  Passes(r)
<1> USE DEF Typed, TypeOK, RequestsTypeOK, ControlTypeOK
<1>1. UNCHANGED <<now, tok, newAT, newRT, redeemedAt>>
    BY Zenon DEF CodeSubject, CodeRefreshWithheld, CodeRefreshFails, Confirm, RetireIssuedAT, RetireIssuedRT, Abort,
       requestVars
<1>2. SameTables
    BY Zenon DEF CodeSubject, CodeRefreshWithheld, CodeRefreshFails, Confirm, RetireIssuedAT, RetireIssuedRT, Abort,
       RevokeAccess, RevokeChain, SameTables, storeVars, refreshVars, accessVars, historyVars
<1>3. (\A s \in Requests \ {r} : pc'[s] = pc[s]) /\ Onward(pc[r], pc'[r])
    BY Zenon DEF CodeSubject, CodeRefreshWithheld, CodeRefreshFails, Confirm, RetireIssuedAT, RetireIssuedRT, Abort,
       BeginTeardown, Goto, Onward, Ends, Issuing, CodeIssuing
<1>4. Delivers
    <2>1. CASE UNCHANGED <<sentAT, sentRT>>
        BY <2>1, NothingSent, Zenon
    <2>2. CASE Deliver(newAT[r], IF r \in inGrace THEN retries[tok[r]][2] ELSE newRT[r])
        <3>1. r \in inGrace => {retries[tok[r]][2]} \ {NoToken} \subseteq refreshes
            BY SealedIsStored, Zenon DEF Presented
        <3> QED
            BY <2>2, <3>1, Zenon DEF Deliver, Delivers, Provenance, Carries, Rows, Minted
    <2> QED
        BY <2>1, <2>2, Zenon DEF CodeSubject, CodeRefreshWithheld, CodeRefreshFails, Confirm, RetireIssuedAT,
           RetireIssuedRT, Abort, historyVars
<1> QED
    BY <1>1, <1>2, <1>3, <1>4, Zenon DEF Passes

-----------------------------------------------------------------------------
(* The steps that change what the request carries *)

\* A request starts with nothing issued.
LEMMA IdleHasNothing ==
    ASSUME Provenance, NEW r \in Requests, pc[r] \notin Ends \cup {"rotate", "codeRefresh"}
    PROVE  newAT[r] = NoAccess /\ newRT[r] = NoToken
    BY Zenon DEF Provenance, Carries

\* RefreshStart, RevokeStart and CodeStart take up a credential that was sent.
LEMMA StartKeeps ==
    ASSUME Typed, Provenance, NEW r \in Requests,
           \/ UNCHANGED codeVars /\ \E t \in sentRT, f \in Fits : RefreshStart(r, t, f)
           \/ UNCHANGED codeVars /\ \E t \in sentRT, f \in {"ok", "mismatch"} : RevokeStart(r, t, f)
           \/ \E c \in Codes, f \in {"ok", "mismatch"} : CodeStart(r, c, f)
    PROVE  Provenance'
<1> USE DEF Typed, TypeOK, RequestsTypeOK, ControlTypeOK
<1>1. SameTables /\ UNCHANGED <<now, codeCreatedAt, newAT, newRT, redeemedAt, sentAT, sentRT>>
    BY Zenon DEF RefreshStart, RevokeStart, CodeStart, SameTables, storeVars, refreshVars, accessVars, historyVars,
       codeVars
<1>2. Apart(r)
    BY <1>1, Zenon DEF RefreshStart, RevokeStart, CodeStart, Goto, Apart
<1>3. newAT[r] = NoAccess /\ newRT[r] = NoToken
    BY IdleHasNothing, Zenon DEF RefreshStart, RevokeStart, CodeStart, Ends
<1>4. pc'[r] \in {"consume", "revokeRetire", "codeConsume", "done"}
    BY Zenon DEF RefreshStart, RevokeStart, CodeStart, Goto
<1>5. tok'[r] \in sentRT \cup {NoToken} /\ (pc'[r] = "codeConsume" => tok'[r] = NoToken)
    <2>1. pc[r] = "idle" => tok[r] = NoToken
        BY Zenon DEF Provenance, Carries
    <2> QED
        BY <2>1, Zenon DEF RefreshStart, RevokeStart, CodeStart, Goto
<1>6. Carries(r)'
    BY <1>1, <1>3, <1>4, <1>5, Zenon DEF Carries, Ends, Issuing, CodeIssuing
<1> QED
    BY <1>1, <1>2, <1>6, StepKeeps, NothingSent, Zenon

\* The exchange notes the date of the credential it redeems.
LEMMA ExchangeNotes ==
    ASSUME Typed, Provenance, NEW r \in Requests, UNCHANGED codeVars,
           Exchange(r) \/ ExchangeKept(r) \/ Grace(r)
    PROVE  Provenance'
<1> USE DEF Typed, TypeOK, RequestsTypeOK, ControlTypeOK, LocalTypeOK
<1>1. SameTables /\ UNCHANGED <<now, codeCreatedAt, tok, newAT, newRT, sentAT, sentRT>>
    BY Zenon DEF Exchange, ExchangeKept, Grace, SameTables, storeVars, refreshVars, accessVars, historyVars, codeVars
<1>2. Apart(r)
    BY <1>1, Zenon DEF Exchange, ExchangeKept, Grace, Goto, Apart
<1>3. newAT[r] = NoAccess /\ newRT[r] = NoToken
    BY IdleHasNothing, Zenon DEF Exchange, ExchangeKept, Grace, Ends
<1>4. /\ pc'[r] \in {"subject", "grace", "retire", "done"}
      /\ pc'[r] = "subject" => redeemedAt'[r] = createdAt[tok[r]]
    BY Zenon DEF Exchange, ExchangeKept, Grace, Goto
<1>5. pc[r] = "grace" => ~(Transactional /\ Rotation)
    BY Zenon DEF Provenance, Carries
<1>6. pc'[r] \in {"subject", "grace"} => ~(Transactional /\ Rotation)
    BY <1>5, Zenon DEF Exchange, ExchangeKept, Grace
<1>7. tok[r] # NoToken => tok[r] \in sentRT
    BY Zenon DEF Provenance, Carries
<1>8. Carries(r)'
    BY <1>1, <1>3, <1>4, <1>6, <1>7, Zenon DEF Carries, Ends, Issuing, CodeIssuing, SameTables
<1> QED
    BY <1>1, <1>2, <1>8, StepKeeps, NothingSent, Zenon

\* So does Consume of a code.
LEMMA CodeConsumeNotes ==
    ASSUME Typed, Provenance, NEW r \in Requests, CodeConsume(r)
    PROVE  Provenance'
<1> USE DEF Typed, TypeOK, RequestsTypeOK, ControlTypeOK, LocalTypeOK, CodesTypeOK
<1>1. SameTables /\ UNCHANGED <<now, codeCreatedAt, tok, newAT, newRT, sentAT, sentRT>>
    BY Zenon DEF CodeConsume, SameTables, storeVars, refreshVars, accessVars, historyVars
<1>2. Apart(r)
    BY <1>1, Zenon DEF CodeConsume, BeginTeardown, Goto, Apart
<1>3. newAT[r] = NoAccess /\ newRT[r] = NoToken /\ tok[r] = NoToken
    <2>1. pc[r] = "codeConsume"
        BY Zenon DEF CodeConsume
    <2> QED
        BY <2>1, IdleHasNothing, Zenon DEF Ends, Provenance, Carries
<1>4. code[r] \in Codes
    BY Zenon DEF CodeConsume, Presented, CodeLabels
<1>5. /\ pc'[r] \in {"codeSubject", "jwtRung", "done"}
      /\ pc'[r] = "codeSubject" => redeemedAt'[r] = codeCreatedAt[code[r]] /\ codeCreatedAt[code[r]] # 0
    BY Zenon DEF CodeConsume, CanRedeem, FindCode, BeginTeardown, Goto
<1>6. pc'[r] = "codeSubject" => redeemedAt'[r] \in 1 .. now
    BY <1>4, <1>5 DEF Provenance, Dated, StoresTypeOK, Times
<1>7. Carries(r)'
    BY <1>1, <1>3, <1>5, <1>6, Zenon DEF Carries, Ends, Issuing, CodeIssuing
<1> QED
    BY <1>1, <1>2, <1>7, StepKeeps, NothingSent, Zenon

\* A step that mints or saves keeps the provenance of every token when what it
\* adds fits.
LEMMA IssueKeeps ==
    ASSUME Typed, Provenance, NEW r \in Requests, Grows, Apart(r), Carries(r)',
           UNCHANGED <<now, codeCreatedAt, sentAT, sentRT>>,
           \A t \in refreshes' \ refreshes : RowFits(t)',
           \A a \in accessTokens' \ accessTokens : AccessFits(a)',
           \A t \in Tokens : retries'[t] = retries[t] \/ SealFits(t)'
    PROVE  Provenance'
<1>1. \A s \in Requests : Carries(s)'
    BY OthersCarry, Zenon
<1>2. \A t \in refreshes : RowFits(t)'
    BY DEF Provenance, Rows, RowFits, Grows
<1>3. \A t \in Tokens : retries[t] # NoRetry /\ retries'[t] = retries[t] => SealFits(t)'
    BY DEF Provenance, Rows, SealFits, Grows
<1>4. \A a \in accessTokens : AccessFits(a)'
    BY Zenon DEF Provenance, Minted, AccessFits, Grows
<1>5. Rows'
    BY <1>2, <1>3, Zenon DEF Provenance, Rows, Grows
<1>6. Minted' /\ Dated'
    BY <1>4, Zenon DEF Provenance, Minted, Dated, Grows
<1> QED
    BY <1>1, <1>5, <1>6, Zenon DEF Provenance

\* A mint adds one access token, dated by the credential the request redeemed.
LEMMA MintFits ==
    ASSUME Typed, Provenance, NEW r \in Requests, NEW a \in AccessTokens, NEW k, Mint(r, a, k),
           redeemedAt'[r] \in 1 .. now, UNCHANGED now
    PROVE  /\ a \notin accessTokens /\ accessTokens' = accessTokens \cup {a}
           /\ \A b \in accessTokens :
                 accessChain'[b] = accessChain[b] /\ issuedAt'[b] = issuedAt[b] /\ bornOf'[b] = bornOf[b]
           /\ accessChain'[a] = k /\ bornOf'[a] = redeemedAt'[r]
           /\ newAT'[r] = a /\ \A s \in Requests \ {r} : newAT'[s] = newAT[s]
           /\ AccessFits(a)'
<1> USE DEF Typed, TypeOK, StoresTypeOK, AccessTypeOK, RequestsTypeOK, LocalTypeOK, HistoryTypeOK
<1>1. now \in Nat
    BY StoreAssumption DEF Times
<1> QED
    BY <1>1 DEF Mint, MintAccess, AccessFits

\* What Persist does, whether or not the chain joined the grant.
Adds(r, t, p, k, sealed) ==
    /\ t \notin refreshes
    /\ refreshes' = refreshes \cup {t}
    /\ parentOf' = [parentOf EXCEPT ![t] = p]
    /\ chainOf' = [chainOf EXCEPT ![t] = k]
    /\ createdAt' = [createdAt EXCEPT ![t] = now]
    /\ retries' = IF sealed = NoRetry THEN retries ELSE [retries EXCEPT ![p] = sealed]
    /\ newRT' = [newRT EXCEPT ![r] = t]
    /\ bornRT' = [bornRT EXCEPT ![t] = redeemedAt'[r]]

\* A save adds one row, dated likewise, and seals the response under its parent.
LEMMA PersistFits ==
    ASSUME Typed, Provenance, NEW r \in Requests, NEW t \in Tokens, NEW p \in Tokens \cup {NoToken}, NEW k,
           NEW sealed, Adds(r, t, p, k, sealed), redeemedAt'[r] \in 1 .. now, UNCHANGED now,
           p # NoToken => p \in refreshes /\ redeemedAt'[r] = createdAt[p] /\ k = chainOf[p]
    PROVE  /\ t \notin refreshes /\ refreshes' = refreshes \cup {t}
           /\ \A u \in refreshes : /\ parentOf'[u] = parentOf[u] /\ chainOf'[u] = chainOf[u]
                                    /\ createdAt'[u] = createdAt[u] /\ bornRT'[u] = bornRT[u]
           /\ parentOf'[t] = p /\ chainOf'[t] = k /\ bornRT'[t] = redeemedAt'[r]
           /\ newRT'[r] = t /\ \A s \in Requests \ {r} : newRT'[s] = newRT[s]
           /\ RowFits(t)'
           /\ \A u \in Tokens : retries'[u] = retries[u] \/ (u = p /\ sealed # NoRetry /\ retries'[u] = sealed)
<1> USE DEF Typed, TypeOK, StoresTypeOK, RefreshesTypeOK, RequestsTypeOK, LocalTypeOK, HistoryTypeOK
<1>1. now \in Nat
    BY StoreAssumption DEF Times
<1>2. /\ t \notin refreshes /\ refreshes' = refreshes \cup {t}
      /\ \A u \in Tokens \ {t} : /\ parentOf'[u] = parentOf[u] /\ chainOf'[u] = chainOf[u]
                                  /\ createdAt'[u] = createdAt[u] /\ bornRT'[u] = bornRT[u]
      /\ parentOf'[t] = p /\ chainOf'[t] = k /\ createdAt'[t] = now /\ bornRT'[t] = redeemedAt'[r]
      /\ newRT'[r] = t /\ \A s \in Requests \ {r} : newRT'[s] = newRT[s]
    BY Zenon DEF Adds
<1>3. RowFits(t)'
    BY <1>1, <1>2 DEF RowFits
<1>4. \A u \in Tokens : retries'[u] = retries[u] \/ (u = p /\ sealed # NoRetry /\ retries'[u] = sealed)
    BY Zenon DEF Adds
<1> QED
    BY <1>2, <1>3, <1>4, Zenon

\* A request that is issuing holds the date of its token.
LEMMA IssuingDate ==
    ASSUME Typed, Provenance, NEW r \in Requests, pc[r] \in Issuing \cup {"consume"}
    PROVE  /\ tok[r] \in sentRT /\ tok[r] \in refreshes /\ tok[r] \in Tokens /\ tok[r] # NoToken
           /\ createdAt[tok[r]] \in 1 .. now
           /\ pc[r] \in Issuing => redeemedAt[r] = createdAt[tok[r]]
<1>1. tok[r] \in Tokens /\ tok[r] # NoToken
    BY StoreAssumption, Zenon DEF Typed, Presented, Issuing, RefreshLabels
<1>2. Carries(r) /\ sentRT \subseteq refreshes
    BY Zenon DEF Provenance, Rows
<1>3. tok[r] \in sentRT /\ tok[r] \in refreshes
    BY <1>1, <1>2, Zenon DEF Carries
<1>4. createdAt[tok[r]] \in 1 .. now
    BY <1>1, <1>3, StoreAssumption DEF Provenance, Rows, RowFits, Typed, TypeOK, StoresTypeOK, RefreshesTypeOK,
       RequestsTypeOK, HistoryTypeOK, Times
<1> QED
    BY <1>1, <1>2, <1>3, <1>4, Zenon DEF Carries

\* The mint of the refresh handler.
LEMMA MintStepIssues ==
    ASSUME Typed, Provenance, NEW r \in Requests, NEW a \in AccessTokens, MintStep(r, a), UNCHANGED codeVars
    PROVE  Provenance'
<1>1. pc[r] = "mint" /\ Mint(r, a, chainOf[tok[r]]) /\ UNCHANGED <<now, tok, redeemedAt, newRT, sentAT, sentRT>>
    BY Zenon DEF MintStep
<1>2. UNCHANGED <<refreshes, parentOf, chainOf, createdAt, retries, bornRT, codeCreatedAt>>
    BY Zenon DEF MintStep, refreshVars, codeVars
<1>3. /\ tok[r] \in sentRT /\ redeemedAt[r] = createdAt[tok[r]] /\ redeemedAt[r] \in 1 .. now
      /\ newRT[r] = NoToken
    BY <1>1, IssuingDate, IdleHasNothing, Zenon DEF Issuing, Ends
<1>4. /\ pc'[r] \in {"confirm", "rotate"} /\ (pc'[r] = "rotate" => Rotation /\ ~Transactional)
      /\ \A s \in Requests \ {r} : pc'[s] = pc[s]
    <2>1. ~(Transactional /\ Rotation)
        BY <1>1, Zenon DEF Provenance, Carries, Issuing
    <2> QED
        BY <2>1, ControlTyped, Zenon DEF ControlTypeOK, MintStep, Goto
<1>5. /\ a \notin accessTokens /\ accessTokens' = accessTokens \cup {a}
      /\ \A b \in accessTokens :
            accessChain'[b] = accessChain[b] /\ issuedAt'[b] = issuedAt[b] /\ bornOf'[b] = bornOf[b]
      /\ accessChain'[a] = chainOf[tok[r]] /\ bornOf'[a] = redeemedAt'[r]
      /\ newAT'[r] = a /\ \A s \in Requests \ {r} : newAT'[s] = newAT[s]
      /\ AccessFits(a)'
    BY <1>1, <1>3, MintFits, Zenon
<1>6. Grows /\ Apart(r)
    BY <1>1, <1>2, <1>4, <1>5, Zenon DEF Grows, Apart
<1>7. Carries(r)'
    BY <1>1, <1>2, <1>3, <1>4, <1>5, StoreAssumption, Zenon DEF Carries, Ends, Issuing, CodeIssuing
<1> QED
    BY <1>1, <1>2, <1>5, <1>6, <1>7, IssueKeeps, Zenon

\* The mint of a transaction that saves no successor.
LEMMA TxMintIssues ==
    ASSUME Typed, Provenance, NEW r \in Requests, NEW a \in AccessTokens, UNCHANGED codeVars,
           TxRotateNothing(r, a) \/ TxGraceRemint(r, a)
    PROVE  Provenance'
<1>1. pc[r] = "consume" /\ Mint(r, a, chainOf[tok[r]]) /\ UNCHANGED <<now, tok, newRT, sentAT, sentRT>>
    BY Zenon DEF TxRotateNothing, TxGraceRemint, TxBegin, TxOther
<1>2. UNCHANGED <<refreshes, parentOf, chainOf, createdAt, retries, bornRT, codeCreatedAt>>
    BY Zenon DEF TxRotateNothing, TxGraceRemint, refreshVars, codeVars
<1>3. tok[r] \in sentRT /\ createdAt[tok[r]] \in 1 .. now /\ newRT[r] = NoToken
    BY <1>1, IssuingDate, IdleHasNothing, Zenon DEF Issuing, Ends
<1>4. /\ pc'[r] = "confirm" /\ redeemedAt'[r] = createdAt[tok[r]]
      /\ \A s \in Requests \ {r} : pc'[s] = pc[s] /\ redeemedAt'[s] = redeemedAt[s]
    BY Zenon DEF Typed, TypeOK, RequestsTypeOK, ControlTypeOK, LocalTypeOK, TxRotateNothing, TxGraceRemint,
       RedeemedAt, Goto
<1>5. /\ a \notin accessTokens /\ accessTokens' = accessTokens \cup {a}
      /\ \A b \in accessTokens :
            accessChain'[b] = accessChain[b] /\ issuedAt'[b] = issuedAt[b] /\ bornOf'[b] = bornOf[b]
      /\ accessChain'[a] = chainOf[tok[r]] /\ bornOf'[a] = redeemedAt'[r]
      /\ newAT'[r] = a /\ \A s \in Requests \ {r} : newAT'[s] = newAT[s]
      /\ AccessFits(a)'
    BY <1>1, <1>3, <1>4, MintFits, Zenon
<1>6. Grows /\ Apart(r)
    BY <1>1, <1>2, <1>4, <1>5, Zenon DEF Grows, Apart
<1>7. Carries(r)'
    BY <1>1, <1>2, <1>3, <1>4, <1>5, StoreAssumption, Zenon DEF Carries, Ends, Issuing, CodeIssuing
<1> QED
    BY <1>1, <1>2, <1>5, <1>6, <1>7, IssueKeeps, Zenon

\* The mint of the code handler, on a new chain.
LEMMA CodeMintIssues ==
    ASSUME Typed, Provenance, NEW r \in Requests, NEW a \in AccessTokens, NEW k \in Chains, CodeMint(r, a, k)
    PROVE  Provenance'
<1>1. pc[r] = "codeMint" /\ Mint(r, a, k) /\ UNCHANGED <<now, tok, redeemedAt, newRT, sentAT, sentRT>>
    BY Zenon DEF CodeMint
<1>2. UNCHANGED <<refreshes, parentOf, chainOf, createdAt, retries, bornRT, codeCreatedAt>>
    BY Zenon DEF CodeMint, refreshVars
<1>3. tok[r] = NoToken /\ redeemedAt[r] \in 1 .. now /\ newRT[r] = NoToken
    BY <1>1, IdleHasNothing, Zenon DEF Provenance, Carries, CodeIssuing, Ends
<1>4. pc'[r] = "codeRefresh" /\ \A s \in Requests \ {r} : pc'[s] = pc[s]
    BY ControlTyped, Zenon DEF ControlTypeOK, CodeMint, Goto
<1>5. /\ a \notin accessTokens /\ accessTokens' = accessTokens \cup {a}
      /\ \A b \in accessTokens :
            accessChain'[b] = accessChain[b] /\ issuedAt'[b] = issuedAt[b] /\ bornOf'[b] = bornOf[b]
      /\ bornOf'[a] = redeemedAt'[r]
      /\ newAT'[r] = a /\ \A s \in Requests \ {r} : newAT'[s] = newAT[s]
      /\ AccessFits(a)'
    BY <1>1, <1>3, MintFits, Zenon
<1>6. Grows /\ Apart(r)
    BY <1>1, <1>2, <1>4, <1>5, Zenon DEF Grows, Apart
<1>7. Carries(r)'
    BY <1>1, <1>3, <1>4, <1>5, StoreAssumption, Zenon DEF Carries, Ends, Issuing, CodeIssuing
<1> QED
    BY <1>1, <1>2, <1>5, <1>6, <1>7, IssueKeeps, Zenon

\* rotateRefreshToken saves the successor, or nothing under a revoked parent.
LEMMA RotateIssues ==
    ASSUME Typed, Provenance, NEW r \in Requests, NEW t \in Tokens, Rotate(r, t), UNCHANGED codeVars
    PROVE  Provenance'
<1>1. /\ pc[r] = "rotate"
      /\ UNCHANGED <<now, codeCreatedAt, tok, newAT, redeemedAt, accessTokens, accessChain, issuedAt, sentAT, sentRT,
                     bornOf>>
    BY Zenon DEF Rotate, accessVars, codeVars
<1>2. \A s \in Requests \ {r} : pc'[s] = pc[s]
    BY ControlTyped, Zenon DEF ControlTypeOK, Rotate, Goto
<1>3. CASE ~ParentAlive(tok[r])
    <2>1. UNCHANGED <<refreshes, parentOf, chainOf, createdAt, retries, newRT, bornRT>> /\ pc'[r] = "done"
        BY <1>3, ControlTyped, Zenon DEF ControlTypeOK, Rotate, Goto
    <2>2. Passes(r)
        BY <1>1, <1>2, <2>1, NothingSent, Zenon DEF Passes, SameTables, Onward, Ends, Issuing, CodeIssuing
    <2> QED
        BY <2>2, PassesKeeps, Zenon
<1>4. CASE ParentAlive(tok[r])
    <2>1. /\ Adds(r, t, tok[r], chainOf[tok[r]], Sealed(newAT[r], t))
          /\ pc'[r] = "confirm"
        BY <1>4, ControlTyped, Zenon DEF ControlTypeOK, Rotate, Goto, Persist, SaveRefresh, Adds
    <2>2. /\ tok[r] \in sentRT /\ tok[r] \in refreshes /\ tok[r] \in Tokens /\ redeemedAt[r] = createdAt[tok[r]]
          /\ redeemedAt[r] \in 1 .. now
        BY <1>1, IssuingDate, Zenon DEF Issuing
    <2>3. newAT[r] \in accessTokens /\ accessChain[newAT[r]] = chainOf[tok[r]] /\ bornOf[newAT[r]] = redeemedAt[r]
        BY <1>1, <2>2, StoreAssumption, Zenon DEF Provenance, Carries, Typed, TypeOK, StoresTypeOK, RefreshesTypeOK
    <2>4. /\ t \notin refreshes /\ refreshes' = refreshes \cup {t}
          /\ \A u \in refreshes : /\ parentOf'[u] = parentOf[u] /\ chainOf'[u] = chainOf[u]
                                   /\ createdAt'[u] = createdAt[u] /\ bornRT'[u] = bornRT[u]
          /\ parentOf'[t] = tok[r] /\ chainOf'[t] = chainOf[tok[r]] /\ bornRT'[t] = redeemedAt'[r]
          /\ newRT'[r] = t /\ \A s \in Requests \ {r} : newRT'[s] = newRT[s]
          /\ RowFits(t)'
          /\ \A u \in Tokens : \/ retries'[u] = retries[u]
                               \/ /\ u = tok[r] /\ Sealed(newAT[r], t) # NoRetry
                                  /\ retries'[u] = Sealed(newAT[r], t)
        BY <1>1, <2>1, <2>2, PersistFits
    <2>5. Grows /\ Apart(r)
        BY <1>1, <1>2, <2>4, Zenon DEF Grows, Apart
    <2>6. Carries(r)'
        BY <1>1, <2>1, <2>2, <2>3, <2>4, Zenon DEF Carries, Ends, Issuing, CodeIssuing
    <2>7. \A u \in Tokens : retries'[u] = retries[u] \/ SealFits(u)'
        BY <1>1, <2>2, <2>3, <2>4 DEF Sealed, SealFits
    <2> QED
        BY <1>1, <2>4, <2>5, <2>6, <2>7, IssueKeeps, Zenon
<1> QED
    BY <1>3, <1>4, Zenon

\* The first refresh token of a chain a code opened.
LEMMA CodeRefreshIssues ==
    ASSUME Typed, Provenance, NEW r \in Requests, NEW t \in Tokens, CodeRefresh(r, t)
    PROVE  Provenance'
<1>1. /\ pc[r] = "codeRefresh" /\ Adds(r, t, NoToken, accessChain[newAT[r]], NoRetry)
      /\ UNCHANGED <<now, codeCreatedAt, tok, newAT, redeemedAt, accessTokens, accessChain, issuedAt, sentAT, sentRT,
                     bornOf>>
    BY Zenon DEF CodeRefresh, Persist, SaveRefresh, Adds, accessVars, codeVars
<1>2. pc'[r] = "confirm" /\ \A s \in Requests \ {r} : pc'[s] = pc[s]
    BY ControlTyped, Zenon DEF ControlTypeOK, CodeRefresh, Goto
<1>3. /\ tok[r] = NoToken /\ redeemedAt[r] \in 1 .. now
      /\ newAT[r] # NoAccess => newAT[r] \in accessTokens /\ bornOf[newAT[r]] = redeemedAt[r]
    BY <1>1, Zenon DEF Provenance, Carries, CodeIssuing
<1>4. /\ t \notin refreshes /\ refreshes' = refreshes \cup {t}
      /\ \A u \in refreshes : /\ parentOf'[u] = parentOf[u] /\ chainOf'[u] = chainOf[u]
                               /\ createdAt'[u] = createdAt[u] /\ bornRT'[u] = bornRT[u]
      /\ bornRT'[t] = redeemedAt'[r]
      /\ newRT'[r] = t /\ \A s \in Requests \ {r} : newRT'[s] = newRT[s]
      /\ RowFits(t)'
      /\ \A u \in Tokens : retries'[u] = retries[u]
    BY <1>1, <1>3, PersistFits
<1>5. Grows /\ Apart(r)
    BY <1>1, <1>2, <1>4, Zenon DEF Grows, Apart
<1>6. Carries(r)'
    BY <1>1, <1>2, <1>3, <1>4, Zenon DEF Carries, Ends, Issuing, CodeIssuing
<1> QED
    BY <1>1, <1>4, <1>5, <1>6, IssueKeeps, Zenon

\* The transaction of a first use: mint and save together.
LEMMA TxRotateIssues ==
    ASSUME Typed, Provenance, NEW r \in Requests, NEW a \in AccessTokens, NEW t \in Tokens, TxRotate(r, a, t),
           UNCHANGED codeVars
    PROVE  Provenance'
<1>1. /\ pc[r] = "consume" /\ Mint(r, a, chainOf[tok[r]])
      /\ Adds(r, t, tok[r], chainOf[tok[r]], Sealed(a, t))
      /\ UNCHANGED <<now, codeCreatedAt, tok, sentAT, sentRT>>
    BY Zenon DEF TxRotate, TxBegin, TxOther, Persist, SaveRefresh, Adds, codeVars
<1>2. /\ tok[r] \in sentRT /\ tok[r] \in refreshes /\ tok[r] \in Tokens /\ createdAt[tok[r]] \in 1 .. now
    BY <1>1, IssuingDate, Zenon
<1>3. /\ pc'[r] = "confirm" /\ redeemedAt'[r] = createdAt[tok[r]]
      /\ \A s \in Requests \ {r} : pc'[s] = pc[s] /\ redeemedAt'[s] = redeemedAt[s]
    BY Zenon DEF Typed, TypeOK, RequestsTypeOK, ControlTypeOK, LocalTypeOK, TxRotate, RedeemedAt, Goto
<1>4. /\ a \notin accessTokens /\ accessTokens' = accessTokens \cup {a}
      /\ \A b \in accessTokens :
            accessChain'[b] = accessChain[b] /\ issuedAt'[b] = issuedAt[b] /\ bornOf'[b] = bornOf[b]
      /\ accessChain'[a] = chainOf[tok[r]] /\ bornOf'[a] = redeemedAt'[r]
      /\ newAT'[r] = a /\ \A s \in Requests \ {r} : newAT'[s] = newAT[s]
      /\ AccessFits(a)'
    BY <1>1, <1>2, <1>3, MintFits, Zenon
<1>5. /\ t \notin refreshes /\ refreshes' = refreshes \cup {t}
      /\ \A u \in refreshes : /\ parentOf'[u] = parentOf[u] /\ chainOf'[u] = chainOf[u]
                               /\ createdAt'[u] = createdAt[u] /\ bornRT'[u] = bornRT[u]
      /\ parentOf'[t] = tok[r] /\ chainOf'[t] = chainOf[tok[r]] /\ bornRT'[t] = redeemedAt'[r]
      /\ newRT'[r] = t /\ \A s \in Requests \ {r} : newRT'[s] = newRT[s]
      /\ RowFits(t)'
      /\ \A u \in Tokens : \/ retries'[u] = retries[u]
                           \/ u = tok[r] /\ Sealed(a, t) # NoRetry /\ retries'[u] = Sealed(a, t)
    BY <1>1, <1>2, <1>3, PersistFits
<1>6. Grows /\ Apart(r)
    BY <1>1, <1>3, <1>4, <1>5, Zenon DEF Grows, Apart
<1>7. Carries(r)'
    BY <1>1, <1>2, <1>3, <1>4, <1>5, Zenon DEF Carries, Ends, Issuing, CodeIssuing
<1>8. \A u \in Tokens : retries'[u] = retries[u] \/ SealFits(u)'
    BY <1>2, <1>4, <1>5 DEF Sealed, SealFits
<1> QED
    BY <1>1, <1>4, <1>5, <1>6, <1>7, <1>8, IssueKeeps, Zenon

-----------------------------------------------------------------------------
(* Provenance always holds *)

\* The grant starts with its roots, and nothing is in flight.
LEMMA InitProvenance == Init => Provenance
<1> SUFFICES ASSUME Init PROVE Provenance
    BY Zenon
<1>1. \A r \in Requests : pc[r] = "idle" /\ tok[r] = NoToken /\ newAT[r] = NoAccess /\ newRT[r] = NoToken
    BY Zenon DEF Init, RequestsInit
<1>2. \A r \in Requests : Carries(r)
    BY <1>1, Zenon DEF Carries, Issuing, CodeIssuing
<1>3. refreshes = Roots /\ sentRT = Roots /\ Roots \subseteq Tokens /\ now = 1
    BY RootsAssumption, Zenon DEF Init, StoresInit, RequestsInit
<1>4. /\ \A t \in Tokens : parentOf[t] = NoToken /\ retries[t] = NoRetry
      /\ \A t \in Roots : createdAt[t] = 1 /\ bornRT[t] = 1
    BY <1>3, Zenon DEF Init, StoresInit, RequestsInit
<1>5. Rows
    BY <1>3, <1>4 DEF Rows, RowFits
<1>6. Minted
    BY Zenon DEF Init, StoresInit, RequestsInit, Minted
<1>7. Dated
    BY <1>3 DEF Init, CodesInit, Dated
<1> QED
    BY <1>2, <1>5, <1>6, <1>7, Zenon DEF Provenance

\* The steps no request takes: only the clock and the dates of codes move.
LEMMA WorldProvenance ==
    ASSUME Typed, Provenance, Clock \/ Deprovision \/ (\E c \in Codes : IssueCode(c)) \/ UNCHANGED vars
    PROVE  Provenance'
<1> USE DEF Typed, TypeOK, StoresTypeOK, RefreshesTypeOK, AccessTypeOK, RequestsTypeOK, LocalTypeOK, HistoryTypeOK,
       CodesTypeOK, Times
<1>1. /\ UNCHANGED <<refreshes, parentOf, chainOf, createdAt, retries, accessTokens, accessChain, issuedAt, pc, tok>>
      /\ UNCHANGED <<newAT, newRT, redeemedAt, sentAT, sentRT, bornOf, bornRT>>
    BY Zenon DEF Clock, Tick, Deprovision, IssueCode, vars, issuanceVars, storeVars, refreshVars, accessVars,
       requestVars, historyVars
<1>2. now \in Nat /\ now' \in Nat /\ now <= now'
    BY StoreAssumption DEF Clock, Tick, Deprovision, IssueCode, vars, issuanceVars
<1>3. \A c \in Codes : codeCreatedAt'[c] = codeCreatedAt[c] \/ codeCreatedAt'[c] = now
    BY Zenon DEF Clock, Deprovision, IssueCode, vars, codeVars
<1>4. \A r \in Requests : Carries(r)'
    BY <1>1, <1>2 DEF Provenance, Carries
<1>5. Rows'
    BY <1>1, <1>2 DEF Provenance, Rows, RowFits, SealFits
<1>6. Minted'
    BY <1>1, <1>2 DEF Provenance, Minted, AccessFits
<1>7. Dated'
    BY <1>2, <1>3 DEF Provenance, Dated
<1> QED
    BY <1>4, <1>5, <1>6, <1>7, Zenon DEF Provenance

\* Every step of a request keeps the provenance of every token.
LEMMA HandleProvenance ==
    ASSUME Typed, Provenance, NEW r \in Requests, Handle(r) \/ (Abort(r) /\ UNCHANGED codeVars)
    PROVE  Provenance'
<1>1. CASE CodeStep(r)
    <2>1. CASE CodeSubject(r) \/ CodeRefreshWithheld(r) \/ CodeRefreshFails(r)
        BY <2>1, ExitPasses, PassesKeeps, Zenon DEF CodeSubject, CodeRefreshWithheld, CodeRefreshFails, codeVars
    <2> QED
        BY <1>1, <2>1, StartKeeps, CodeConsumeNotes, CodeMintIssues, CodeRefreshIssues, Zenon DEF CodeStep
<1>2. CASE RefreshStep(r) /\ UNCHANGED codeVars
    BY <1>2, StartKeeps, ExchangeNotes, IssuingPasses, RefusalPasses, ReplayPasses, PassesKeeps, MintStepIssues,
       RotateIssues, TxRotateIssues, TxMintIssues, Zenon DEF RefreshStep
<1>3. CASE RevokeStep(r) /\ UNCHANGED codeVars
    BY <1>3, StartKeeps, RevokePasses, PassesKeeps, Zenon DEF RevokeStep
<1>4. CASE (Confirm(r) \/ RetireIssuedAT(r) \/ RetireIssuedRT(r) \/ Abort(r)) /\ UNCHANGED codeVars
    BY <1>4, ExitPasses, PassesKeeps, Zenon DEF codeVars
<1>5. CASE TeardownStep(r) /\ UNCHANGED <<requestVars, subjectLive, historyVars, codeVars>>
    BY <1>5, TeardownPasses, PassesKeeps, Zenon
<1> QED
    BY <1>1, <1>2, <1>3, <1>4, <1>5, Zenon DEF Handle

\* Every step of the service keeps every provenance.
LEMMA NextProvenance ==
    ASSUME Typed, Provenance, [Next]_vars
    PROVE  Provenance'
    BY WorldProvenance, HandleProvenance, Zenon DEF Next, Rest

-----------------------------------------------------------------------------
(* The redemption of a code *)

\* A step that neither starts nor ends a redemption.
RedeemKept(r) ==
    /\ codeConsumedAt' = codeConsumedAt /\ redeemed' = redeemed
    /\ \A s \in Requests \ {r} : pc'[s] = pc[s] /\ code'[s] = code[s]
    /\ Redeeming(r)' => Redeeming(r) /\ code'[r] = code[r]

\* Such a step keeps the invariant.
LEMMA RedeemKeptInv ==
    ASSUME RedeemInv, NEW r \in Requests, RedeemKept(r)
    PROVE  RedeemInv'
<1>1. \A s \in Requests : Redeeming(s)' => Redeeming(s) /\ code'[s] = code[s]
    BY Zenon DEF RedeemKept, Redeeming
<1> QED
    BY <1>1, Zenon DEF RedeemKept, RedeemInv, CodeRedeemedOnce

\* The code handler: Consume lets one request through, and the mint counts it.
LEMMA CodeStepRedeems ==
    ASSUME Typed, RedeemInv, NEW r \in Requests, CodeStep(r)
    PROVE  RedeemInv'
<1> USE DEF Typed, TypeOK, RequestsTypeOK, ControlTypeOK, CodesTypeOK
<1>1. ASSUME NEW c \in Codes, NEW f \in {"ok", "mismatch"}, CodeStart(r, c, f) PROVE RedeemInv'
    <2>1. RedeemKept(r)
        BY <1>1, Zenon DEF CodeStart, Goto, RedeemKept, Redeeming
    <2> QED
        BY <2>1, RedeemKeptInv, Zenon
<1>2. CASE CodeConsume(r)
    <2>1. code[r] \in Codes /\ now \in Times /\ now # 0
        BY <1>2, Zenon DEF CodeConsume, Presented, CodeLabels, StoresTypeOK
    <2>2. CASE CanRedeem(code[r])
        <3>1. /\ codeConsumedAt' = [codeConsumedAt EXCEPT ![code[r]] = now]
              /\ redeemed' = redeemed /\ code' = code
              /\ \A s \in Requests \ {r} : pc'[s] = pc[s]
            BY <1>2, <2>2, Zenon DEF CodeConsume, Goto
        <3>2. codeConsumedAt[code[r]] = 0
            BY <2>2, Zenon DEF CanRedeem
        <3>3. \A s \in Requests \ {r} : Redeeming(s)' => Redeeming(s) /\ code[s] # code[r]
            BY <3>1, <3>2, Zenon DEF Redeeming, RedeemInv
        <3>4. redeemed[code[r]] = 0
            BY <2>1, <3>2, Zenon DEF RedeemInv
        <3>5. \A c \in Codes : codeConsumedAt[c] # 0 => codeConsumedAt'[c] # 0
            BY <2>1, <3>1, Zenon
        <3>6. codeConsumedAt'[code[r]] # 0
            BY <2>1, <3>1, Zenon
        <3>7. \A s \in Requests : Redeeming(s)' => codeConsumedAt'[code[s]] # 0 /\ redeemed[code[s]] = 0
            <4> SUFFICES ASSUME NEW s \in Requests, s # r, Redeeming(s)'
                         PROVE  codeConsumedAt'[code[s]] # 0 /\ redeemed[code[s]] = 0
                BY <3>4, <3>6, Zenon
            <4>1. code[s] \in Codes /\ codeConsumedAt[code[s]] # 0 /\ redeemed[code[s]] = 0
                BY <3>3, Zenon DEF RedeemInv, Presented, Redeeming, CodeLabels
            <4> QED
                BY <3>5, <4>1, Zenon
        <3> QED
            BY <3>1, <3>3, <3>5, <3>7, Zenon DEF RedeemInv, CodeRedeemedOnce
    <2>3. CASE ~CanRedeem(code[r])
        <3>1. RedeemKept(r)
            BY <1>2, <2>3, Zenon DEF CodeConsume, BeginTeardown, Goto, RedeemKept, Redeeming
        <3> QED
            BY <3>1, RedeemKeptInv, Zenon
    <2> QED
        BY <2>2, <2>3, Zenon
<1>3. CASE CodeSubject(r)
    <2>1. RedeemKept(r)
        BY <1>3, Zenon DEF CodeSubject, BeginTeardown, Goto, RedeemKept, Redeeming, codeVars
    <2> QED
        BY <2>1, RedeemKeptInv, Zenon
<1>4. ASSUME NEW a \in AccessTokens, NEW k \in Chains, CodeMint(r, a, k) PROVE RedeemInv'
    <2>1. code[r] \in Codes /\ Redeeming(r)
        BY <1>4, Zenon DEF CodeMint, Presented, CodeLabels, Redeeming
    <2>2. /\ redeemed' = [redeemed EXCEPT ![code[r]] = redeemed[code[r]] + 1]
          /\ codeConsumedAt' = codeConsumedAt /\ code' = code
          /\ \A s \in Requests \ {r} : pc'[s] = pc[s]
          /\ ~Redeeming(r)'
        BY <1>4, Zenon DEF CodeMint, Goto, Redeeming
    <2>3. \A s \in Requests : Redeeming(s)' => s # r /\ Redeeming(s) /\ code[s] # code[r]
        BY <2>1, <2>2, Zenon DEF Redeeming, RedeemInv
    <2>4. redeemed[code[r]] = 0 /\ codeConsumedAt[code[r]] # 0
        BY <2>1, Zenon DEF RedeemInv
    <2>5. \A c \in Codes : redeemed'[c] = IF c = code[r] THEN 1 ELSE redeemed[c]
        BY <2>1, <2>2, <2>4
    <2>6. \A s \in Requests : Redeeming(s)' => code[s] \in Codes
        BY <2>3, Zenon DEF Presented, Redeeming, CodeLabels
    <2> QED
        BY <2>2, <2>3, <2>4, <2>5, <2>6 DEF RedeemInv, CodeRedeemedOnce
<1>5. ASSUME \/ \E t \in Tokens : CodeRefresh(r, t)
             \/ CodeRefreshWithheld(r) \/ CodeRefreshFails(r)
      PROVE  RedeemInv'
    <2>1. RedeemKept(r)
        BY <1>5, Zenon DEF CodeRefresh, CodeRefreshWithheld, CodeRefreshFails, Goto, RedeemKept, Redeeming, codeVars
    <2> QED
        BY <2>1, RedeemKeptInv, Zenon
<1> QED
    BY <1>1, <1>2, <1>3, <1>4, <1>5, Zenon DEF CodeStep

\* A request that moves to any other label leaves the redemptions alone.
LEMMA Entered ==
    ASSUME Typed, RedeemInv, NEW r \in Requests, UNCHANGED codeVars,
           NEW l, l \notin {"codeSubject", "codeMint"}, Goto(r, l)
    PROVE  RedeemInv'
<1>1. RedeemKept(r)
    BY Zenon DEF Goto, RedeemKept, Redeeming, codeVars, Typed, TypeOK, RequestsTypeOK, ControlTypeOK
<1> QED
    BY <1>1, RedeemKeptInv, Zenon

\* Nothing else enters a redemption.
LEMMA OtherStepRedeems ==
    ASSUME Typed, RedeemInv, NEW r \in Requests, UNCHANGED codeVars,
           \/ RefreshStep(r) \/ RevokeStep(r) \/ TeardownStep(r)
           \/ Confirm(r) \/ RetireIssuedAT(r) \/ RetireIssuedRT(r) \/ Abort(r)
    PROVE  RedeemInv'
<1> DEFINE Leaves == \E l : l \notin {"codeSubject", "codeMint"} /\ Goto(r, l)
<1>1. CASE RefreshStep(r)
    <2>1. /\ \A t \in sentRT, f \in Fits : RefreshStart(r, t, f) => Leaves
          /\ Exchange(r) \/ ExchangeKept(r) \/ Grace(r) => Leaves
          /\ Subject(r) => Leaves
          /\ Load(r) \/ Prior(r) \/ CheckClosed(r) => Leaves
        BY Zenon DEF RefreshStart, Exchange, ExchangeKept, Grace, Subject, BeginTeardown, Load, Prior, CheckClosed
    <2>2. /\ \A a \in AccessTokens : MintStep(r, a) => Leaves
          /\ \A t \in Tokens : Rotate(r, t) => Leaves
          /\ RotateNothing(r) => Leaves
          /\ \A a \in AccessTokens, t \in Tokens : TxRotate(r, a, t) => Leaves
          /\ \A a \in AccessTokens : TxRotateNothing(r, a) => Leaves
        BY Zenon DEF MintStep, Rotate, RotateNothing, TxRotate, TxRotateNothing
    <2>3. /\ TxRefuse(r) => Leaves
          /\ TxGraceReplay(r) => Leaves
          /\ \A a \in AccessTokens : TxGraceRemint(r, a) => Leaves
          /\ TxReject(r) => Leaves
          /\ RetireReplayed(r) => Leaves
        BY Zenon DEF TxRefuse, TxGraceReplay, TxGraceRemint, TxReject, RetireReplayed, BeginTeardown
    <2> HIDE DEF Leaves
    <2>4. Leaves
        BY <1>1, <2>1, <2>2, <2>3, Zenon DEF RefreshStep
    <2> QED
        BY <2>4, Entered, Zenon DEF Leaves
<1>2. CASE RevokeStep(r)
    <2>1. Leaves
        BY <1>2, Zenon DEF RevokeStep, RevokeStart, RevokeRetire, RevokeOneAccess, RevokeGrant, BeginTeardown
    <2> QED
        BY <2>1, Entered, Zenon
<1>3. CASE TeardownStep(r)
    <2>1. \A rung \in {"jwtRung", "opaqueRung", "closeRung", "refreshRung"} :
             NextRung(scope[r], rung) \notin {"codeSubject", "codeMint"}
        BY Zenon DEF NextRung
    <2>2. Leaves
        BY <1>3, <2>1, Zenon DEF TeardownStep, Rung, Settle, DeleteGrant
    <2> QED
        BY <2>2, Entered, Zenon
<1>4. CASE Confirm(r) \/ RetireIssuedAT(r) \/ RetireIssuedRT(r) \/ Abort(r)
    <2>1. Leaves
        BY <1>4, Zenon DEF Confirm, RetireIssuedAT, RetireIssuedRT, Abort
    <2> QED
        BY <2>1, Entered, Zenon
<1> QED
    BY <1>1, <1>2, <1>3, <1>4, Zenon

\* RedeemInv is inductive.
LEMMA NextRedeem ==
    ASSUME Typed, RedeemInv, [Next]_vars
    PROVE  RedeemInv'
<1>1. CASE Clock \/ Deprovision \/ (\E c \in Codes : IssueCode(c)) \/ UNCHANGED vars
    <2>1. UNCHANGED <<codeConsumedAt, code, redeemed, pc>>
        BY <1>1, Zenon DEF Clock, Deprovision, IssueCode, vars, issuanceVars, codeVars
    <2> QED
        BY <2>1, Zenon DEF RedeemInv, Redeeming, CodeRedeemedOnce
<1>2. ASSUME NEW r \in Requests, Handle(r) \/ (Abort(r) /\ UNCHANGED codeVars) PROVE RedeemInv'
    BY <1>2, CodeStepRedeems, OtherStepRedeems, Zenon DEF Handle
<1> QED
    BY <1>1, <1>2, Zenon DEF Next, Rest
=============================================================================
