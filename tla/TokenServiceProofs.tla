-------------------------- MODULE TokenServiceProofs --------------------------
(***************************************************************************)
(* What the token service promises, for every value of the constants.  The *)
(* theorems put together the inductive steps of the modules below.         *)
(***************************************************************************)
EXTENDS TokenServiceTypes, ClosureProofs

-----------------------------------------------------------------------------
(* Provenance *)

\* The inductive invariant: rows, access tokens and requests agree on chain,
\* parent and the date of the credential redeemed, at every step of every handler.
THEOREM ProvenanceAlways == Spec => []Provenance
<1>1. Init => Typed /\ Provenance
    BY InitTyped, InitProvenance, Zenon
<1>2. Typed /\ Provenance /\ [Next]_vars => (Typed /\ Provenance)'
    BY NextTyped, NextProvenance, Zenon
<1> QED
    BY <1>1, <1>2, PTL DEF Spec

\* A grace retry recovers the successor of the token it presents and an access
\* token of the same chain, in every interleaving and for every configuration
\* (SaveRotationWithRetry, LoadRetryResponse).
THEOREM RetryMatchesAlways == Spec => []RetryMatches
<1>1. Provenance => RetryMatches
    BY Zenon DEF Provenance, Rows, SealFits, RetryMatches
<1> QED
    BY <1>1, ProvenanceAlways, PTL

-----------------------------------------------------------------------------
(* Custody *)

\* The inductive invariant: one spendable token per chain, and custody.
THEOREM ChainedAlways == Spec => []Chained
<1>1. Init => Chained
    BY InitChained, Zenon
<1>2. Typed /\ Provenance /\ Chained /\ [Next]_vars => Chained'
    BY NextChained, Zenon
<1> QED
    BY <1>1, <1>2, TypeCorrect, ProvenanceAlways, PTL DEF Spec

\* A rotation chain never holds two spendable refresh tokens, with or without
\* transactions, however many requests race on it (Consume, rotateRefreshToken).
THEOREM OneSpendableAlways == Spec => []OneSpendable
<1>1. Chained => OneSpendable
    BY Zenon DEF Chained
<1> QED
    BY <1>1, ChainedAlways, PTL

\* No two requests are ever about to extend the same chain, and none extends a
\* chain that still holds an unspent token.
THEOREM CustodyAlways == Spec => []Custody
<1>1. Chained => Custody
    BY Zenon DEF Chained
<1> QED
    BY <1>1, ChainedAlways, PTL

-----------------------------------------------------------------------------
(* Refresh-token rows *)

\* A revoked refresh token never has an unrevoked successor: neither the walk
\* of revokeChainLocked nor a rotation it overtakes leaves one behind.
THEOREM RevokedSubtreeAlways == Spec => []RevokedSubtree
<1>1. Init => RevokedSubtree
    BY Zenon DEF Init, StoresInit, RevokedSubtree
<1>2. Typed /\ RevokedSubtree /\ [Next]_vars => RevokedSubtree'
    <2> SUFFICES ASSUME Typed, RevokedSubtree, RowStep PROVE RevokedSubtree'
        BY NextRows, Zenon
    <2>1. CASE UNCHANGED <<refreshes, parentOf, consumedAt, revoked>> \/ Spends
        BY <2>1, Zenon DEF Spends, RevokedSubtree
    <2>2. CASE Saves
        BY <2>2 DEF Saves, ParentAlive, RevokedSubtree, Typed, TypeOK, StoresTypeOK, RefreshesTypeOK
    <2>3. CASE Revokes
        BY <2>3, Zenon DEF Revokes, MarkRevoked, ClosedUnderChildren, RevokedSubtree
    <2> QED
        BY <2>1, <2>2, <2>3, Zenon DEF RowStep
<1> QED
    BY <1>1, <1>2, TypeCorrect, PTL DEF Spec

\* With rotation disabled nothing but a revocation spends a refresh token.
THEOREM KeptUntilRevokedAlways == Spec => []KeptUntilRevoked
<1> DEFINE IInv == SavedUnspent /\ KeptUntilRevoked
<1>1. Init => IInv
    BY RootsAssumption DEF Init, StoresInit, SavedUnspent, KeptUntilRevoked, Consumed
<1>2. Typed /\ IInv /\ [Next]_vars => IInv'
    <2> SUFFICES ASSUME Typed, SavedUnspent, KeptUntilRevoked, RowStep PROVE IInv'
        BY NextRows, Zenon
    <2> USE DEF SavedUnspent, KeptUntilRevoked, Consumed, Typed, TypeOK, StoresTypeOK, RefreshesTypeOK
    <2>1. CASE UNCHANGED <<refreshes, parentOf, consumedAt, revoked>>
        BY <2>1, Zenon
    <2>2. CASE Spends
        BY <2>2, Zenon DEF Spends, Consume
    <2>3. CASE Saves
        BY <2>3, Zenon DEF Saves, Consume
    <2>4. CASE Revokes
        BY <2>4, Zenon DEF Revokes, MarkRevoked
    <2> QED
        BY <2>1, <2>2, <2>3, <2>4, Zenon DEF RowStep
<1>3. IInv => KeptUntilRevoked
    BY Zenon
<1> HIDE DEF IInv
<1> QED
    BY <1>1, <1>2, <1>3, TypeCorrect, PTL DEF Spec

-----------------------------------------------------------------------------
(* Authorization codes *)

\* A code is redeemed for tokens at most once, however many presentations race
\* (the compare-and-swap of the code substore's Consume).
THEOREM CodeRedeemedOnceAlways == Spec => []CodeRedeemedOnce
<1>1. Init => RedeemInv
    BY DEF Init, RequestsInit, CodesInit, RedeemInv, Redeeming, CodeRedeemedOnce
<1>2. Typed /\ RedeemInv /\ [Next]_vars => RedeemInv'
    BY NextRedeem, Zenon
<1>3. RedeemInv => CodeRedeemedOnce
    BY Zenon DEF RedeemInv
<1> QED
    BY <1>1, <1>2, <1>3, TypeCorrect, PTL DEF Spec

-----------------------------------------------------------------------------
(* What a teardown covers *)

\* No request on a chain that joined another client's grant retires anything
\* outside that chain or closes the grant, unless its subject is gone: whatever
\* the other requests do between its rungs (JoinsForeignGrant).
THEOREM JoinedStaysInChainAlways == Spec => JoinedStaysInChain
<1> DEFINE Stays == \A r \in Requests :
                       pc'[r] # pc[r] /\ tok[r] \in joined /\ scope[r] \in {"none", "chain"} =>
                           /\ \A t \in revoked' \ revoked : chainOf[t] = chainOf[tok[r]]
                           /\ \A a \in accessRevoked' \ accessRevoked : accessChain[a] = chainOf[tok[r]]
                           /\ UNCHANGED tombVars
           Inv == Typed /\ Provenance /\ Ladder
<1>1. Init => Inv
    BY InitTyped, InitProvenance, InitLadder, Zenon
<1>2. Inv /\ [Next]_vars => Inv'
    BY NextTyped, NextProvenance, NextLadder, Zenon
<1>3. Inv /\ [Next]_vars => [Stays]_vars
    <2> SUFFICES ASSUME Inv, [Next]_vars, NEW r \in Requests, pc'[r] # pc[r], tok[r] \in joined,
                        scope[r] \in {"none", "chain"}
                 PROVE  Confined(r)
        BY Zenon DEF Confined
    <2>1. CASE World
        BY <2>1, WorldHolds, Zenon
    <2>2. ASSUME NEW s \in Requests, Handle(s) \/ (Abort(s) /\ UNCHANGED codeVars) PROVE Confined(r)
        <3>1. s = r
            BY <2>2, HandleEffects, Zenon DEF Effects, Stable
        <3> QED
            BY <2>2, <3>1, HandleConfined, Zenon
    <2> QED
        BY <2>1, <2>2, Zenon DEF Next, Rest, World
<1>4. Spec => [][Stays]_vars
    BY <1>1, <1>2, <1>3, PTL DEF Spec
<1> QED
    BY <1>4, Zenon DEF JoinedStaysInChain

\* Guarded is inductive.
THEOREM GuardedAlways == Spec => []Guarded
<1> DEFINE Inv == Typed /\ Provenance /\ Ladder /\ GrantClosed
<1>1. Init => Inv
    BY InitTyped, InitProvenance, InitLadder, InitClosed, Zenon
<1>2. Inv /\ RevokedSubtree /\ [Next]_vars => Inv'
    BY NextTyped, NextProvenance, NextLadder, NextClosed, Zenon
<1>3. Inv /\ RevokedSubtree => Guarded
    BY Zenon DEF Guarded
<1> QED
    BY <1>1, <1>2, <1>3, RevokedSubtreeAlways, PTL DEF Spec

\* Once a teardown of the whole grant has completed, no refresh token redeemed
\* for by its time is usable in a client's hands: neither one it swept nor one
\* an exchange saved or replayed behind it (refuseIssuanceUnderClosedGrant).
THEOREM WholeClosureAlways == Spec => []WholeClosureHolds
<1>1. Guarded => WholeClosureHolds
    BY Zenon DEF Guarded, GrantClosed, RefreshSwept, WholeClosureHolds
<1> QED
    BY <1>1, GuardedAlways, PTL

\* Opaque access tokens under the grant tombstone: once a teardown that closed
\* the grant at T has completed, no access token a client holds from a code or
\* refresh token issued by T is live, unless its own request is still retiring
\* it.  Where rotations are transactions, or access tokens are never replayed
\* from a sealed response, this survives any number of store faults and
\* crashes; otherwise it holds as long as no request dies between its save and
\* its check (refuseIssuanceUnderClosedGrant, runToken).
THEOREM ClosureAlways ==
    ASSUME AccessRegime
    PROVE  Spec => []ClosureHolds
<1>1. Init => AccessClosed
    BY InitAccessClosed, Zenon
<1>2. Guarded /\ Guarded' /\ AccessClosed /\ [Next]_vars => AccessClosed'
    BY NextAccessClosed, Zenon DEF Guarded
<1>3. Guarded /\ AccessClosed => ClosureHolds
    <2> SUFFICES ASSUME Guarded, AccessClosed, NEW a \in sentAT, bornOf[a] <= tornAt, AccessLive(a)
                 PROVE  \E r \in Requests : newAT[r] = a /\ InProgress(r)
        BY Zenon DEF ClosureHolds
    <2>1. a \in AccessTokens /\ Exposed(a)
        BY Zenon DEF Guarded, Typed, TypeOK, RequestsTypeOK, HistoryTypeOK, Exposed
    <2> QED
        BY <2>1, Zenon DEF AccessClosed, AccessSwept, AccessLive, Retiring, InProgress
<1> QED
    BY <1>1, <1>2, <1>3, GuardedAlways, PTL DEF Spec

\* Unless JWTs have no revocation strategy at all, an access token issued before
\* a complete teardown read its clock is dead from then on, whatever interleaves
\* with the rungs and whatever faults other requests meet (Revoker.Run).
THEOREM SweptByCutoffAlways ==
    ASSUME Opaque \/ Strategy # "none"
    PROVE  Spec => []SweptByCutoff
<1>1. CASE MarkedRegime
    <2>1. Init => AgedClosed
        BY DEF Init, StoresInit, RequestsInit, AgedClosed, AgedSwept, PastSweep
    <2>2. Guarded /\ AgedClosed /\ [Next]_vars => AgedClosed'
        BY <1>1, NextAged, Zenon DEF Guarded
    <2>3. Guarded /\ AgedClosed => SweptByCutoff
        BY Zenon DEF AgedClosed, AgedSwept, SweptByCutoff, AccessLive
    <2> QED
        BY <2>1, <2>2, <2>3, GuardedAlways, PTL DEF Spec
<1>2. CASE ~Opaque /\ Strategy = "grant_tombstone"
    <2>1. Guarded => SweptByCutoff
        <3> SUFFICES ASSUME Guarded, NEW a \in accessTokens, issuedAt[a] < tornAt PROVE ~AccessLive(a)
            BY Zenon DEF SweptByCutoff
        <3>1. tornAt <= closedAt
            BY Zenon DEF Guarded, GrantClosed
        <3> QED
            BY <1>2, <3>1, TimesTyped DEF Guarded, AccessLive, Covers
    <2> QED
        BY <2>1, GuardedAlways, PTL
<1> QED
    BY <1>1, <1>2, StoreAssumption, Zenon DEF MarkedRegime, Strategies

\* Under the grant tombstone the cutoff instant itself is covered: an access
\* token issued by the cutoff of a complete teardown is dead once its request
\* has been answered (covers, refuseIssuanceUnderClosedGrant).
THEOREM IssuedByCutoffDeadAlways ==
    ASSUME Strategy = "grant_tombstone", Opaque => AccessRegime
    PROVE  Spec => []IssuedByCutoffDead
<1>1. CASE Opaque
    <2>1. Spec => []ClosureHolds
        BY <1>1, ClosureAlways, Zenon
    <2>2. Guarded /\ ClosureHolds => IssuedByCutoffDead
        <3> SUFFICES ASSUME Guarded, ClosureHolds, NEW a \in sentAT, issuedAt[a] <= tornAt, AccessLive(a)
                     PROVE  \E r \in Requests : newAT[r] = a /\ InProgress(r)
            BY Zenon DEF IssuedByCutoffDead
        <3>1. bornOf[a] <= tornAt
            BY TimesTyped DEF Guarded, Provenance, Minted, AccessFits
        <3> QED
            BY <3>1, Zenon DEF ClosureHolds
    <2> QED
        BY <2>1, <2>2, GuardedAlways, PTL
<1>2. CASE ~Opaque
    <2>1. Guarded => IssuedByCutoffDead
        <3> SUFFICES ASSUME Guarded, NEW a \in sentAT, issuedAt[a] <= tornAt PROVE ~AccessLive(a)
            BY Zenon DEF IssuedByCutoffDead
        <3>1. tornAt <= closedAt /\ 1 <= issuedAt[a] /\ a \in accessTokens
            BY TimesTyped DEF Guarded, GrantClosed, Provenance, Minted, AccessFits
        <3> QED
            BY <1>2, <3>1, TimesTyped DEF Guarded, AccessLive, Covers
    <2> QED
        BY <2>1, GuardedAlways, PTL
<1> QED
    BY <1>1, <1>2, Zenon

-----------------------------------------------------------------------------
(* One live access token *)

\* A rotated chain has at most one live opaque access token, as long as no
\* grace retry mints outside a transaction: each mint comes after the chain's
\* tokens were retired, and custody keeps a second minter away
\* (retirePriorOpaqueAccessTokens).
THEOREM OneLiveAccessAlways ==
    ASSUME LiveRegime
    PROVE  Spec => []OneLiveAccess
<1>1. Init => OneMinter
    BY DEF Init, StoresInit, RequestsInit, OneMinter, GraceWaits, MintLabels, ChainSwept, OneLiveAccess
<1>2. Guarded /\ Chained /\ OneMinter /\ [Next]_vars => OneMinter'
    BY NextOneMinter, Zenon DEF Guarded
<1>3. OneMinter => OneLiveAccess
    BY Zenon DEF OneMinter
<1> QED
    BY <1>1, <1>2, <1>3, GuardedAlways, ChainedAlways, PTL DEF Spec
=============================================================================
