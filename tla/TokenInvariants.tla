---------------------------- MODULE TokenInvariants ----------------------------
(***************************************************************************)
(* The inductive invariants behind the theorems of the token service.  The *)
(* properties the service promises are seldom inductive by themselves:     *)
(* each rests on facts about every request between two of its steps, and   *)
(* those are stated here, the weakest first.                               *)
(***************************************************************************)
EXTENDS TokenService

\* Types are inductive together with what a request holds at its label.
Typed == TypeOK /\ Presented

\* What the store answers about a token that was presented.
Holds(t) ==
    /\ t \in Tokens
    /\ createdAt[t] \in Times
    /\ chainOf[t] \in Chains \cup {NoChain}
    /\ retries[t][1] \in AccessTokens \cup {NoAccess}
    /\ retries[t][2] \in Tokens \cup {NoToken}

-----------------------------------------------------------------------------
(* Who owns a chain *)

\* Only a grace retry loads a sealed response.
GraceLoads == \A r \in Requests : pc[r] = "load" => r \in inGrace

Chained == OneSpendable /\ Custody /\ GraceLoads

-----------------------------------------------------------------------------
(* Rows and codes *)

\* KeptUntilRevoked needs that a row is saved unspent.
SavedUnspent == \A t \in Tokens \ refreshes : ~Consumed(t)

\* A request past Consume and before the mint.
Redeeming(r) == pc[r] \in {"codeSubject", "codeMint"}

\* Past Consume the code is marked and not yet redeemed, by one request only; a
\* redeemed code stays marked.
RedeemInv ==
    /\ \A r \in Requests : Redeeming(r) => codeConsumedAt[code[r]] # 0 /\ redeemed[code[r]] = 0
    /\ \A r, s \in Requests : Redeeming(r) /\ Redeeming(s) /\ code[r] = code[s] => r = s
    /\ \A c \in Codes : redeemed[c] # 0 => codeConsumedAt[c] # 0
    /\ CodeRedeemedOnce

-----------------------------------------------------------------------------
(* Where a token came from *)

Ends        == {"confirm", "retireAT", "retireRT", "done"}
Issuing     == {"subject", "load", "prior", "closed", "mint", "rotate"}
CodeIssuing == {"codeSubject", "codeMint", "codeRefresh"}

\* What a request carries is what the tables say of it.
Carries(r) ==
    /\ tok[r] # NoToken => tok[r] \in sentRT
    /\ pc[r] \in {"idle", "codeConsume"} \cup CodeIssuing => tok[r] = NoToken
    /\ newRT[r] # NoToken =>
          /\ pc[r] \in Ends
          /\ newRT[r] \in refreshes /\ bornRT[newRT[r]] = redeemedAt[r]
          /\ tok[r] # NoToken => chainOf[newRT[r]] = chainOf[tok[r]]
    /\ newAT[r] # NoAccess =>
          /\ pc[r] \in Ends \cup {"rotate", "codeRefresh"}
          /\ newAT[r] \in accessTokens /\ bornOf[newAT[r]] = redeemedAt[r]
          /\ tok[r] # NoToken => accessChain[newAT[r]] = chainOf[tok[r]]
    /\ pc[r] = "rotate" => newAT[r] # NoAccess /\ Rotation
    /\ pc[r] \in Issuing => redeemedAt[r] = createdAt[tok[r]]
    /\ pc[r] \in Issuing \cup {"grace"} => ~(Transactional /\ Rotation)
    /\ pc[r] \in CodeIssuing => redeemedAt[r] \in 1 .. now

\* A row is no older than the credential redeemed for it, which is its parent
\* when it has one.
RowFits(t) ==
    /\ 1 <= bornRT[t] /\ bornRT[t] <= createdAt[t] /\ createdAt[t] <= now
    /\ parentOf[t] # NoToken =>
          /\ parentOf[t] \in refreshes
          /\ bornRT[t] = createdAt[parentOf[t]] /\ chainOf[t] = chainOf[parentOf[t]]

\* A sealed response is filed under a row and names the row's successor.
SealFits(t) ==
    /\ t \in refreshes
    /\ retries[t][1] \in accessTokens /\ accessChain[retries[t][1]] = chainOf[t]
    /\ retries[t][2] \in refreshes /\ parentOf[retries[t][2]] = t

Rows ==
    /\ sentRT \subseteq refreshes
    /\ \A t \in refreshes : RowFits(t)
    /\ \A t \in Tokens : retries[t] # NoRetry => SealFits(t)

AccessFits(a) == 1 <= bornOf[a] /\ bornOf[a] <= issuedAt[a] /\ issuedAt[a] <= now
Minted == sentAT \subseteq accessTokens /\ \A a \in accessTokens : AccessFits(a)

Dated == \A c \in Codes : codeCreatedAt[c] <= now

Provenance == (\A r \in Requests : Carries(r)) /\ Rows /\ Minted /\ Dated

-----------------------------------------------------------------------------
(* The ladder of a teardown *)

RungLabels == {"jwtRung", "opaqueRung", "closeRung", "refreshRung", "settle"}

\* Each rung runs only under a scope that asks for it, with a time the clock
\* has shown; the refresh token is retired only when there is one.
Ladder ==
    \A r \in Requests :
        /\ pc[r] = "jwtRung" => scope[r] \notin {"none", "chain"}
        /\ pc[r] = "opaqueRung" => scope[r] # "none"
        /\ pc[r] = "closeRung" => ClosesIssuance(scope[r]) /\ Strategy # "grant_tombstone"
        /\ pc[r] = "refreshRung" => WholeGrant(scope[r])
        /\ pc[r] \in RungLabels => runNow[r] \in 1 .. now
        /\ pc[r] = "retireRT" => newRT[r] # NoToken

-----------------------------------------------------------------------------
(* The grant stays closed, and its refresh tokens stay revoked *)

\* A teardown none of whose rungs has failed and that closes the grant.
Closing(r) == r \notin failed /\ ClosesIssuance(scope[r])

\* The rungs that come after the tombstone was written.
PastClosing(r) ==
    \/ pc[r] \in {"refreshRung", "settle"}
    \/ Strategy = "grant_tombstone" /\ pc[r] = "opaqueRung"

RefreshSwept(T) == \A t \in sentRT : bornRT[t] <= T => t \in revoked

GrantClosed ==
    /\ tornAt <= closedAt /\ wholeAt <= closedAt
    /\ \A r \in Requests : Closing(r) /\ PastClosing(r) => runNow[r] <= closedAt
    /\ RefreshSwept(wholeAt)
    /\ \A r \in Requests : r \notin failed /\ WholeGrant(scope[r]) /\ pc[r] = "settle" => RefreshSwept(runNow[r])

\* What the theorems of the closure share.
Guarded == Typed /\ Provenance /\ Ladder /\ RevokedSubtree /\ GrantClosed

-----------------------------------------------------------------------------
(* The access tokens a complete teardown covers *)

\* A client holds the token, or a sealed response still offers it as it is.
Exposed(a) ==
    \/ a \in sentAT
    \/ ~Constrained /\ \E p \in Tokens : retries[p] # NoRetry /\ retries[p][1] = a

\* The request that minted it has yet to check the grant or to retire it.
Retiring(a) == \E s \in Requests : newAT[s] = a /\ pc[s] \in {"confirm", "retireAT"}

AccessSwept(T) ==
    \A a \in AccessTokens : Exposed(a) /\ bornOf[a] <= T =>
        a \in accessRevoked \/ (~Transactional /\ ~Constrained /\ Retiring(a))

\* Opaque access tokens under the grant tombstone, with a transaction around a
\* rotation, or no sealed access token, or no fault.
AccessRegime ==
    Opaque /\ Strategy = "grant_tombstone" /\ (Transactional \/ Constrained \/ MaxFaults = 0)

AccessClosed ==
    /\ AccessSwept(tornAt)
    /\ \A r \in Requests : Closing(r) /\ pc[r] \in {"refreshRung", "settle"} => AccessSwept(runNow[r])

AgedSwept(T) == \A a \in accessTokens : issuedAt[a] < T => a \in accessRevoked

\* The rungs that come after the one that revokes this format of token.
PastSweep(r) ==
    \/ pc[r] \in {"closeRung", "refreshRung", "settle"}
    \/ ~Opaque /\ pc[r] = "opaqueRung"

AgedClosed ==
    /\ tornAt <= now /\ AgedSwept(tornAt)
    /\ \A r \in Requests : Closing(r) /\ PastSweep(r) => AgedSwept(runNow[r])

\* The access tokens have rows a rung can mark.
MarkedRegime == Opaque \/ Strategy = "jti_registry"

-----------------------------------------------------------------------------
(* One live access token *)

MintLabels == {"prior", "closed", "mint"}

\* A request of the grace window never comes near the mint, ...
GraceWaits ==
    /\ \A r \in Requests : pc[r] \in MintLabels => r \notin inGrace
    /\ GraceTTL = 0 => inGrace = {}
    /\ ~RetryKeys => \A t \in Tokens : retries[t] = NoRetry

\* ... and one that is about to mint has the chain to itself.
ChainSwept(r) ==
    pc[r] \in {"closed", "mint"} =>
        \A a \in accessTokens : accessChain[a] = chainOf[tok[r]] => a \in accessRevoked

OneMinter == GraceWaits /\ (\A r \in Requests : ChainSwept(r)) /\ OneLiveAccess

\* Opaque tokens, rotated, and no grace retry that mints outside a transaction.
LiveRegime ==
    /\ Opaque /\ Rotation
    /\ Transactional \/ ~Constrained \/ GraceTTL = 0 \/ ~RetryKeys
=============================================================================
