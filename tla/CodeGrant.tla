-------------------------------- MODULE CodeGrant --------------------------------
(***************************************************************************)
(* The authorization_code grant: the code substore's compare-and-swap, the *)
(* redemption that opens a rotation chain, and the whole-grant teardown a  *)
(* replayed code triggers.  No transaction spans this handler.             *)
(***************************************************************************)
EXTENDS Issuance

CONSTANTS
    Codes,     \* authorization codes
    NoCode,    \* no code presented
    CodeTTL    \* lifetime of a code

ASSUME CodeAssumption == NoCode \notin Codes /\ CodeTTL \in Nat

VARIABLES
    codeCreatedAt,   \* CreatedAt of a saved code, 0 when not issued
    codeConsumedAt,  \* ConsumedAt
    code,            \* the code a request presented
    redeemed         \* history: how many redemptions of a code went on to mint

codeVars == <<codeCreatedAt, codeConsumedAt, code, redeemed>>

CodesTypeOK ==
    /\ codeCreatedAt \in [Codes -> Times]
    /\ codeConsumedAt \in [Codes -> Times]
    /\ code \in [Requests -> Codes \cup {NoCode}]
    /\ redeemed \in [Codes -> Nat]

CodesInit ==
    /\ codeCreatedAt = [c \in Codes |-> 0]
    /\ codeConsumedAt = [c \in Codes |-> 0]
    /\ code = [r \in Requests |-> NoCode]
    /\ redeemed = [c \in Codes |-> 0]

FindCode(c) == codeCreatedAt[c] # 0 /\ now <= codeCreatedAt[c] + CodeTTL

\* Mutant: Consume does not compare ConsumedAt.
CanRedeemNoSwap(c) == FindCode(c)

\* Consume is a compare-and-swap.
CanRedeem(c) == FindCode(c) /\ codeConsumedAt[c] = 0

\* Issue: the authorization endpoint saves a code under the reused grant.
IssueCode(c) ==
    /\ codeCreatedAt[c] = 0 /\ grantSaved /\ subjectLive
    /\ codeCreatedAt' = [codeCreatedAt EXCEPT ![c] = now]
    /\ UNCHANGED <<issuanceVars, codeConsumedAt, code, redeemed>>

\* preflight: an inadmissible request is refused before the code is spent.
CodeStart(r, c, f) ==
    /\ pc[r] = "idle"
    /\ codeCreatedAt[c] # 0
    /\ code' = [code EXCEPT ![r] = c]
    /\ fit' = [fit EXCEPT ![r] = f]
    /\ Goto(r, IF FindCode(c) /\ f # "ok" THEN "done" ELSE "codeConsume")
    /\ UNCHANGED <<now, storeVars, tok, teardownVars, inGrace, newAT, newRT, redeemedAt, subjectLive,
                   historyVars, codeCreatedAt, codeConsumedAt, redeemed>>

\* Consume: the first presentation wins, an expired code is missing, and a
\* second admissible presentation tears the whole grant down.
CodeConsume(r) ==
    /\ pc[r] = "codeConsume"
    /\ IF CanRedeem(code[r])
       THEN /\ codeConsumedAt' = [codeConsumedAt EXCEPT ![code[r]] = now]
            /\ redeemedAt' = [redeemedAt EXCEPT ![r] = codeCreatedAt[code[r]]]
            /\ Goto(r, IF fit[r] = "ok" THEN "codeSubject" ELSE "done")
            /\ UNCHANGED <<scope, runNow>>
       ELSE /\ IF FindCode(code[r]) /\ fit[r] = "ok"
               THEN BeginTeardown(r, "whole")
               ELSE Goto(r, "done") /\ UNCHANGED <<scope, runNow>>
            /\ UNCHANGED <<codeConsumedAt, redeemedAt>>
    /\ UNCHANGED <<now, storeVars, tok, failed, faults, grantSaved, tornAt, wholeAt, fit, inGrace, newAT, newRT,
                   subjectLive, historyVars, codeCreatedAt, code, redeemed>>

\* A deprovisioned subject's grant is torn down (retireDeprovisionedGrant).
CodeSubject(r) ==
    /\ pc[r] = "codeSubject"
    /\ IF LiveSubject
       THEN Goto(r, "codeMint") /\ UNCHANGED <<scope, runNow>>
       ELSE BeginTeardown(r, "whole")
    /\ UNCHANGED <<now, storeVars, tok, failed, faults, grantSaved, tornAt, wholeAt, requestVars, subjectLive,
                   historyVars, codeVars>>

\* issueAuthCodeResponse: a new chain identifier, the access token, ...
CodeMint(r, a, k) ==
    /\ pc[r] = "codeMint"
    /\ FreshChain(k)
    /\ UNCHANGED redeemedAt
    /\ Mint(r, a, k)
    /\ redeemed' = [redeemed EXCEPT ![code[r]] = @ + 1]
    /\ Goto(r, "codeRefresh")
    /\ UNCHANGED <<now, refreshVars, accessRevoked, tombVars, tok, teardownVars, fit, inGrace, newRT,
                   subjectLive, sentAT, sentRT, bornRT, codeCreatedAt, codeConsumedAt, code>>

\* ... the chain's first refresh token unless a gate withholds it, and the
\* access token orphaned by a failing Save.
CodeRefresh(r, t) ==
    /\ pc[r] = "codeRefresh"
    /\ UNCHANGED redeemedAt
    /\ Persist(r, t, NoToken, accessChain[newAT[r]], FALSE, NoRetry)
    /\ Goto(r, "confirm")
    /\ UNCHANGED <<now, consumedAt, revoked, accessVars, tombVars, tok, teardownVars, fit, inGrace, newAT,
                   subjectLive, sentAT, sentRT, bornOf, codeVars>>

CodeRefreshWithheld(r) ==
    /\ pc[r] = "codeRefresh"
    /\ Goto(r, "confirm")
    /\ UNCHANGED <<now, storeVars, tok, teardownVars, requestVars, subjectLive, historyVars, codeVars>>

CodeRefreshFails(r) ==
    /\ pc[r] = "codeRefresh"
    /\ faults < MaxFaults
    /\ faults' = faults + 1
    /\ Goto(r, "retireAT")
    /\ UNCHANGED <<now, storeVars, tok, scope, runNow, failed, grantSaved, tornAt, wholeAt, requestVars, subjectLive,
                   historyVars, codeVars>>

CodeStep(r) ==
    \/ \E c \in Codes, f \in {"ok", "mismatch"} : CodeStart(r, c, f)
    \/ CodeConsume(r) \/ CodeSubject(r)
    \/ \E a \in AccessTokens, k \in Chains : CodeMint(r, a, k)
    \/ \E t \in Tokens : CodeRefresh(r, t)
    \/ CodeRefreshWithheld(r) \/ CodeRefreshFails(r)
=============================================================================
