-------------------------------- MODULE Issuance --------------------------------
(***************************************************************************)
(* What every exit of the token endpoint that issues under an existing     *)
(* grant has in common (internal/tokenendpoint): the request's local       *)
(* state, the mint, the check of the grant's closure after the last        *)
(* persistence step, and the retirement of just what the request issued.   *)
(***************************************************************************)
EXTENDS Teardown

VARIABLES
    fit,         \* how the request fits the token: the right client, scope and key
    inGrace,     \* requests answered from the grace window
    newAT,       \* access token persisted by the request
    newRT,       \* refresh token persisted by the request
    redeemedAt,  \* CreatedAt of the credential it redeemed
    subjectLive, \* the user store still knows the subject
    sentAT,      \* history: access tokens handed to a client
    sentRT,      \* history: refresh tokens handed to a client
    bornOf,      \* history: redeemedAt of the request that minted an access token
    bornRT       \* history: redeemedAt of the request that saved a refresh token

requestVars == <<fit, inGrace, newAT, newRT, redeemedAt>>
historyVars == <<sentAT, sentRT, bornOf, bornRT>>
issuanceVars == <<now, storeVars, pc, tok, teardownVars, requestVars, subjectLive, historyVars>>

Fits == {"ok", "mismatch", "unbound"}

Labels ==
    {"idle", "consume", "grace", "subject", "load", "prior", "closed", "mint", "rotate",
     "confirm", "retireAT", "retireRT", "retire", "codeConsume", "codeSubject", "codeMint",
     "codeRefresh", "revokeRetire", "jwtRung", "opaqueRung", "closeRung",
     "refreshRung", "settle", "deleteGrant", "done"}

ControlTypeOK == pc \in [Requests -> Labels] /\ tok \in [Requests -> Tokens \cup {NoToken}]

LocalTypeOK ==
    /\ fit \in [Requests -> Fits]
    /\ inGrace \subseteq Requests
    /\ newAT \in [Requests -> AccessTokens \cup {NoAccess}]
    /\ newRT \in [Requests -> Tokens \cup {NoToken}]
    /\ redeemedAt \in [Requests -> Times]

HistoryTypeOK ==
    /\ sentAT \subseteq AccessTokens
    /\ sentRT \subseteq Tokens
    /\ bornOf \in [AccessTokens -> Times]
    /\ bornRT \in [Tokens -> Times]

RequestsTypeOK ==
    ControlTypeOK /\ TeardownTypeOK /\ LocalTypeOK /\ subjectLive \in BOOLEAN /\ HistoryTypeOK

RequestsInit(roots) ==
    /\ pc = [r \in Requests |-> "idle"]
    /\ tok = [r \in Requests |-> NoToken]
    /\ scope = [r \in Requests |-> "none"]
    /\ runNow = [r \in Requests |-> 0]
    /\ failed = {}
    /\ faults = 0
    /\ grantSaved = TRUE
    /\ tornAt = 0
    /\ wholeAt = 0
    /\ fit = [r \in Requests |-> "ok"]
    /\ inGrace = {}
    /\ newAT = [r \in Requests |-> NoAccess]
    /\ newRT = [r \in Requests |-> NoToken]
    /\ redeemedAt = [r \in Requests |-> 0]
    /\ subjectLive = TRUE
    /\ sentAT = {}
    /\ sentRT = roots
    /\ bornOf = [a \in AccessTokens |-> 0]
    /\ bornRT = [t \in Tokens |-> IF t \in roots THEN 1 ELSE 0]

-----------------------------------------------------------------------------
(* Steps shared by every exit that issues under the grant *)

\* lookupLiveSubject
LiveSubject == subjectLive

\* The 200 response reaches the client.
Deliver(at, rt) ==
    /\ sentAT' = sentAT \cup ({at} \ {NoAccess})
    /\ sentRT' = sentRT \cup ({rt} \ {NoToken})

Mint(r, a, chain) ==
    /\ MintAccess(a, chain)
    /\ newAT' = [newAT EXCEPT ![r] = a]
    /\ bornOf' = [bornOf EXCEPT ![a] = redeemedAt'[r]]

\* The refresh token the request persists, sealed for a grace retry.
Persist(r, t, parent, chain, isJoined, sealed) ==
    /\ SaveRefresh(t, parent, chain, isJoined, sealed)
    /\ newRT' = [newRT EXCEPT ![r] = t]
    /\ bornRT' = [bornRT EXCEPT ![t] = redeemedAt'[r]]

\* Mutant: the check after the last Save is left out.
ConfirmUnchecked(r) ==
    /\ pc[r] = "confirm"
    /\ Goto(r, "done")
    /\ Deliver(newAT[r], IF r \in inGrace THEN retries[tok[r]][2] ELSE newRT[r])
    /\ UNCHANGED <<bornOf, bornRT>>
    /\ UNCHANGED <<now, storeVars, tok, teardownVars, requestVars, subjectLive>>

\* rotation.confirm, refuseIssuanceUnderClosedGrant after the last Save: an
\* open grant releases the response, a closed one retires what was issued.
Confirm(r) ==
    /\ pc[r] = "confirm"
    /\ IF IssuanceRevoked(redeemedAt[r])
       THEN Goto(r, "retireAT") /\ UNCHANGED historyVars
       ELSE /\ Goto(r, "done")
            /\ Deliver(newAT[r], IF r \in inGrace THEN retries[tok[r]][2] ELSE newRT[r])
            /\ UNCHANGED <<bornOf, bornRT>>
    /\ UNCHANGED <<now, storeVars, tok, teardownVars, requestVars, subjectLive>>

\* runToken over IssuedCredentials: the opaque row, then the refresh token.
RetireIssuedAT(r) ==
    /\ pc[r] = "retireAT"
    /\ RevokeAccess(IF Opaque THEN {newAT[r]} \ {NoAccess} ELSE {})
    /\ Goto(r, IF newRT[r] = NoToken THEN "done" ELSE "retireRT")
    /\ UNCHANGED <<now, refreshVars, tombVars, tok, teardownVars, requestVars, subjectLive, historyVars>>

RetireIssuedRT(r) ==
    /\ pc[r] = "retireRT"
    /\ RevokeChain(newRT[r])
    /\ Goto(r, "done")
    /\ UNCHANGED <<now, accessVars, tombVars, tok, teardownVars, requestVars, subjectLive, historyVars>>

\* A store fault answers server_error, or the process dies: the request ends
\* where it stands and keeps what it persisted.
Abort(r) ==
    /\ pc[r] \notin {"idle", "done"}
    /\ faults < MaxFaults
    /\ faults' = faults + 1
    /\ Goto(r, "done")
    /\ UNCHANGED <<now, storeVars, tok, scope, runNow, failed, grantSaved, tornAt, wholeAt,
                   requestVars, subjectLive, historyVars>>
=============================================================================
