----------------------------- MODULE PolledCeremony -----------------------------
(***************************************************************************)
(* One device authorization (Kind = "device") or one CIBA request          *)
(* ("ciba") from its approval to its redemption: the polls at the token    *)
(* endpoint, the user's decision, and the teardowns that race them.        *)
(* A poll prepares every credential before it consumes the record; the     *)
(* loser of the Consume takes back what it persisted.  Each store call is  *)
(* one step.  The device grant's id is derived from the device code, so    *)
(* concurrent polls share it; a CIBA poll opens a grant of its own.        *)
(***************************************************************************)
EXTENDS PollLadder

CONSTANTS
    Polls,     \* polls, each sent at most once
    Settings   \* the provider configurations, and the bounds each is checked with

ASSUME CeremonyAssumption ==
    /\ Polls # {}
    /\ \A s \in Settings :
          /\ s.kind \in {"device", "ciba"}
          /\ s.opaque \in BOOLEAN
          /\ s.strategy \in {"tombstone", "registry", "none"}
          /\ s.polls \subseteq Polls
          /\ s.faults \in Nat /\ s.teardowns \in Nat

VARIABLES
    setting,      \* the configuration, which never changes
    poll,         \* the polls in flight: pc, what they read, what they persisted
    subjectLive,  \* the subject still resolves to an active account
    grants,       \* grant records
    tombstone,    \* RevokedAt of each grant's tombstone, 0 when there is none
    teardown,     \* the teardown in progress
    teardowns,    \* how many were started
    torn,         \* history: the teardowns that reported success
    faults

vars == <<setting, now, rec, poll, subjectLive, grants, tombstone, teardown, teardowns, torn, faults>>

Kind         == setting.kind       \* a device authorization or a CIBA request
Opaque       == setting.opaque     \* access tokens are opaque (a row) or JWTs
Strategy     == setting.strategy   \* how JWTs are revoked
MaxFaults    == setting.faults     \* store faults and crashes
MaxTeardowns == setting.teardowns  \* teardowns started

GrantOf(p) == IF Kind = "device" THEN "device_code" ELSE p
GrantIds   == {GrantOf(p) : p \in Polls}

PollPCs ==
    {"idle", "recordPoll", "strike", "lockout", "subject", "spend", "saveGrant", "mint",
     "saveRefresh", "consume", "closure", "undoAccess", "undoRefresh", "discard",
     "retireAccess", "retireRefresh", "delivered", "rejected"}

Answered == {"delivered", "rejected"}

\* The credential of one class prepared by a poll.
Custody == {"none", "live", "retired"}

NewPoll == [pc |-> "idle", decision |-> "none", at |-> 0, bar |-> 0,
            mintedAt |-> 0, access |-> "none", refresh |-> "none"]

NoTeardown == [pc |-> "idle", by |-> "none", grant |-> "none", at |-> 0, failed |-> FALSE]

Init ==
    /\ setting \in Settings
    /\ now = IssuedAt
    /\ rec = NewRecord
    /\ poll = [p \in Polls |-> NewPoll]
    /\ subjectLive = TRUE
    /\ grants = {}
    /\ tombstone = [g \in GrantIds |-> 0]
    /\ teardown = NoTeardown
    /\ teardowns = 0
    /\ torn = {}
    /\ faults = 0

-----------------------------------------------------------------------------
(* Steps of a poll *)

At(p, pc)   == poll[p].pc = pc
Goto(p, pc) == poll' = [poll EXCEPT ![p].pc = pc]
\* A store call that fails is answered at pc.
Fails(p, pc) == faults < MaxFaults /\ faults' = faults + 1 /\ Goto(p, pc)

StoresExceptRecord == <<subjectLive, grants, tombstone>>
TeardownVars == <<teardown, teardowns, torn>>
Others == <<now, TeardownVars>>

\* lookupDeviceCode / lookupCIBARequest and the decision on the record read.
Lookup(p) ==
    /\ At(p, "idle") /\ p \in setting.polls
    /\ \/ /\ ~Found
          /\ Goto(p, "rejected")
       \/ /\ Found
          /\ LET decision == Decide(rec, now) IN
             poll' = [poll EXCEPT ![p].pc = "recordPoll", ![p].decision = decision,
                                  ![p].at = now, ![p].bar = BarAfter(rec, decision)]
    /\ UNCHANGED <<rec, StoresExceptRecord, Others, faults>>

AfterRecordPoll(decision) ==
    CASE decision = "emit"      -> "subject"
      [] decision = "slow_down" -> "strike"
      [] OTHER                  -> "rejected"

\* applyPollOutcome: the poll is recorded whatever the decision, and a fault
\* of that write does not change the answer.
DoRecordPoll(p) ==
    /\ At(p, "recordPoll")
    /\ poll' = [poll EXCEPT ![p].pc = AfterRecordPoll(poll[p].decision),
                            ![p].decision = "none", ![p].at = 0, ![p].bar = 0]
    /\ \/ RecordPoll(poll[p].at, poll[p].bar) /\ UNCHANGED faults
       \/ faults < MaxFaults /\ faults' = faults + 1 /\ UNCHANGED rec
    /\ UNCHANGED <<StoresExceptRecord, Others>>

\* The slow_down callback: IncrementPollViolation, and Deny at the threshold.
Strike(p) ==
    /\ At(p, "strike")
    /\ \/ /\ IncrementPollViolation
          /\ Goto(p, IF Found /\ rec.pollViolations + 1 >= MaxPollViolations THEN "lockout" ELSE "rejected")
          /\ UNCHANGED faults
       \/ Fails(p, "rejected") /\ UNCHANGED rec
    /\ UNCHANGED <<StoresExceptRecord, Others>>

Lockout(p) ==
    /\ At(p, "lockout")
    /\ Goto(p, "rejected")
    /\ \/ DenyRecord /\ UNCHANGED faults
       \/ faults < MaxFaults /\ faults' = faults + 1 /\ UNCHANGED rec
    /\ UNCHANGED <<StoresExceptRecord, Others>>

\* authorizeDeviceCodePoll / authorizeCIBAPoll may refuse the request (scope,
\* audience, sender constraint); lookupLiveSubject follows.
Subject(p) ==
    /\ At(p, "subject")
    /\ \/ Goto(p, IF subjectLive THEN "saveGrant" ELSE "spend") /\ UNCHANGED faults
       \/ Fails(p, "rejected")
    /\ UNCHANGED <<rec, StoresExceptRecord, Others>>

GateRefuses(p) ==
    /\ At(p, "subject")
    /\ Goto(p, "rejected")
    /\ UNCHANGED <<rec, StoresExceptRecord, Others, faults>>

ConsumeRecord == Transition(IF rec.status = "approved" THEN [rec EXCEPT !.status = "consumed"] ELSE rec)
Consumable    == Found /\ rec.status = "approved"

\* retireDeprovisioned*: the ceremony of a gone subject is spent.
Spend(p) ==
    /\ At(p, "spend")
    /\ Goto(p, "rejected")
    /\ \/ ConsumeRecord /\ UNCHANGED faults
       \/ faults < MaxFaults /\ faults' = faults + 1 /\ UNCHANGED rec
    /\ UNCHANGED <<StoresExceptRecord, Others>>

\* Mutant: the record is consumed before the response is prepared.
SaveGrantConsumes(p) ==
    /\ At(p, "saveGrant")
    /\ grants' = grants \cup {GrantOf(p)}
    /\ poll' = [poll EXCEPT ![p].pc = "mint", ![p].mintedAt = now]
    /\ ConsumeRecord
    /\ UNCHANGED <<subjectLive, tombstone, Others, faults>>

\* newGrantID: a grant record that already exists is reused.  The response's
\* issue time is read here.
SaveGrant(p) ==
    /\ At(p, "saveGrant")
    /\ \/ /\ grants' = grants \cup {GrantOf(p)}
          /\ poll' = [poll EXCEPT ![p].pc = "mint", ![p].mintedAt = now]
          /\ UNCHANGED faults
       \/ Fails(p, "rejected") /\ UNCHANGED grants
    /\ UNCHANGED <<rec, subjectLive, tombstone, Others>>

Mint(p) ==
    /\ At(p, "mint")
    /\ \/ /\ poll' = [poll EXCEPT ![p].pc = "saveRefresh", ![p].access = "live"]
          /\ UNCHANGED faults
       \/ Fails(p, "undoAccess")
    /\ UNCHANGED <<rec, StoresExceptRecord, Others>>

SaveRefresh(p) ==
    /\ At(p, "saveRefresh")
    /\ \/ /\ poll' = [poll EXCEPT ![p].pc = "consume", ![p].refresh = "live"]
          /\ UNCHANGED faults
       \/ Fails(p, "undoAccess")
    /\ UNCHANGED <<rec, StoresExceptRecord, Others>>

\* Mutant: an already consumed record is consumed again.
ConsumeTwice(p) ==
    /\ At(p, "consume")
    /\ \/ /\ ConsumeRecord
          /\ Goto(p, IF Found /\ rec.status \in {"approved", "consumed"} THEN "closure" ELSE "undoAccess")
          /\ UNCHANGED faults
       \/ Fails(p, "undoAccess") /\ UNCHANGED rec
    /\ UNCHANGED <<StoresExceptRecord, Others>>

\* Mutant: the loser is rejected and leaves its rows behind.
ConsumeNoCleanup(p) ==
    /\ At(p, "consume")
    /\ \/ /\ ConsumeRecord
          /\ Goto(p, IF Consumable THEN "closure" ELSE "rejected")
          /\ UNCHANGED faults
       \/ Fails(p, "undoAccess") /\ UNCHANGED rec
    /\ UNCHANGED <<StoresExceptRecord, Others>>

Consume(p) ==
    /\ At(p, "consume")
    /\ \/ /\ ConsumeRecord
          /\ Goto(p, IF Consumable THEN "closure" ELSE "undoAccess")
          /\ UNCHANGED faults
       \/ Fails(p, "undoAccess") /\ UNCHANGED rec
    /\ UNCHANGED <<StoresExceptRecord, Others>>

\* Mutant: the closure check is skipped.
ClosureSkipped(p) ==
    /\ At(p, "closure")
    /\ Goto(p, "delivered")
    /\ UNCHANGED <<rec, StoresExceptRecord, Others, faults>>

\* refuseIssuanceUnderClosedGrant, judged at the record's IssuedAt.
Closure(p) ==
    /\ At(p, "closure")
    /\ \/ /\ Goto(p, IF tombstone[GrantOf(p)] >= IssuedAt THEN "retireAccess" ELSE "delivered")
          /\ UNCHANGED faults
       \/ Fails(p, "retireAccess")
    /\ UNCHANGED <<rec, StoresExceptRecord, Others>>

Retired(custody) == IF custody = "live" THEN "retired" ELSE custody

\* IssuedCredentials, best effort: the opaque access token, then the refresh
\* token.  A JWT has no row.
TakeBackAccess(p, here, next) ==
    /\ At(p, here)
    /\ \/ /\ poll' = [poll EXCEPT ![p].pc = next, ![p].access = IF Opaque THEN Retired(@) ELSE @]
          /\ UNCHANGED faults
       \/ Fails(p, next)
    /\ UNCHANGED <<rec, StoresExceptRecord, Others>>

TakeBackRefresh(p, here, next) ==
    /\ At(p, here)
    /\ \/ /\ poll' = [poll EXCEPT ![p].pc = next, ![p].refresh = Retired(@)]
          /\ UNCHANGED faults
       \/ Fails(p, next)
    /\ UNCHANGED <<rec, StoresExceptRecord, Others>>

UndoAccess(p)    == TakeBackAccess(p, "undoAccess", "undoRefresh")
UndoRefresh(p)   == TakeBackRefresh(p, "undoRefresh", IF Kind = "ciba" THEN "discard" ELSE "rejected")
RetireAccess(p)  == TakeBackAccess(p, "retireAccess", "retireRefresh")
RetireRefresh(p) == TakeBackRefresh(p, "retireRefresh", "rejected")

\* discardGrant: only a CIBA poll, whose grant nobody shares.
Discard(p) ==
    /\ At(p, "discard")
    /\ Goto(p, "rejected")
    /\ \/ grants' = grants \ {GrantOf(p)} /\ UNCHANGED faults
       \/ faults < MaxFaults /\ faults' = faults + 1 /\ UNCHANGED grants
    /\ UNCHANGED <<rec, subjectLive, tombstone, Others>>

PollStep(p) ==
    \/ Lookup(p) \/ DoRecordPoll(p) \/ Strike(p) \/ Lockout(p)
    \/ Subject(p) \/ GateRefuses(p) \/ Spend(p)
    \/ SaveGrant(p) \/ Mint(p) \/ SaveRefresh(p) \/ Consume(p) \/ Closure(p)
    \/ UndoAccess(p) \/ UndoRefresh(p) \/ Discard(p)
    \/ RetireAccess(p) \/ RetireRefresh(p)

-----------------------------------------------------------------------------
(* Teardowns: devicecodekit.Revoke ("kit") and the grant step of
   RevokeSubject ("subject"), which works on a grant it listed. *)

StepTeardown(pc) == teardown' = [teardown EXCEPT !.pc = pc]
Rung(next) == StepTeardown(next) /\ UNCHANGED faults
RungFails(next) ==
    /\ faults < MaxFaults /\ faults' = faults + 1
    /\ teardown' = [teardown EXCEPT !.pc = next, !.failed = TRUE]
Polling == <<now, rec, subjectLive>>

\* FindByDeviceCode, then the record's own transition.
KitStart ==
    /\ Kind = "device" /\ Found
    /\ teardown.pc = "idle" /\ teardowns < MaxTeardowns
    /\ teardowns' = teardowns + 1
    /\ teardown' = [NoTeardown EXCEPT !.pc = "mark", !.by = "kit", !.grant = "device_code"]
    /\ UNCHANGED <<now, rec, poll, StoresExceptRecord, torn, faults>>

\* DeviceCodeStore.Revoke: pending and approved records are denied; a
\* denied or consumed one is left as it is.
KitMark ==
    /\ teardown.pc = "mark"
    /\ \/ /\ Transition(IF rec.status \in {"pending", "approved"}
                        THEN [rec EXCEPT !.status = "denied"] ELSE rec)
          /\ teardown' = IF Found THEN [teardown EXCEPT !.pc = "jwt"] ELSE NoTeardown
          /\ UNCHANGED faults
       \/ /\ faults < MaxFaults /\ faults' = faults + 1
          /\ teardown' = NoTeardown
          /\ UNCHANGED rec
    /\ UNCHANGED <<now, poll, StoresExceptRecord, teardowns, torn>>

\* RevokeSubject lists the grants and reads its clock once.
SubjectStart(g) ==
    /\ g \in grants
    /\ teardown.pc = "idle" /\ teardowns < MaxTeardowns
    /\ teardowns' = teardowns + 1
    /\ teardown' = [NoTeardown EXCEPT !.pc = "jwt", !.by = "subject", !.grant = g, !.at = now]
    /\ UNCHANGED <<now, rec, poll, StoresExceptRecord, torn, faults>>

Write(g, at) == tombstone' = [tombstone EXCEPT ![g] = Max({@, at})]

SweepAccess == poll' = [p \in Polls |->
    IF GrantOf(p) = teardown.grant THEN [poll[p] EXCEPT !.access = Retired(@)] ELSE poll[p]]

SweepRefresh == poll' = [p \in Polls |->
    IF GrantOf(p) = teardown.grant THEN [poll[p] EXCEPT !.refresh = Retired(@)] ELSE poll[p]]

\* The JWT rung.  The kit reads the clock here.
TeardownJWT ==
    /\ teardown.pc = "jwt"
    /\ \/ /\ Strategy = "tombstone"
          /\ Write(teardown.grant, IF teardown.by = "kit" THEN now ELSE teardown.at)
          /\ UNCHANGED poll
          /\ Rung("opaque")
       \/ /\ Strategy = "registry" /\ ~Opaque
          /\ SweepAccess
          /\ UNCHANGED tombstone
          /\ Rung("opaque")
       \/ /\ Strategy = "none" \/ (Strategy = "registry" /\ Opaque)
          /\ UNCHANGED <<poll, tombstone>>
          /\ Rung("opaque")
       \/ Strategy # "none" /\ RungFails("opaque") /\ UNCHANGED <<poll, tombstone>>
    /\ UNCHANGED <<Polling, grants, teardowns, torn>>

\* The revocation package owes the issuance closure where its JWT rung wrote
\* no tombstone; the kit writes none.
TeardownOpaque ==
    LET next == IF teardown.by = "subject" /\ Strategy # "tombstone" THEN "closure" ELSE "refresh" IN
    /\ teardown.pc = "opaque"
    /\ \/ Opaque /\ SweepAccess /\ Rung(next)
       \/ ~Opaque /\ UNCHANGED poll /\ Rung(next)
       \/ Opaque /\ RungFails(next) /\ UNCHANGED poll
    /\ UNCHANGED <<Polling, grants, tombstone, teardowns, torn>>

TeardownClosure ==
    /\ teardown.pc = "closure"
    /\ \/ Write(teardown.grant, teardown.at) /\ Rung("refresh")
       \/ RungFails("refresh") /\ UNCHANGED tombstone
    /\ UNCHANGED <<Polling, poll, grants, teardowns, torn>>

TeardownRefresh ==
    /\ teardown.pc = "refresh"
    /\ \/ SweepRefresh /\ Rung("delete")
       \/ RungFails("delete") /\ UNCHANGED poll
    /\ UNCHANGED <<Polling, grants, tombstone, teardowns, torn>>

\* The grant record goes last, and only when every rung completed.
TeardownDelete ==
    /\ teardown.pc = "delete"
    /\ teardown' = NoTeardown
    /\ \/ /\ ~teardown.failed
          /\ grants' = grants \ {teardown.grant}
          /\ torn' = torn \cup {<<teardown.by, teardown.grant>>}
          /\ UNCHANGED faults
       \/ teardown.failed /\ UNCHANGED <<grants, torn, faults>>
       \/ ~teardown.failed /\ faults < MaxFaults /\ faults' = faults + 1 /\ UNCHANGED <<grants, torn>>
    /\ UNCHANGED <<Polling, poll, tombstone, teardowns>>

TeardownStep ==
    \/ KitMark \/ TeardownJWT \/ TeardownOpaque \/ TeardownClosure \/ TeardownRefresh \/ TeardownDelete

-----------------------------------------------------------------------------
(* The user, the account and the clock *)

Approve ==
    ApproveRecord /\ UNCHANGED <<now, poll, StoresExceptRecord, TeardownVars, faults>>

Deny ==
    /\ Found /\ rec.status = "pending"
    /\ DenyRecord
    /\ UNCHANGED <<now, poll, StoresExceptRecord, TeardownVars, faults>>

Deprovision ==
    subjectLive /\ subjectLive' = FALSE
    /\ UNCHANGED <<now, rec, poll, grants, tombstone, TeardownVars, faults>>

\* A poll whose process dies is never answered; what it wrote stays.
Crash(p) ==
    /\ poll[p].pc \notin {"idle"} \cup Answered
    /\ Fails(p, "rejected")
    /\ UNCHANGED <<rec, StoresExceptRecord, Others>>

Clock == Tick /\ UNCHANGED <<rec, poll, StoresExceptRecord, TeardownVars, faults>>

Next ==
    /\ UNCHANGED setting
    /\ \/ \E p \in Polls : PollStep(p) \/ Crash(p)
       \/ TeardownStep \/ KitStart \/ \E g \in GrantIds : SubjectStart(g)
       \/ Approve \/ Deny \/ Deprovision \/ Clock

Spec == Init /\ [][Next]_vars

TypeOK ==
    /\ now \in Nat \ {0}
    /\ rec \in Records
    /\ poll \in [Polls -> [pc : PollPCs, decision : {"none", "consumed", "expired", "denied", "slow_down", "emit", "pending"},
                           at : Nat, bar : Nat, mintedAt : Nat, access : Custody, refresh : Custody]]
    /\ subjectLive \in BOOLEAN
    /\ grants \subseteq GrantIds
    /\ tombstone \in [GrantIds -> Nat]
    /\ teardown.pc \in {"idle", "mark", "jwt", "opaque", "closure", "refresh", "delete"}
    /\ teardowns \in Nat
    /\ torn \subseteq {"kit", "subject"} \X GrantIds
    /\ faults \in 0 .. MaxFaults

-----------------------------------------------------------------------------
(* Properties *)

Delivered == {p \in Polls : At(p, "delivered")}

\* An access token a resource server or the introspection endpoint accepts.
AccessLive(p) ==
    /\ poll[p].access = "live"
    /\ ~Opaque /\ Strategy = "tombstone" => poll[p].mintedAt > tombstone[GrantOf(p)]

\* However many polls pass the gates on one approval, one of them at most
\* answers with credentials (consumeDeviceCode, consumeCIBARequest).
DeliveredOnce == \A p, q \in Delivered : p = q

\* A poll that lost, failed or was refused leaves no live row behind,
\* as long as no cleanup write failed
\* (preparedPolledResponse.cleanup, rollbackPolledResponse).
RefusedPollLeavesNothing ==
    faults = 0 => \A p \in Polls : At(p, "rejected") =>
        /\ poll[p].refresh # "live"
        /\ Opaque => poll[p].access # "live"

\* Once devicecodekit.Revoke has succeeded, no credential any poll delivered
\* is live, whichever side of the Consume the revocation met the poll on (JWTs
\* excepted where the strategy retires none); and once RevokeSubject has torn
\* a grant down, no delivered refresh token is live under it, even one that
\* was being persisted when the sweep passed (refuseIssuanceUnderClosedGrant).
TeardownLeavesNothing ==
    \A p \in Delivered :
        /\ <<"kit", "device_code">> \in torn =>
              poll[p].refresh # "live" /\ (Opaque \/ Strategy # "none" => ~AccessLive(p))
        /\ <<"subject", GrantOf(p)>> \in torn => poll[p].refresh # "live"

\* Only a poll that had all its credentials ready, or the retirement of a
\* gone subject, spends the approval: a signing or persistence fault leaves
\* the ceremony retryable (preparePolledResponse before Consume).
FaultKeepsApproval ==
    rec.status = "consumed" /\ subjectLive =>
        \E p \in Polls : poll[p].access # "none" /\ poll[p].refresh # "none"

\* The bar a poll is measured against never falls, whatever stale interval a
\* concurrent poll read before it wrote (RecordPoll only escalates).
BarNeverFalls == [][rec'.interval >= rec.interval]_vars

\* What the kit's documentation of Deps.Grants says of a completed Revoke:
\* the consent no longer shows in ListBySubject.
RevokedConsentGone ==
    <<"kit", "device_code">> \in torn /\ teardown.pc = "idle" => "device_code" \notin grants
=============================================================================
