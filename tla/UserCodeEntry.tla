------------------------------ MODULE UserCodeEntry ------------------------------
(***************************************************************************)
(* The verification page's side of the device flow: the in-memory device   *)
(* code substore with its user_code index, the authorization endpoint that *)
(* fills it, and devicecodekit's record-bound verification with its strike *)
(* budget.  Verifiers run concurrently; each store call is one step.       *)
(***************************************************************************)
EXTENDS Integers, FiniteSets

CONSTANTS
    DeviceCodes,         \* device codes the endpoint may mint, each once
    UserCodes,           \* user codes it may draw
    Verifiers,           \* verification requests in flight at a time
    MaxUserCodeStrikes,  \* strikes that lock a record
    UserCodeRetryBudget, \* draws per issuance
    Lifetime,            \* life of a record
    MaxTime,             \* bound on the clock
    MaxGuesses,          \* bound on the wrong codes compared
    MaxFaults            \* store faults

\* What the constants must be.
EntryAssumption ==
    /\ MaxUserCodeStrikes \in Nat \ {0}
    /\ {UserCodeRetryBudget, Lifetime, MaxTime, MaxGuesses, MaxFaults} \subseteq Nat

VARIABLES
    now,
    records,   \* device code -> record, absent when status = "absent"
    index,     \* user code -> device code, "none" when free
    draws,     \* device code -> draws made; the budget once it is done
    verifier,  \* the verifications in flight
    wrong,     \* history: wrong codes compared against each record
    faults

vars == <<now, records, index, draws, verifier, wrong, faults>>

Absent == [status |-> "absent", userCode |-> "none", strikes |-> 0, expiresAt |-> 0]
NoCheck == [pc |-> "idle", key |-> "none"]

Init ==
    /\ now = 1
    /\ records = [d \in DeviceCodes |-> Absent]
    /\ index = [u \in UserCodes |-> "none"]
    /\ draws = [d \in DeviceCodes |-> 0]
    /\ verifier = [v \in Verifiers |-> NoCheck]
    /\ wrong = [d \in DeviceCodes |-> 0]
    /\ faults = 0

Present(d) == records[d].status # "absent"
Expired(d) == Present(d) /\ records[d].expiresAt < now
Visible(d) == Present(d) /\ ~Expired(d)

\* dropLocked for every record of the set: the index entry goes only when it
\* still points at the record.
Dropped(dead)      == [d \in DeviceCodes |-> IF d \in dead THEN Absent ELSE records[d]]
DroppedIndex(dead) == [u \in UserCodes |-> IF index[u] \in dead /\ records[index[u]].userCode = u
                                           THEN "none" ELSE index[u]]

\* deviceCodeStore.Save refuses a user code that a live record holds.
Taken(u, dead) == DroppedIndex(dead)[u] # "none"

\* One turn of saveWithUserCodeRetry: draw u, evict the dead record holding
\* it, sweep when the sweep is due, and save unless the code is taken.
Save(d, u) ==
    \E sweep \in BOOLEAN :
    LET dead == {e \in DeviceCodes : Expired(e) /\ (sweep \/ index[u] = e)}
    IN  /\ draws[d] < UserCodeRetryBudget /\ ~Present(d)
        /\ \/ /\ ~Taken(u, dead)
              /\ records' = [Dropped(dead) EXCEPT ![d] = [status |-> "pending", userCode |-> u, strikes |-> 0,
                                                          expiresAt |-> now + Lifetime]]
              /\ index' = [DroppedIndex(dead) EXCEPT ![u] = d]
              /\ draws' = [draws EXCEPT ![d] = UserCodeRetryBudget]
           \/ /\ Taken(u, dead)
              /\ records' = Dropped(dead)
              /\ index' = DroppedIndex(dead)
              /\ draws' = [draws EXCEPT ![d] = @ + 1]
        /\ UNCHANGED <<now, verifier, wrong, faults>>

-----------------------------------------------------------------------------
(* transitionByUserCode *)

Holder(u) == IF u \in UserCodes THEN index[u] ELSE "none"
Reach(u)  == Holder(u) # "none" /\ Visible(Holder(u))

Step(v, pc) == verifier' = [verifier EXCEPT ![v].pc = pc]

\* VerifyUserCodeByUserCode on the record the session is bound to, with a
\* code that differs from the stored one: the lookup and the comparison.
Mismatch(v, u) ==
    /\ verifier[v].pc = "idle"
    /\ Reach(u) /\ records[Holder(u)].status = "pending"
    /\ wrong[Holder(u)] < MaxGuesses
    /\ wrong' = [wrong EXCEPT ![Holder(u)] = @ + 1]
    /\ verifier' = [verifier EXCEPT ![v] = [pc |-> "strike", key |-> u]]
    /\ UNCHANGED <<now, records, index, draws, faults>>

\* Mutant: the record is locked one strike late.
RecordStrikeLate(v) ==
    LET u == verifier[v].key
        d == Holder(u)
    IN  /\ verifier[v].pc = "strike"
        /\ \/ /\ Reach(u)
              /\ records' = [records EXCEPT ![d].strikes = @ + 1]
              /\ Step(v, IF records[d].strikes >= MaxUserCodeStrikes THEN "deny" ELSE "idle")
           \/ ~Reach(u) /\ Step(v, "idle") /\ UNCHANGED records
        /\ UNCHANGED <<now, index, draws, wrong, faults>>

\* recordStrikeWith: the increment; a fault ends the request with an error.
RecordStrike(v) ==
    LET u == verifier[v].key
        d == Holder(u)
    IN  /\ verifier[v].pc = "strike"
        /\ \/ /\ Reach(u)
              /\ records' = [records EXCEPT ![d].strikes = @ + 1]
              /\ Step(v, IF records[d].strikes + 1 >= MaxUserCodeStrikes THEN "deny" ELSE "idle")
              /\ UNCHANGED faults
           \/ ~Reach(u) /\ Step(v, "idle") /\ UNCHANGED <<records, faults>>
           \/ /\ faults < MaxFaults /\ faults' = faults + 1
              /\ Step(v, "idle") /\ UNCHANGED records
        /\ UNCHANGED <<now, index, draws, wrong>>

\* The lock: Deny from pending only; ErrConflict and ErrNotFound are no-ops.
RecordLock(v) ==
    LET u == verifier[v].key
        d == Holder(u)
    IN  /\ verifier[v].pc = "deny"
        /\ Step(v, "idle")
        /\ \/ /\ records' = IF Reach(u) /\ records[d].status = "pending"
                            THEN [records EXCEPT ![d].status = "denied"] ELSE records
              /\ UNCHANGED faults
           \/ faults < MaxFaults /\ faults' = faults + 1 /\ UNCHANGED records
        /\ UNCHANGED <<now, index, draws, wrong>>

\* ApproveUserCode and DenyUserCode: from pending only.
Decide(u, status) ==
    /\ Reach(u) /\ records[Holder(u)].status = "pending"
    /\ records' = [records EXCEPT ![Holder(u)].status = status]
    /\ UNCHANGED <<now, index, draws, verifier, wrong, faults>>

ApproveUserCode(u) == Decide(u, "approved")
DenyUserCode(u)    == Decide(u, "denied")

Clock == now < MaxTime /\ now' = now + 1 /\ UNCHANGED <<records, index, draws, verifier, wrong, faults>>

Next ==
    \/ \E d \in DeviceCodes, u \in UserCodes : Save(d, u)
    \/ \E v \in Verifiers, u \in UserCodes : Mismatch(v, u)
    \/ \E v \in Verifiers : RecordStrike(v) \/ RecordLock(v)
    \/ \E u \in UserCodes : ApproveUserCode(u) \/ DenyUserCode(u)
    \/ Clock

Spec == Init /\ [][Next]_vars

-----------------------------------------------------------------------------
\* The index and the records agree: a user code leads to the record issued
\* with it, and every record kept is reachable by its own code, so no two
\* live records share one (Save, dropLocked, deleteExpiredUserCodeLocked).
IndexFaithful ==
    /\ \A u \in UserCodes : index[u] # "none" => Present(index[u]) /\ records[index[u]].userCode = u
    /\ \A d \in DeviceCodes : Present(d) => index[records[d].userCode] = d

\* The number of wrong codes ever compared against one record is bounded by
\* the strike budget, plus what the verifications already past their lookup
\* and the failed writes can add (VerifyUserCodeByUserCode and
\* recordStrikeWith: the lookup, the strike and the lock are separate calls).
GuessBudget ==
    \A d \in DeviceCodes : wrong[d] <= MaxUserCodeStrikes - 1 + Cardinality(Verifiers) + faults

\* A record whose strikes reached the ceiling is approved only while the
\* verification that must lock it is still between its two calls.
LockedIsNotApprovable ==
    faults = 0 => \A d \in DeviceCodes :
        records[d].strikes >= MaxUserCodeStrikes /\ records[d].status = "pending" /\ Visible(d)
            => \E v \in Verifiers : verifier[v].pc = "deny" /\ Holder(verifier[v].key) = d
=============================================================================
