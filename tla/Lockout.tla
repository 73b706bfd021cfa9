-------------------------------- MODULE Lockout --------------------------------
(***************************************************************************)
(* The cross-factor failure counter of one subject.  Every factor runs the *)
(* same sequence against it: guard, evaluate the submission, then record   *)
(* the failure or reset after a success.  The row is versioned; a failure  *)
(* is a read and a compare-and-swap, retried, under one clock reading.     *)
(***************************************************************************)
EXTENDS Integers, FiniteSets

CONSTANTS
    Requests,                       \* concurrent submissions of the subject
    ThresholdShort, ThresholdLong,  \* failures that earn each lock
    DurationShort, DurationLong,    \* how long each lock lasts
    CounterWindow,
    MaxSwapAttempts,                \* reads of one RecordFailure
    MaxTime, MaxGuesses,            \* bounds on the clock and the evaluated submissions
    MaxFaults                       \* store faults, cancelled requests and erasures

ASSUME LockoutAssumption ==
    /\ IsFiniteSet(Requests) /\ Requests # {}
    /\ {CounterWindow, MaxTime, MaxGuesses, MaxFaults} \subseteq Nat
    /\ {ThresholdShort, ThresholdLong, DurationShort, DurationLong, MaxSwapAttempts} \subseteq Nat \ {0}
    /\ ThresholdShort <= ThresholdLong /\ DurationShort <= DurationLong

VARIABLES
    row,        \* the record; version 0 when there is none
    req,        \* the submissions
    now,
    faults, erasures,
    guesses,    \* history: submissions evaluated
    total,      \* history: failures committed
    cleared,    \* history: failures the row no longer counts
    abandoned,  \* history: failures given up under contention
    swaps,      \* history: writes committed
    late,       \* history: failures committed since the lock engaged
    lastAt      \* history: the clock reading of the last committed failure

vars == <<row, req, now, faults, erasures, guesses, total, cleared, abandoned, swaps, late, lastAt>>
Counts == <<total, cleared, abandoned, swaps, late, lastAt>>

\* Time 0 is the zero time; the clock starts at 1.
NoRow == [count |-> 0, first |-> 0, until |-> 0, version |-> 0]
Idle  == [pc |-> "idle", snap |-> NoRow, at |-> 0, tries |-> 0, seen |-> 0]

Init ==
    /\ row = NoRow
    /\ req = [r \in Requests |-> Idle]
    /\ now = 1
    /\ faults = 0 /\ erasures = 0 /\ guesses = 0
    /\ total = 0 /\ cleared = 0 /\ abandoned = 0 /\ swaps = 0 /\ late = 0 /\ lastAt = 0

-----------------------------------------------------------------------------
(* The escalation policy *)

WindowExpired(first, t) == first # 0 /\ t - first > CounterWindow

Escalate(count, t) ==
    IF count >= ThresholdLong THEN t + DurationLong
    ELSE IF count >= ThresholdShort THEN t + DurationShort
    ELSE 0

\* Mutant: the earned lock overwrites a longer one.
CarriedNever(rec, earned, t) == earned

\* A running lock is never shortened and an elapsed one is dropped.
Carried(rec, earned, t) == IF rec.until > t /\ rec.until > earned THEN rec.until ELSE earned

\* applyFailure
ApplyFailure(rec, t) ==
    LET rolled == WindowExpired(rec.first, t)
        count  == IF rolled THEN 1 ELSE rec.count + 1
        first  == IF rolled \/ rec.first = 0 THEN t ELSE rec.first
    IN [rec EXCEPT !.count = count, !.first = first, !.until = Carried(rec, Escalate(count, t), t)]

-----------------------------------------------------------------------------
(* The store and the counter *)

Locked == row.until > now
Set(r, rec) == req' = [req EXCEPT ![r] = rec]

\* CompareAndSwap's condition; version 0 inserts only.
Swaps(expected) == row.version = expected

Stored(rec, expected) == [rec EXCEPT !.version = expected + 1]

\* Mutant: no guard.
GuardSkipped(r) ==
    /\ req[r].pc = "idle" /\ guesses < MaxGuesses
    /\ Set(r, [Idle EXCEPT !.pc = "verify"])
    /\ guesses' = guesses + 1
    /\ UNCHANGED <<row, now, faults, erasures, Counts>>

\* GuardBegin at the top of Continue.
Guard(r) ==
    /\ req[r].pc = "idle" /\ guesses < MaxGuesses
    /\ ~Locked
    /\ Set(r, [Idle EXCEPT !.pc = "verify"])
    /\ guesses' = guesses + 1
    /\ UNCHANGED <<row, now, faults, erasures, Counts>>

\* The factor's verdict: accepted, a wrong guess, or neither (a replay, a
\* factor that is locked itself, a fault).  RecordFailure reads the clock once.
Evaluate(r) ==
    /\ req[r].pc = "verify"
    /\ \/ Set(r, [req[r] EXCEPT !.pc = "resetRead"])
       \/ Set(r, [req[r] EXCEPT !.pc = "failRead", !.at = now])
       \/ Set(r, Idle)
    /\ UNCHANGED <<row, now, faults, erasures, guesses, Counts>>

\* failureBase, or giving up with ErrSwapContention.
FailRead(r) ==
    /\ req[r].pc = "failRead"
    /\ \/ /\ req[r].tries = MaxSwapAttempts
          /\ Set(r, Idle)
          /\ abandoned' = abandoned + 1
       \/ /\ req[r].tries < MaxSwapAttempts
          /\ Set(r, [req[r] EXCEPT !.pc = "failSwap", !.snap = row])
          /\ UNCHANGED abandoned
    /\ UNCHANGED <<row, now, faults, erasures, guesses, total, cleared, swaps, late, lastAt>>

FailSwap(r) ==
    LET q == req[r] IN
    /\ q.pc = "failSwap"
    /\ \/ /\ Swaps(q.snap.version)
          /\ row' = Stored(ApplyFailure(q.snap, q.at), q.snap.version)
          /\ Set(r, Idle)
          /\ total' = total + 1 /\ swaps' = swaps + 1
          /\ cleared' = IF WindowExpired(q.snap.first, q.at) THEN total ELSE cleared
          /\ late' = IF Locked THEN late + 1 ELSE 0
          /\ lastAt' = q.at
       \/ /\ ~Swaps(q.snap.version)
          /\ Set(r, [q EXCEPT !.pc = "failRead", !.tries = @ + 1])
          /\ UNCHANGED <<row, total, cleared, swaps, late, lastAt>>
    /\ UNCHANGED <<now, faults, erasures, guesses, abandoned>>

\* Reset reads once and swaps once: a lost swap is discarded.
ResetRead(r) ==
    /\ req[r].pc = "resetRead"
    /\ \/ /\ row.count = 0 /\ row.first = 0 /\ row.until = 0
          /\ Set(r, Idle)
       \/ /\ ~(row.count = 0 /\ row.first = 0 /\ row.until = 0)
          /\ Set(r, [req[r] EXCEPT !.pc = "resetSwap", !.snap = row, !.seen = total])
    /\ UNCHANGED <<row, now, faults, erasures, guesses, Counts>>

\* Mutant: a lost reset is retried against the newer row.
ResetSwapForces(r) ==
    LET q == req[r] IN
    /\ q.pc = "resetSwap"
    /\ row' = Stored(NoRow, row.version)
    /\ Set(r, Idle)
    /\ swaps' = swaps + 1 /\ cleared' = q.seen
    /\ UNCHANGED <<now, faults, erasures, guesses, total, abandoned, late, lastAt>>

ResetSwap(r) ==
    LET q == req[r] IN
    /\ q.pc = "resetSwap"
    /\ Set(r, Idle)
    /\ \/ /\ Swaps(q.snap.version)
          /\ row' = Stored(NoRow, q.snap.version)
          /\ swaps' = swaps + 1 /\ cleared' = q.seen
       \/ /\ ~Swaps(q.snap.version)
          /\ UNCHANGED <<row, swaps, cleared>>
    /\ UNCHANGED <<now, faults, erasures, guesses, total, abandoned, late, lastAt>>

\* A store fault or a cancelled request ends the call where it stands.
Fault(r) ==
    /\ req[r].pc # "idle" /\ faults < MaxFaults
    /\ faults' = faults + 1
    /\ Set(r, Idle)
    /\ UNCHANGED <<row, now, erasures, guesses, Counts>>

\* Delete, for ForgetSubject.
Erase ==
    /\ row.version # 0 /\ erasures + faults < MaxFaults
    /\ erasures' = erasures + 1
    /\ row' = NoRow
    /\ cleared' = total
    /\ UNCHANGED <<req, now, faults, guesses, total, abandoned, swaps, late, lastAt>>

Tick ==
    /\ now < MaxTime /\ now' = now + 1
    /\ UNCHANGED <<row, req, faults, erasures, guesses, Counts>>

Next ==
    \/ \E r \in Requests : Guard(r) \/ Evaluate(r) \/ FailRead(r) \/ FailSwap(r)
                           \/ ResetRead(r) \/ ResetSwap(r) \/ Fault(r)
    \/ Erase \/ Tick

Spec == Init /\ [][Next]_vars

TypeOK ==
    /\ row \in [count : Nat, first : Nat, until : Nat, version : Nat]
    /\ req \in [Requests -> [pc : {"idle", "verify", "failRead", "failSwap", "resetRead", "resetSwap"},
                             snap : [count : Nat, first : Nat, until : Nat, version : Nat],
                             at : Nat, tries : 0..MaxSwapAttempts, seen : Nat]]
    /\ {now, faults, erasures, guesses, total, cleared, abandoned, swaps, late, lastAt} \subseteq Nat

-----------------------------------------------------------------------------
(* Properties *)

\* The row counts every failure committed since the last reset's read or
\* window rollover: neither a concurrent failure nor a reset that read an
\* older row loses one (RecordFailure's and Reset's compare-and-swap).
NoFailureLost == erasures = 0 => row.count = total - cleared

\* Once the lock is in force only submissions already past their guard are
\* still counted, one for each other request: no parallel burst evaluates
\* more (GuardBegin before every evaluation).
LateGuessesBounded == late < Cardinality(Requests)

\* Failures given up under contention are paid for: each lost read-and-swap
\* pair was lost to a committed write, which beats every other request at most
\* once, or to an erasure, which beats them all (the maxSwapAttempts bound).
ContentionIsPaid ==
    abandoned * MaxSwapAttempts <= swaps * (Cardinality(Requests) - 1) + erasures * Cardinality(Requests)

\* A lock stamp that is stored was live at the clock reading of the failure
\* that stored it: a window rollover drops an elapsed stamp instead of
\* carrying it (applyFailure).
StampWasLive == row.until # 0 => row.until > lastAt

\* The three together: the counter counts.
FailuresAreCounted == NoFailureLost /\ ContentionIsPaid /\ StampWasLive

\* A failure never shortens a running lock, also not one that read the clock
\* before the failure that set the lock did.
LockNeverShortened == [][erasures = 0 /\ row'.count > 0 /\ Locked => row'.until >= row.until]_vars

\* The store's contract for compare-and-swap, "a stale transition must not
\* modify any field", over a subject that is erased and comes back: the
\* recreated row counts its own failures and no older ones.
StaleSwapIsInert == row.count = total - cleared
=============================================================================
