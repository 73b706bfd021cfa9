------------------------------- MODULE PollLadder -------------------------------
(***************************************************************************)
(* The polling discipline of internal/pollinterval, shared by the device   *)
(* authorization grant and CIBA, and the record both substores keep for    *)
(* it.  A poll is judged by Decide on the record it read; what the         *)
(* judgement writes back goes through the substore's own transitions,      *)
(* which look the record up again under the mutex.                         *)
(***************************************************************************)
EXTENDS Integers, FiniteSetsExt

CONSTANTS
    DefaultInterval,    \* seed of the ladder
    SlowDownIncrement,  \* what a slow_down adds
    IntervalTolerance,  \* how far a poll may undershoot the interval
    FastPollFloor,      \* absolute minimum gap
    MaxPollViolations,  \* strikes before the record is locked
    MaxCounter,         \* ceiling of the saturating counters (255 in the code)
    Lifetime,           \* ExpiresAt - IssuedAt
    MaxTime             \* bound on the clock

ASSUME LadderAssumption ==
    /\ {DefaultInterval, SlowDownIncrement, MaxPollViolations, MaxCounter} \subseteq Nat \ {0}
    /\ {IntervalTolerance, FastPollFloor, Lifetime, MaxTime} \subseteq Nat
    /\ MaxPollViolations <= MaxCounter

VARIABLES
    now,  \* the clock, from 1; 0 stands for the zero time
    rec   \* the stored record

IssuedAt  == 1
ExpiresAt == IssuedAt + Lifetime
Statuses  == {"pending", "approved", "denied", "consumed"}

Records == [status : Statuses, lastPolledAt : Nat, interval : Nat, pollViolations : Nat]

\* persist: the record as the authorization endpoint saves it.
NewRecord ==
    [status |-> "pending", lastPolledAt |-> 0, interval |-> DefaultInterval, pollViolations |-> 0]

-----------------------------------------------------------------------------
(* internal/pollinterval *)

\* Mutant: the bar grows faster than the client is told to slow down.
NextIntervalDoubled(current) ==
    IF current <= 0 THEN DefaultInterval ELSE 2 * current + SlowDownIncrement

NextInterval(current) ==
    IF current <= 0 THEN DefaultInterval ELSE current + SlowDownIncrement

IntervalBar(effective) == Max({effective - IntervalTolerance, 0})

TooFast(r, at) ==
    /\ r.lastPolledAt # 0
    /\ \/ at - r.lastPolledAt < FastPollFloor
       \/ at - r.lastPolledAt < IntervalBar(r.interval)

\* Decide on record r at instant at; the gates come in this order.
Decide(r, at) ==
    IF r.status = "consumed" THEN "consumed"
    ELSE IF at >= ExpiresAt THEN "expired"
    ELSE IF r.status = "denied" \/ r.pollViolations >= MaxPollViolations THEN "denied"
    ELSE IF TooFast(r, at) THEN "slow_down"
    ELSE IF r.status = "approved" THEN "emit"
    ELSE "pending"

\* What RecordPoll is asked to store: the raised bar after a slow_down.
BarAfter(r, decision) == IF decision = "slow_down" THEN NextInterval(r.interval) ELSE r.interval

-----------------------------------------------------------------------------
(* The substores.  A row is visible until the clock is past ExpiresAt. *)

Found == now <= ExpiresAt

Transition(new) == rec' = IF Found THEN new ELSE rec

ApproveRecord == Found /\ rec.status = "pending" /\ rec' = [rec EXCEPT !.status = "approved"]
DenyRecord    == Transition(IF rec.status = "pending" THEN [rec EXCEPT !.status = "denied"] ELSE rec)

\* Mutant: the interval of the poll is stored as it is.
RecordPollOverwrites(at, interval) ==
    Transition([rec EXCEPT !.lastPolledAt = at, !.interval = interval])

\* Only escalates the bar.
RecordPoll(at, interval) ==
    Transition([rec EXCEPT !.lastPolledAt = at, !.interval = Max({@, interval})])

IncrementPollViolation == Transition([rec EXCEPT !.pollViolations = Min({@ + 1, MaxCounter})])

Tick == now < MaxTime /\ now' = now + 1
=============================================================================
