------------------------------- MODULE PollClient -------------------------------
(***************************************************************************)
(* One client polling one record, against the ladder.  The client keeps    *)
(* the advertised interval between two sends and adds SlowDownIncrement to *)
(* it whenever it is told to slow down, as RFC 8628 and CIBA instruct it;  *)
(* a request spends at most IntervalTolerance on the way.  MaxHasty times  *)
(* it sends early (a user pressing retry).  The clock advances as far as   *)
(* the next send.  The client is not part of the repository.               *)
(***************************************************************************)
EXTENDS PollLadder

CONSTANTS MaxHasty, MaxWait

VARIABLES
    clientInterval,  \* the interval the client observes
    sentAt,          \* when it sent its last poll, 0 before the first
    hasty,           \* how many early polls it has sent
    answer           \* the last answer

vars == <<now, rec, clientInterval, sentAt, hasty, answer>>

Init ==
    /\ now = IssuedAt
    /\ rec = NewRecord
    /\ clientInterval = DefaultInterval
    /\ sentAt = 0
    /\ hasty = 0
    /\ answer = "none"

\* A poll sent at the given instant and judged on arrival: lookup, Decide,
\* RecordPoll, and on slow_down the strike and the lock at the threshold.
Poll(send, delay) ==
    LET at       == send + delay
        decision == Decide(rec, at)
        polled   == [rec EXCEPT !.lastPolledAt = at, !.interval = Max({@, BarAfter(rec, decision)})]
        strikes  == Min({rec.pollViolations + 1, MaxCounter})
        struck   == [polled EXCEPT !.pollViolations = strikes,
                                   !.status = IF strikes >= MaxPollViolations /\ @ = "pending"
                                              THEN "denied" ELSE @]
    IN  /\ answer \notin {"emit", "denied", "expired"}
        /\ at <= MaxTime
        /\ now' = at
        /\ sentAt' = send
        /\ answer' = decision
        /\ rec' = IF at > ExpiresAt THEN rec ELSE IF decision = "slow_down" THEN struck ELSE polled
        /\ clientInterval' = clientInterval + IF decision = "slow_down" THEN SlowDownIncrement ELSE 0

PollOnTime ==
    \E send \in now .. now + MaxWait, delay \in 0 .. IntervalTolerance :
        /\ sentAt # 0 => send >= sentAt + clientInterval
        /\ Poll(send, delay)
        /\ UNCHANGED hasty

PollHasty ==
    \E send \in now .. now + MaxWait, delay \in 0 .. IntervalTolerance :
        /\ hasty < MaxHasty /\ sentAt # 0 /\ send < sentAt + clientInterval
        /\ Poll(send, delay)
        /\ hasty' = hasty + 1

Approve == ApproveRecord /\ UNCHANGED <<now, clientInterval, sentAt, hasty, answer>>

Next == PollOnTime \/ PollHasty \/ Approve

Spec == Init /\ [][Next]_vars

TypeOK ==
    /\ now \in IssuedAt .. MaxTime
    /\ rec \in Records
    /\ clientInterval \in Nat
    /\ hasty \in 0 .. MaxHasty

-----------------------------------------------------------------------------
\* A client is struck only for polls it sent early: once it slows down as
\* instructed, jitter within the tolerance never earns it another strike
\* (pollinterval.SlowDownIncrement: "a compliant client is strike-counted out
\* of the flow for polling exactly as instructed" is what must not happen).
StruckOnlyWhenHasty == rec.pollViolations <= hasty

\* A client that is early fewer times than the threshold is never locked out:
\* no poll of it is ever answered access_denied.
NotLockedOut == hasty < MaxPollViolations => answer # "denied"
=============================================================================
