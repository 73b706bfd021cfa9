------------------------------ MODULE PushDelivery ------------------------------
(***************************************************************************)
(* The push worker and the poll endpoint over EventQueue.  A Worker here   *)
(* is one goroutine handling one stream's share of a claim; replicas run   *)
(* side by side.  A lease ends once its holder is done with the event or   *)
(* dead: the worker's constants keep a round shorter than the lease.  Up   *)
(* to MaxLapses times a stalled process breaks that and the lease ends     *)
(* under its holder.                                                       *)
(***************************************************************************)
EXTENDS EventQueue

CONSTANTS
    Workers,
    StreamShare,  \* events of one stream per claim (workerStreamShare)
    MaxRetries,   \* retries after the first push (workerMaxRetries)
    MaxLapses,    \* leases that end under their holder
    MaxFaults     \* store faults, key faults, crashes and lost responses

ASSUME DeliveryAssumption ==
    /\ StreamShare \in Nat \ {0} /\ {MaxRetries, MaxLapses, MaxFaults} \subseteq Nat

VARIABLES
    work,      \* the workers
    pushes,    \* history: pushes made of each event
    accepted,  \* history: pushes the receiver answered 202
    fetched,   \* history: events a poll returned
    lapses, faults

deliveryVars == <<work, pushes, accepted, fetched, lapses, faults>>
vars == <<queueVars, deliveryVars>>

Idle == [pc |-> "idle", stream |-> "none", share |-> {}, current |-> "none", attempts |-> << >>]

Init ==
    /\ QueueInit
    /\ work = [w \in Workers |-> Idle]
    /\ pushes = [e \in Events |-> 0]
    /\ accepted = [e \in Events |-> 0]
    /\ fetched = {}
    /\ lapses = 0 /\ faults = 0

-----------------------------------------------------------------------------
(* The worker *)

\* Mutant: an event with its last retry left is no longer claimed.
DueBelowBudget(s) == {e \in QueuedFor(s) : queue[e].delivery = "push" /\ ~queue[e].held /\ queue[e].phase = "due"
                                          /\ queue[e].attempts < MaxRetries}

Due(s) == {e \in QueuedFor(s) : queue[e].delivery = "push" /\ ~queue[e].held /\ queue[e].phase = "due"}

SetWork(w, rec) == work' = [work EXCEPT ![w] = rec]
Fault == faults < MaxFaults /\ faults' = faults + 1
QueueOnly == <<streams, pub, mgr, updates>>
Histories == <<pushes, accepted, fetched>>

\* ClaimDue: at most StreamShare due events of a stream, leased together; the
\* worker keeps copies.
ClaimDue(w, s) ==
    /\ work[w].pc = "idle"
    /\ \E share \in SUBSET Due(s) :
         /\ share # {} /\ Cardinality(share) = Min({StreamShare, Cardinality(Due(s))})
         /\ queue' = [e \in Events |-> IF e \in share THEN [queue[e] EXCEPT !.phase = "leased"] ELSE queue[e]]
         /\ SetWork(w, [pc |-> "load", stream |-> s, share |-> share, current |-> "none",
                        attempts |-> [e \in share |-> queue[e].attempts]])
    /\ UNCHANGED <<QueueOnly, Histories, lapses, faults>>

\* deliverShare: the stream is read once for the share.
LoadStream(w) ==
    /\ work[w].pc = "load"
    /\ \/ /\ ~Exists(work[w].stream)
          /\ SetWork(w, [work[w] EXCEPT !.pc = "orphans"]) /\ UNCHANGED faults
       \/ /\ Exists(work[w].stream) /\ streams[work[w].stream].method = "push"
          /\ SetWork(w, [work[w] EXCEPT !.pc = "push"]) /\ UNCHANGED faults
       \/ /\ Exists(work[w].stream) /\ streams[work[w].stream].method # "push"
          /\ SetWork(w, Idle) /\ UNCHANGED faults
       \/ Fault /\ SetWork(w, Idle)
    /\ UNCHANGED <<queue, QueueOnly, Histories, lapses>>

Acked(e) == IF Queued(e) THEN [queue EXCEPT ![e] = Gone(e)] ELSE queue

\* The rest of the share, or the end of it.
Rest(w, e) ==
    IF work[w].share = {e} THEN Idle
    ELSE [work[w] EXCEPT !.share = @ \ {e}, !.current = "none"]

AckOrphan(w) ==
    /\ work[w].pc = "orphans"
    /\ \E e \in work[w].share :
         /\ SetWork(w, Rest(w, e))
         /\ \/ queue' = Acked(e) /\ UNCHANGED faults
            \/ Fault /\ UNCHANGED queue
    /\ UNCHANGED <<QueueOnly, Histories, lapses>>

\* deliver up to the receiver's answer: 202 or 400 settles; anything else is
\* retried; a response that is lost was taken by the receiver all the same.
Push(w) ==
    /\ work[w].pc = "push"
    /\ \E e \in work[w].share :
         /\ pushes' = [pushes EXCEPT ![e] = @ + 1]
         /\ \/ /\ SetWork(w, [work[w] EXCEPT !.pc = "ack", !.current = e])
               /\ accepted' = [accepted EXCEPT ![e] = @ + 1]
               /\ UNCHANGED faults
            \/ /\ SetWork(w, [work[w] EXCEPT !.pc = "ack", !.current = e])
               /\ UNCHANGED <<accepted, faults>>
            \/ /\ SetWork(w, [work[w] EXCEPT !.pc = "retry", !.current = e])
               /\ UNCHANGED <<accepted, faults>>
            \/ /\ Fault
               /\ SetWork(w, [work[w] EXCEPT !.pc = "retry", !.current = e])
               /\ accepted' = [accepted EXCEPT ![e] = @ + 1]
    /\ UNCHANGED <<queue, QueueOnly, fetched, lapses>>

\* A header that does not unseal or claims that do not parse abandon the
\* event; a signing-key fault leaves the share to its lease.
Unsendable(w) ==
    /\ work[w].pc = "push"
    /\ \E e \in work[w].share :
         \/ SetWork(w, [work[w] EXCEPT !.pc = "ack", !.current = e]) /\ UNCHANGED faults
         \/ Fault /\ SetWork(w, Idle)
    /\ UNCHANGED <<queue, QueueOnly, Histories, lapses>>

Resumed(w) == LET r == Rest(w, work[w].current) IN IF r = Idle THEN r ELSE [r EXCEPT !.pc = "push"]

\* ack: a fault is logged and the event stays leased.
Ack(w) ==
    /\ work[w].pc = "ack"
    /\ SetWork(w, Resumed(w))
    /\ \/ queue' = Acked(work[w].current) /\ UNCHANGED faults
       \/ Fault /\ UNCHANGED queue
    /\ UNCHANGED <<QueueOnly, Histories, lapses>>

\* Mutant: a failed push does not count.
RetryFree(w) ==
    LET e == work[w].current IN
    /\ work[w].pc = "retry"
    /\ SetWork(w, Idle)
    /\ queue' = IF Queued(e) THEN [queue EXCEPT ![e].phase = "backoff"] ELSE queue
    /\ UNCHANGED <<QueueOnly, Histories, lapses, faults>>

\* Mutant: Reschedule stores the worker's copy of an event that is gone.
RetryResurrects(w) ==
    LET e == work[w].current IN
    /\ work[w].pc = "retry"
    /\ SetWork(w, Idle)
    /\ queue' = IF work[w].attempts[e] >= MaxRetries THEN Acked(e)
                ELSE [queue EXCEPT ![e].state = "queued", ![e].phase = "backoff", ![e].attempts = work[w].attempts[e] + 1]
    /\ UNCHANGED <<QueueOnly, Histories, lapses, faults>>

\* retry: Reschedule from the attempts of the worker's copy, or abandon; the
\* rest of the share is left to its lease.
Retry(w) ==
    LET e == work[w].current IN
    /\ work[w].pc = "retry"
    /\ SetWork(w, Idle)
    /\ \/ /\ queue' = IF work[w].attempts[e] >= MaxRetries THEN Acked(e)
                      ELSE IF Queued(e)
                           THEN [queue EXCEPT ![e].phase = "backoff", ![e].attempts = work[w].attempts[e] + 1]
                           ELSE queue
          /\ UNCHANGED faults
       \/ Fault /\ UNCHANGED queue
    /\ UNCHANGED <<QueueOnly, Histories, lapses>>

\* Stop or the death of the process: what was claimed keeps its lease.
Crash(w) ==
    /\ work[w].pc # "idle" /\ Fault
    /\ SetWork(w, Idle)
    /\ UNCHANGED <<queue, QueueOnly, Histories, lapses>>

-----------------------------------------------------------------------------
(* Time and the poll endpoint *)

HeldByWorker(e) == \E w \in Workers : e \in work[w].share

LeaseEnds(e) ==
    /\ Queued(e) /\ queue[e].phase = "leased" /\ ~HeldByWorker(e)
    /\ queue' = [queue EXCEPT ![e].phase = "due"]
    /\ UNCHANGED <<QueueOnly, deliveryVars>>

LeaseLapses(e) ==
    /\ Queued(e) /\ queue[e].phase = "leased" /\ HeldByWorker(e)
    /\ lapses < MaxLapses /\ lapses' = lapses + 1
    /\ queue' = [queue EXCEPT ![e].phase = "due"]
    /\ UNCHANGED <<QueueOnly, work, Histories, faults>>

BackoffEnds(e) ==
    /\ Queued(e) /\ queue[e].phase = "backoff"
    /\ queue' = [queue EXCEPT ![e].phase = "due"]
    /\ UNCHANGED <<QueueOnly, deliveryVars>>

\* DeleteExpired, at whatever moment the event's retention ends.
Expire(e) ==
    /\ Queued(e)
    /\ queue' = Acked(e)
    /\ UNCHANGED <<QueueOnly, deliveryVars>>

\* poll: Pending leaves the events queued; a later request acknowledges them.
PollFetch(s) ==
    LET pending == {e \in QueuedFor(s) : queue[e].delivery = "poll" /\ ~queue[e].held} IN
    /\ Exists(s) /\ streams[s].method = "poll"
    /\ ~(pending \subseteq fetched)
    /\ fetched' = fetched \cup pending
    /\ UNCHANGED <<queueVars, work, pushes, accepted, lapses, faults>>

\* The stream was checked before, so the event may have moved to push since.
PollAck(s, e) ==
    /\ e \in fetched \cap QueuedFor(s)
    /\ queue' = Acked(e)
    /\ UNCHANGED <<QueueOnly, deliveryVars>>

WorkerStep(w) == LoadStream(w) \/ AckOrphan(w) \/ Push(w) \/ Unsendable(w) \/ Ack(w) \/ Retry(w)
Claim(w)      == \E s \in Streams : ClaimDue(w, s)
Later(e)      == LeaseEnds(e) \/ BackoffEnds(e)

Next ==
    \/ QueueNext /\ UNCHANGED deliveryVars
    \/ \E w \in Workers : WorkerStep(w) \/ Claim(w) \/ Crash(w)
    \/ \E e \in Events : Later(e) \/ LeaseLapses(e) \/ Expire(e)
    \/ \E s \in Streams : PollFetch(s) \/ \E e \in Events : PollAck(s, e)

Spec == Init /\ [][Next]_vars

-----------------------------------------------------------------------------
(* Properties *)

\* A receiver is pushed a SET it already accepted only after something went
\* wrong: a lost answer, a failed acknowledgement, a crash or a lapsed lease
\* (ClaimDue leases each SET to a single claimer).
AcceptedOncePerFault == \A e \in Events : accepted[e] <= 1 + lapses + faults

\* The retry budget bounds the pushes of a SET even when late results of a
\* lapsed claimer overwrite the attempts of the current one (retry writes the
\* attempts of its copy).
PushBudget == \A e \in Events : pushes[e] <= (MaxRetries + 1) * (1 + lapses) + faults

\* Only pushes spend a SET's retry budget: the rest of a share behind a push
\* that failed keeps its attempts, through leases, lapses and crashes
\* (deliverShare).
AttemptsAreSpent == \A e \in Events : queue[e].attempts <= pushes[e]
=============================================================================
