---------------------------- MODULE MCSharedSignals ----------------------------
(***************************************************************************)
(* PushDelivery under four loads, one chosen in the initial state:         *)
(*   manage   two managers and a publisher over two streams, no delivery   *)
(*            (the cfg's constants);                                       *)
(*   lapses   two replicas push one event while leases end under them;     *)
(*   settles  two replicas, a manager that may pause, redirect or delete   *)
(*            the stream, one fault, under fairness;                       *)
(*   share    two events claimed together, one fault, under fairness.      *)
(***************************************************************************)
EXTENDS PushDelivery

CONSTANTS w1, w2, m1

VARIABLE load

Sole == [s \in {"s1"} |-> "c1"]
OneOwner == [s \in Streams |-> "c1"]

Lapses == INSTANCE PushDelivery WITH
    Streams <- {"s1"}, Owner <- Sole, Endpoints <- {"A"}, Events <- {"e1"}, Managers <- {}, MaxUpdates <- 1,
    Workers <- {w1, w2}, StreamShare <- 1, MaxRetries <- 2, MaxLapses <- 1, MaxFaults <- 1

Settles == INSTANCE PushDelivery WITH
    Streams <- {"s1"}, Owner <- Sole, Endpoints <- {"A"}, Events <- {"e1"}, Managers <- {m1}, MaxUpdates <- 2,
    Workers <- {w1, w2}, StreamShare <- 1, MaxRetries <- 1, MaxLapses <- 0, MaxFaults <- 1

Share == INSTANCE PushDelivery WITH
    Streams <- {"s1"}, Owner <- Sole, Endpoints <- {"A"}, Events <- {"e1", "e2"}, Managers <- {}, MaxUpdates <- 1,
    Workers <- {w1}, StreamShare <- 2, MaxRetries <- 1, MaxLapses <- 0, MaxFaults <- 1

LoadsInit ==
    \/ load = "manage" /\ Init
    \/ load = "lapses" /\ Lapses!Init
    \/ load = "settles" /\ Settles!Init
    \/ load = "share" /\ Share!Init

LoadsNext ==
    /\ UNCHANGED load
    /\ \/ load = "manage" /\ QueueNext /\ UNCHANGED deliveryVars
       \/ load = "lapses" /\ Lapses!Next
       \/ load = "settles" /\ Settles!Next
       \/ load = "share" /\ Share!Next

allVars == <<vars, load>>

\* The loop ticks, a goroutine runs to its end, and leases and backoffs end.
LoadsFairness ==
    /\ \A w \in {w1, w2} :
         /\ WF_allVars(load = "settles" /\ Settles!WorkerStep(w) /\ UNCHANGED load)
         /\ WF_allVars(load = "settles" /\ Settles!Claim(w) /\ UNCHANGED load)
    /\ WF_allVars(load = "settles" /\ Settles!Later("e1") /\ UNCHANGED load)
    /\ WF_allVars(load = "share" /\ Share!WorkerStep(w1) /\ UNCHANGED load)
    /\ WF_allVars(load = "share" /\ Share!Claim(w1) /\ UNCHANGED load)
    /\ \A e \in {"e1", "e2"} : WF_allVars(load = "share" /\ Share!Later(e) /\ UNCHANGED load)

LoadsSpec == LoadsInit /\ [][LoadsNext]_allVars /\ LoadsFairness

-----------------------------------------------------------------------------
(* Properties; EventQueue and PushDelivery say what each is about. *)

\* The queue follows the streams: every queued event carries the tags of its
\* stream as it is now (Enqueue's check against Update's realignment), a stream
\* has one queued control event of a kind (putEvent), a receiver one stream
\* (Create), and an enqueue fails only when the stream changed at each try.
QueueFollowsStreams ==
    load = "manage" => QueueMatchesStream /\ OneControlEach /\ OneStreamPerClient /\ FailedOnlyUnderChurn

\* A sealed header is kept only for the endpoint it was supplied for, through
\* stale read-modify-writes of the delivery (applyDelivery).
HeadersStayPut == load = "manage" => HeaderStaysWithEndpoint

\* Pushes are paid for: one is repeated after acceptance only for a fault or a
\* lapsed lease, the retry budget bounds them with late results included, and
\* only its own pushes spend an event's attempts (ClaimDue, retry,
\* deliverShare).
PushesArePaid ==
    /\ load = "lapses" => Lapses!AcceptedOncePerFault /\ Lapses!PushBudget
    /\ load = "settles" => Settles!AcceptedOncePerFault
    /\ load = "share" => Share!AttemptsAreSpent

\* A settled event never comes back: no late retry of another replica queues
\* it again (Reschedule).
SettledForGood ==
    [][\A e \in DOMAIN queue : queue[e].state = "gone" => queue'[e].state = "gone"]_allVars

\* A queued event of a push stream that stays enabled leaves the queue in the
\* end, delivered, rejected or abandoned, whatever crashed on the way (ClaimDue,
\* Reschedule and the leases).
QueuedSettles ==
    \A e \in {"e1", "e2"} :
        load \in {"settles", "share"} /\ e \in DOMAIN queue /\ Queued(e)
            ~> e \in DOMAIN queue /\ (~Queued(e) \/ queue[e].held \/ queue[e].delivery = "poll")
=============================================================================
