------------------------------- MODULE EventQueue -------------------------------
(***************************************************************************)
(* Shared Signals: the stream and event substores (one mutex guards both), *)
(* the transmitter that queues Security Event Tokens and the management    *)
(* endpoints.  A handler reads the stream, works on its copy and writes    *)
(* the whole record back; a publisher tags its event from the stream it    *)
(* listed.  Every store call is one step.  Delivery is in PushDelivery.    *)
(***************************************************************************)
EXTENDS Integers, FiniteSetsExt

CONSTANTS
    Streams,          \* stream ids, each created at most once
    Clients,          \* receivers
    Owner,            \* the receiver that creates each stream
    Endpoints,        \* push endpoint URLs
    Events,           \* jtis, each used at most once
    Publishers,       \* enqueue calls in flight
    Managers,         \* management requests in flight
    EnqueueAttempts,  \* tries of one enqueue
    MaxUpdates        \* bound on the management writes

ASSUME QueueAssumption ==
    /\ Owner \in [Streams -> Clients]
    /\ EnqueueAttempts \in Nat \ {0}
    /\ MaxUpdates \in Nat

VARIABLES
    streams,  \* stream id -> record
    queue,    \* jti -> queued event
    pub,      \* the enqueue calls
    mgr,      \* the management requests
    updates   \* management writes so far

queueVars == <<streams, queue, pub, mgr, updates>>

Statuses == {"enabled", "paused", "disabled"}

\* header names the endpoint the sealed authorization header was supplied with.
StreamRecords == [status : Statuses \cup {"new", "deleted"}, method : {"push", "poll"},
                  endpoint : Endpoints \cup {"none"}, header : Endpoints \cup {"none"}]
Kinds == {"event", "verification", "stream-updated"}

NoStream == [status |-> "new", method |-> "poll", endpoint |-> "none", header |-> "none"]
Exists(s) == streams[s].status \in Statuses

\* phase abstracts NextAttemptAt: due, under a claim's lease, or backing off.
FreeEvent == [state |-> "free", stream |-> "none", kind |-> "event", delivery |-> "poll",
              held |-> FALSE, attempts |-> 0, phase |-> "due"]
Gone(e)   == [queue[e] EXCEPT !.state = "gone"]
Queued(e) == queue[e].state = "queued"
QueuedFor(s) == {e \in Events : Queued(e) /\ queue[e].stream = s}

NoPub == [pc |-> "idle", stream |-> "none", kind |-> "event", snap |-> NoStream, event |-> "none", tries |-> 0]
NoMgr == [pc |-> "idle", stream |-> "none", snap |-> NoStream]

QueueInit ==
    /\ streams = [s \in Streams |-> NoStream]
    /\ queue = [e \in Events |-> FreeEvent]
    /\ pub = [p \in Publishers |-> NoPub]
    /\ mgr = [m \in Managers |-> NoMgr]
    /\ updates = 0

-----------------------------------------------------------------------------
(* The event substore *)

Held(kind, s) == kind = "event" /\ s.status = "paused"

\* ssfEventMatchesStream
Matches(kind, delivery, held, s) ==
    /\ delivery = s.method
    /\ kind = "event" => s.status # "disabled" /\ held = (s.status = "paused")

\* putEvent: a control event replaces the stream's queued one of its kind.
Put(q, e, ev) ==
    [f \in Events |->
        IF f = e THEN ev
        ELSE IF ev.kind # "event" /\ q[f].state = "queued" /\ q[f].stream = ev.stream /\ q[f].kind = ev.kind
             THEN [q[f] EXCEPT !.state = "gone"]
             ELSE q[f]]

NewEvent(s, kind, method, held) ==
    [state |-> "queued", stream |-> s, kind |-> kind, delivery |-> method, held |-> held,
     attempts |-> 0, phase |-> "due"]

\* What ssfStreamStore.Update does to the queue of stream s.
Realigned(s, new) ==
    [e \in Events |->
        IF e \notin QueuedFor(s) THEN queue[e]
        ELSE IF queue[e].kind # "event" THEN [queue[e] EXCEPT !.delivery = new.method]
        ELSE IF new.status = "disabled" THEN Gone(e)
        ELSE [queue[e] EXCEPT !.delivery = new.method, !.held = (new.status = "paused")]]

-----------------------------------------------------------------------------
(* The transmitter *)

\* Publish, one target: the stream as ListActive returned it.  The receiver's
\* grant and client are looked up before the event is built.
PublishTo(p, s) ==
    /\ pub[p].pc = "idle"
    /\ streams[s].status \in {"enabled", "paused"}
    /\ \E e \in Events :
         /\ queue[e].state = "free" /\ \A q \in Publishers : pub[q].event # e
         /\ pub' = [pub EXCEPT ![p] = [pc |-> "enqueue", stream |-> s, kind |-> "event",
                                       snap |-> streams[s], event |-> e, tries |-> 1]]
    /\ UNCHANGED <<streams, queue, mgr, updates>>

\* verify and the last step of createStream: a verification event.
RequestVerification(p, s) ==
    /\ pub[p].pc = "idle"
    /\ Exists(s)
    /\ \E e \in Events :
         /\ queue[e].state = "free" /\ \A q \in Publishers : pub[q].event # e
         /\ pub' = [pub EXCEPT ![p] = [pc |-> "enqueue", stream |-> s, kind |-> "verification",
                                       snap |-> streams[s], event |-> e, tries |-> 1]]
    /\ UNCHANGED <<streams, queue, mgr, updates>>

Tagged(p) == NewEvent(pub[p].stream, pub[p].kind, pub[p].snap.method, Held(pub[p].kind, pub[p].snap))

\* Mutant: the event is stored whatever the stream has become.
EnqueueUnchecked(p) ==
    /\ pub[p].pc = "enqueue"
    /\ queue' = Put(queue, pub[p].event, Tagged(p))
    /\ pub' = [pub EXCEPT ![p].pc = "done"]
    /\ UNCHANGED <<streams, mgr, updates>>

\* ssfEventStore.Enqueue under the transmitter's loop.  A stream that does
\* not exist checks nothing.
Enqueue(p) ==
    LET s == pub[p].stream IN
    /\ pub[p].pc = "enqueue"
    /\ \/ /\ Exists(s) => Matches(pub[p].kind, Tagged(p).delivery, Tagged(p).held, streams[s])
          /\ queue' = Put(queue, pub[p].event, Tagged(p))
          /\ pub' = [pub EXCEPT ![p].pc = "done"]
       \/ /\ Exists(s) /\ ~Matches(pub[p].kind, Tagged(p).delivery, Tagged(p).held, streams[s])
          /\ pub' = [pub EXCEPT ![p].pc = IF pub[p].tries = EnqueueAttempts THEN "failed" ELSE "reread"]
          /\ UNCHANGED queue
    /\ UNCHANGED <<streams, mgr, updates>>

\* The stream is read again and the event re-tagged, unless the stream is
\* gone or no longer takes ordinary events.
Reread(p) ==
    LET s == pub[p].stream IN
    /\ pub[p].pc = "reread"
    /\ \/ /\ ~Exists(s) \/ (pub[p].kind = "event" /\ streams[s].status = "disabled")
          /\ pub' = [pub EXCEPT ![p].pc = "dropped"]
       \/ /\ Exists(s) /\ ~(pub[p].kind = "event" /\ streams[s].status = "disabled")
          /\ pub' = [pub EXCEPT ![p].pc = "enqueue", ![p].snap = streams[s], ![p].tries = @ + 1]
    /\ UNCHANGED <<streams, queue, mgr, updates>>

\* The call returns; its jti is spent.
PublishEnds(p) ==
    /\ pub[p].pc \in {"done", "dropped", "failed"}
    /\ pub' = [pub EXCEPT ![p] = NoPub]
    /\ queue' = IF Queued(pub[p].event) THEN queue
                ELSE [queue EXCEPT ![pub[p].event].state = "gone"]
    /\ UNCHANGED <<streams, mgr, updates>>

-----------------------------------------------------------------------------
(* The management endpoints *)

\* A push delivery leaves the header out, supplies it or clears it.
DeliveriesTo(urls) == {[method |-> "poll", endpoint |-> "none", header |-> "none"]}
    \cup {[method |-> "push", endpoint |-> u, header |-> h] : u \in urls, h \in {"none", "same", "clear"}}

\* createStream: Create refuses a second stream of the receiver.
CreateStream(s) ==
    /\ streams[s].status = "new" /\ updates < MaxUpdates
    /\ \A t \in Streams : Exists(t) => Owner[t] # Owner[s]
    /\ \E d \in DeliveriesTo(Endpoints) :
         streams' = [streams EXCEPT ![s] = [status |-> "enabled", method |-> d.method, endpoint |-> d.endpoint,
                                            header |-> IF d.header = "same" THEN d.endpoint ELSE "none"]]
    /\ updates' = updates + 1
    /\ UNCHANGED <<queue, pub, mgr>>

\* ownedStream: the handler works on this copy.
ReadOwned(m, s) ==
    /\ mgr[m].pc = "idle" /\ Exists(s)
    /\ mgr' = [mgr EXCEPT ![m] = [pc |-> "write", stream |-> s, snap |-> streams[s]]]
    /\ UNCHANGED <<streams, queue, pub, updates>>

\* ssfStreamStore.Update with an optional notice.
Update(m, new, notices) ==
    LET s == mgr[m].stream IN
    /\ mgr[m].pc = "write" /\ updates < MaxUpdates
    /\ mgr' = [mgr EXCEPT ![m] = NoMgr]
    /\ updates' = updates + 1
    /\ \/ ~Exists(s) /\ UNCHANGED <<streams, queue>>
       \/ /\ Exists(s)
          /\ streams' = [streams EXCEPT ![s] = new]
          /\ \/ notices = {} /\ queue' = Realigned(s, new)
             \/ \E e \in notices : queue' = Put(Realigned(s, new), e, NewEvent(s, "stream-updated", new.method, FALSE))
    /\ UNCHANGED pub

FreeJTIs == {e \in Events : queue[e].state = "free" /\ \A q \in Publishers : pub[q].event # e}

\* setStatus: a change of the status the handler read is announced.
SetStatus(m, status) ==
    LET new == [mgr[m].snap EXCEPT !.status = status] IN
    IF mgr[m].snap.status = status THEN Update(m, new, {})
    ELSE FreeJTIs # {} /\ Update(m, new, FreeJTIs)

\* applyDelivery over the current delivery, which a replacing request drops.
\* A header that is not supplied again is kept.
Base(cur, replace) == IF replace THEN [cur EXCEPT !.method = "poll", !.endpoint = "none", !.header = "none"] ELSE cur

DeliveryAfter(cur, d) ==
    IF d.method = "poll" THEN [cur EXCEPT !.method = "poll", !.endpoint = "none", !.header = "none"]
    ELSE [cur EXCEPT !.method = "push", !.endpoint = d.endpoint,
                     !.header = CASE d.header = "same" -> d.endpoint [] d.header = "clear" -> "none" [] OTHER -> @]

\* Mutant: a new endpoint inherits the sealed header.
DeliveryRefusedNever(cur, d) == FALSE

\* pushDelivery refuses a new endpoint without its header while one is sealed.
DeliveryRefused(cur, d) ==
    d.method = "push" /\ d.header = "none" /\ cur.header # "none" /\ cur.endpoint # d.endpoint

UpdateDelivery(m, d, replace) ==
    LET cur == Base(mgr[m].snap, replace) IN
    /\ ~DeliveryRefused(cur, d)
    /\ Update(m, DeliveryAfter(cur, d), {})

\* A refused request leaves the stream as it is.
RefuseUpdate(m) ==
    /\ mgr[m].pc = "write"
    /\ mgr' = [mgr EXCEPT ![m] = NoMgr]
    /\ UNCHANGED <<streams, queue, pub, updates>>

\* deleteStream: the stream goes with its queue.
DeleteStream(m) ==
    LET s == mgr[m].stream IN
    /\ mgr[m].pc = "write" /\ updates < MaxUpdates
    /\ mgr' = [mgr EXCEPT ![m] = NoMgr]
    /\ updates' = updates + 1
    /\ \/ ~Exists(s) /\ UNCHANGED <<streams, queue>>
       \/ /\ Exists(s)
          /\ streams' = [streams EXCEPT ![s] = [NoStream EXCEPT !.status = "deleted"]]
          /\ queue' = [e \in Events |-> IF e \in QueuedFor(s) THEN Gone(e) ELSE queue[e]]
    /\ UNCHANGED pub

PublisherStep(p) == Enqueue(p) \/ Reread(p) \/ PublishEnds(p)

ManagerStep(m) ==
    \/ \E status \in Statuses : SetStatus(m, status)
    \/ \E d \in DeliveriesTo(Endpoints), replace \in BOOLEAN : UpdateDelivery(m, d, replace)
    \/ RefuseUpdate(m) \/ DeleteStream(m)

QueueNext ==
    \/ \E p \in Publishers : PublisherStep(p) \/ \E s \in Streams : PublishTo(p, s) \/ RequestVerification(p, s)
    \/ \E m \in Managers : ManagerStep(m) \/ \E s \in Streams : ReadOwned(m, s)
    \/ \E s \in Streams : CreateStream(s)

QueueSpec == QueueInit /\ [][QueueNext]_queueVars

QueueTypeOK ==
    /\ streams \in [Streams -> StreamRecords]
    /\ queue \in [Events -> [state : {"free", "queued", "gone"}, stream : Streams \cup {"none"}, kind : Kinds,
                             delivery : {"push", "poll"}, held : BOOLEAN, attempts : Nat,
                             phase : {"due", "leased", "backoff"}]]
    /\ pub \in [Publishers -> [pc : {"idle", "enqueue", "reread", "done", "dropped", "failed"},
                               stream : Streams \cup {"none"}, kind : Kinds, snap : StreamRecords,
                               event : Events \cup {"none"}, tries : Nat]]
    /\ mgr \in [Managers -> [pc : {"idle", "write"}, stream : Streams \cup {"none"}, snap : StreamRecords]]
    /\ updates \in Nat

-----------------------------------------------------------------------------
(* Properties *)

\* Every queued event carries the tags of its stream as it is now, however
\* old the stream was that its publisher read: a paused stream's ordinary
\* events are held, a disabled stream has none, and each event waits where
\* the stream's delivery method looks for it (Enqueue's check against Update's
\* realignment; a mismatch would strand the event).
QueueMatchesStream ==
    \A e \in Events : Queued(e) /\ Exists(queue[e].stream) =>
        Matches(queue[e].kind, queue[e].delivery, queue[e].held, streams[queue[e].stream])

\* A stream never has two queued control events of one kind (putEvent).
OneControlEach ==
    \A e, f \in Events : Queued(e) /\ Queued(f) /\ e # f /\ queue[e].kind # "event"
        /\ queue[e].kind = queue[f].kind => queue[e].stream # queue[f].stream

\* A receiver owns at most one stream (createStream reads before it creates;
\* the substore decides).
OneStreamPerClient == \A s, t \in Streams : Exists(s) /\ Exists(t) /\ s # t => Owner[s] # Owner[t]

\* The sealed authorization header is only ever kept for the endpoint it was
\* supplied with, whatever stale copies concurrent handlers write back
\* (pushDelivery).
HeaderStaysWithEndpoint == \A s \in Streams : streams[s].header \in {"none", streams[s].endpoint}

\* An enqueue is given up as failed only when the stream changed under it at
\* every one of its tries (the writes include the stream's creation): fewer
\* changes than tries never lose an event.
FailedOnlyUnderChurn ==
    \A p \in Publishers : pub[p].pc = "failed" => updates > EnqueueAttempts
=============================================================================
