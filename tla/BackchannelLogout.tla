----------------------- MODULE BackchannelLogout -----------------------
(***************************************************************************)
(* The back-channel logout coordinator: detached fan-outs of /end_session  *)
(* under an in-flight cap, the synchronous fan-out of a client deletion,   *)
(* the worker pool both dispatch through, and Drain                        *)
(* (internal/backchannel/coordinator.go).  Signing and the HTTP exchange   *)
(* are one step that delivers or fails.                                    *)
(***************************************************************************)
EXTENDS Integers, FiniteSets

CONSTANTS Notices,       \* NotifyDetached and NotifyClientDeleted calls
          Deletions,     \* the notices that come from a client deletion
          Receivers,     \* clients of the subject; subjects of a deletion
          Drainers,      \* callers of Drain
          MaxTargets,    \* Config.MaxTargets
          MaxConcurrent, \* Config.MaxConcurrentDeliveries
          MaxInflight,   \* Config.MaxInflightFanOuts
          MaxFaults      \* bound on store, projection and delivery faults

ASSUME BoundsAssumption ==
  /\ Deletions \subseteq Notices
  /\ IsFiniteSet(Notices) /\ IsFiniteSet(Receivers)
  /\ MaxTargets \in Nat /\ MaxConcurrent \in Nat \ {0}
  /\ MaxInflight \in Nat \ {0} /\ MaxFaults \in Nat

VARIABLES stage,    \* where each fan-out is
          page,     \* the receivers it answers for
          todo,     \* those resolveTargets has not looked at yet
          queue,    \* resolved targets no worker has taken
          busy,     \* targets a worker is delivering to
          late,     \* those a worker took after the budget had elapsed
          verdict,  \* what the audit trail says of each receiver
          lapsed,   \* fan-outs whose budget has elapsed
          slots,    \* len(c.slots)
          running,  \* the wait group's counter
          drain,    \* where each Drain call is
          owed,     \* the fan-outs admitted before each Drain call
          faults    \* faults so far

fanVars == <<stage, page, todo, queue, busy, late, verdict, lapsed>>
drainVars == <<drain, owed>>
vars == <<stage, page, todo, queue, busy, late, verdict, lapsed,
          slots, running, drain, owed, faults>>

Stages == {"new", "admitted", "listing", "resolving", "dispatching",
           "released", "done", "shed"}

Outcomes == {"none", "skipped", "unresolved", "delivered", "failed"}

TypeOK ==
  /\ stage \in [Notices -> Stages]
  /\ page \in [Notices -> SUBSET Receivers]
  /\ todo \in [Notices -> SUBSET Receivers]
  /\ queue \in [Notices -> SUBSET Receivers]
  /\ busy \in [Notices -> SUBSET Receivers]
  /\ late \in [Notices -> SUBSET Receivers]
  /\ verdict \in [Notices -> [Receivers -> Outcomes]]
  /\ lapsed \in SUBSET Notices
  /\ slots \in 0 .. MaxInflight
  /\ running \in Nat
  /\ drain \in [Drainers -> {"idle", "waiting", "returned", "gaveup"}]
  /\ owed \in [Drainers -> SUBSET Notices]
  /\ faults \in 0 .. MaxFaults

Init ==
  /\ stage = [n \in Notices |-> "new"]
  /\ page = [n \in Notices |-> {}]
  /\ todo = [n \in Notices |-> {}]
  /\ queue = [n \in Notices |-> {}]
  /\ busy = [n \in Notices |-> {}]
  /\ late = [n \in Notices |-> {}]
  /\ verdict = [n \in Notices |-> [c \in Receivers |-> "none"]]
  /\ lapsed = {}
  /\ slots = 0
  /\ running = 0
  /\ drain = [d \in Drainers |-> "idle"]
  /\ owed = [d \in Drainers |-> {}]
  /\ faults = 0

\* What one bounded page may hold.
Pages == {p \in SUBSET Receivers : Cardinality(p) <= MaxTargets}

\* A fault is one more of a bounded number.
Faulty ==
  /\ faults < MaxFaults
  /\ faults' = faults + 1

\* The slot is taken without blocking; over the cap the fan-out is shed.
NotifyDetached(n) ==
  /\ stage[n] = "new" /\ n \notin Deletions
  /\ \/ /\ slots < MaxInflight
        /\ slots' = slots + 1
        /\ stage' = [stage EXCEPT ![n] = "admitted"]
     \/ /\ slots = MaxInflight
        /\ stage' = [stage EXCEPT ![n] = "shed"]
        /\ UNCHANGED slots
  /\ UNCHANGED <<page, todo, queue, busy, late, verdict, lapsed,
                 running, faults, drainVars>>

\* Mutant: the wait group is not told of the goroutine.
CountFree(n) ==
  /\ stage[n] = "admitted"
  /\ stage' = [stage EXCEPT ![n] = "listing"]
  /\ UNCHANGED <<page, todo, queue, busy, late, verdict, lapsed, slots,
                 running, faults, drainVars>>

\* The budget starts, the wait group counts the goroutine, and only then
\* does NotifyDetached return.
Count(n) ==
  /\ stage[n] = "admitted"
  /\ running' = running + 1
  /\ stage' = [stage EXCEPT ![n] = "listing"]
  /\ UNCHANGED <<page, todo, queue, busy, late, verdict, lapsed, slots,
                 faults, drainVars>>

\* ListClientIDsBySubject returns the subject's clients, at most MaxTargets
\* of them (the rest is an overflow record).  A failed read ends the fan-out.
ListClients(n) ==
  /\ stage[n] = "listing"
  /\ \/ /\ \E clients \in Pages :
             /\ page' = [page EXCEPT ![n] = clients]
             /\ todo' = [todo EXCEPT ![n] = clients]
        /\ stage' = [stage EXCEPT ![n] = "resolving"]
        /\ UNCHANGED <<slots, faults>>
     \/ /\ Faulty
        /\ slots' = slots - 1
        /\ stage' = [stage EXCEPT ![n] = "released"]
        /\ UNCHANGED <<page, todo>>
  /\ UNCHANGED <<queue, busy, late, verdict, lapsed, running, drainVars>>

\* The deletion handler took its subjects before the delete; the fan-out
\* runs on the caller's goroutine, holds no slot and is not waited for.
NotifyClientDeleted(n) ==
  /\ stage[n] = "new" /\ n \in Deletions
  /\ \E subjects \in Pages :
       /\ page' = [page EXCEPT ![n] = subjects]
       /\ todo' = [todo EXCEPT ![n] = subjects]
  /\ stage' = [stage EXCEPT ![n] = "resolving"]
  /\ UNCHANGED <<queue, busy, late, verdict, lapsed, slots, running,
                 faults, drainVars>>

\* One candidate: eligible, not a target (missing client, no URI, sid
\* required), or a lookup or projection fault that is audited by name.
Resolve(n, c) ==
  /\ stage[n] = "resolving"
  /\ c \in todo[n]
  /\ todo' = [todo EXCEPT ![n] = @ \ {c}]
  /\ \/ /\ queue' = [queue EXCEPT ![n] = @ \union {c}]
        /\ UNCHANGED <<verdict, faults>>
     \/ /\ n \notin Deletions
        /\ verdict' = [verdict EXCEPT ![n][c] = "skipped"]
        /\ UNCHANGED <<queue, faults>>
     \/ /\ Faulty
        /\ verdict' = [verdict EXCEPT ![n][c] = "unresolved"]
        /\ UNCHANGED queue
  /\ UNCHANGED <<stage, page, busy, late, lapsed, slots, running, drainVars>>

\* The resolved targets go to the worker pool, which may be empty.
DispatchTargets(n) ==
  /\ stage[n] = "resolving"
  /\ todo[n] = {}
  /\ stage' = [stage EXCEPT ![n] = "dispatching"]
  /\ UNCHANGED <<page, todo, queue, busy, late, verdict, lapsed, slots,
                 running, faults, drainVars>>

\* Mutant: workers leave when the budget elapses, and the feed blocks.
TakeJobInBudget(n, c) ==
  /\ stage[n] = "dispatching"
  /\ c \in queue[n]
  /\ n \notin lapsed
  /\ Cardinality(busy[n]) < MaxConcurrent
  /\ queue' = [queue EXCEPT ![n] = @ \ {c}]
  /\ busy' = [busy EXCEPT ![n] = @ \union {c}]
  /\ UNCHANGED <<stage, page, todo, late, verdict, lapsed, slots, running,
                 faults, drainVars>>

\* EachBounded: a free worker takes the next target.
TakeJob(n, c) ==
  /\ stage[n] = "dispatching"
  /\ c \in queue[n]
  /\ Cardinality(busy[n]) < MaxConcurrent
  /\ queue' = [queue EXCEPT ![n] = @ \ {c}]
  /\ busy' = [busy EXCEPT ![n] = @ \union {c}]
  /\ late' = IF n \in lapsed THEN [late EXCEPT ![n] = @ \union {c}] ELSE late
  /\ UNCHANGED <<stage, page, todo, verdict, lapsed, slots, running,
                 faults, drainVars>>

\* One delivery ends.  A target taken after the budget elapsed can only
\* fail; one under way when it elapses fails, or had just been answered.
DispatchOne(n, c) ==
  /\ c \in busy[n]
  /\ busy' = [busy EXCEPT ![n] = @ \ {c}]
  /\ \/ /\ c \notin late[n]
        /\ verdict' = [verdict EXCEPT ![n][c] = "delivered"]
        /\ UNCHANGED faults
     \/ /\ verdict' = [verdict EXCEPT ![n][c] = "failed"]
        /\ \/ n \in lapsed /\ UNCHANGED faults
           \/ n \notin lapsed /\ Faulty
  /\ UNCHANGED <<stage, page, todo, queue, late, lapsed, slots, running,
                 drainVars>>

\* Mutant: the slot is given back once every target has a worker.
ReleaseEarly(n) ==
  /\ stage[n] = "dispatching"
  /\ queue[n] = {}
  /\ stage' = [stage EXCEPT ![n] = IF n \in Deletions THEN "done" ELSE "released"]
  /\ slots' = IF n \in Deletions THEN slots ELSE slots - 1
  /\ UNCHANGED <<page, todo, queue, busy, late, verdict, lapsed, running,
                 faults, drainVars>>

\* wg.Wait: the pool is empty.  The deferred calls then return the slot.
Release(n) ==
  /\ stage[n] = "dispatching"
  /\ queue[n] = {} /\ busy[n] = {}
  /\ stage' = [stage EXCEPT ![n] = IF n \in Deletions THEN "done" ELSE "released"]
  /\ slots' = IF n \in Deletions THEN slots ELSE slots - 1
  /\ UNCHANGED <<page, todo, queue, busy, late, verdict, lapsed, running,
                 faults, drainVars>>

\* The last deferred call tells the wait group.
Done(n) ==
  /\ stage[n] = "released"
  /\ running' = running - 1
  /\ stage' = [stage EXCEPT ![n] = "done"]
  /\ UNCHANGED <<page, todo, queue, busy, late, verdict, lapsed, slots,
                 faults, drainVars>>

\* The fan-out budget elapses; a deletion's starts with its dispatch.
BudgetElapses(n) ==
  /\ \/ stage[n] = "dispatching"
     \/ n \notin Deletions /\ stage[n] \in {"listing", "resolving"}
  /\ n \notin lapsed
  /\ lapsed' = lapsed \union {n}
  /\ UNCHANGED <<stage, page, todo, queue, busy, late, verdict, slots,
                 running, faults, drainVars>>

\* Detached fan-outs whose NotifyDetached call has returned.
Admitted ==
  {n \in Notices \ Deletions :
     stage[n] \in {"listing", "resolving", "dispatching", "released"}}

Drain(d) ==
  /\ drain[d] = "idle"
  /\ drain' = [drain EXCEPT ![d] = "waiting"]
  /\ owed' = [owed EXCEPT ![d] = Admitted]
  /\ UNCHANGED <<fanVars, slots, running, faults>>

DrainReturns(d) ==
  /\ drain[d] = "waiting"
  /\ running = 0
  /\ drain' = [drain EXCEPT ![d] = "returned"]
  /\ UNCHANGED <<fanVars, slots, running, owed, faults>>

\* The caller's context ends first.
DrainGivesUp(d) ==
  /\ drain[d] = "waiting"
  /\ drain' = [drain EXCEPT ![d] = "gaveup"]
  /\ UNCHANGED <<fanVars, slots, running, owed, faults>>

FanOut(n) ==
  \/ Count(n)
  \/ ListClients(n)
  \/ \E c \in Receivers : Resolve(n, c) \/ TakeJob(n, c) \/ DispatchOne(n, c)
  \/ DispatchTargets(n)
  \/ Release(n)
  \/ Done(n)

Next ==
  \/ \E n \in Notices :
       \/ NotifyDetached(n)
       \/ NotifyClientDeleted(n)
       \/ BudgetElapses(n)
       \/ FanOut(n)
  \/ \E d \in Drainers : Drain(d) \/ DrainReturns(d) \/ DrainGivesUp(d)

Spec == Init /\ [][Next]_vars

\* A started fan-out keeps running: every store call and every delivery has
\* a timeout, and its budget elapses.  Drain's goroutine is scheduled.
FairSpec ==
  /\ Spec
  /\ \A n \in Notices : WF_vars(FanOut(n)) /\ WF_vars(BudgetElapses(n))
  /\ \A d \in Drainers : WF_vars(DrainReturns(d))

-----------------------------------------------------------------------------
\* Slots are held by exactly the detached fan-outs between the select of
\* NotifyDetached and the deferred receive, so the cap is one on fan-outs.
HoldsSlot(n) ==
  /\ n \notin Deletions
  /\ stage[n] \in {"admitted", "listing", "resolving", "dispatching"}

\* The in-flight cap bounds the goroutines and sockets of every fan-out
\* together: no more than MaxInflight detached fan-outs have unfinished
\* targets, and none has more than MaxConcurrent deliveries under way
\* (NotifyDetached, EachBounded).
WorkIsBounded ==
  /\ Cardinality({n \in Notices \ Deletions :
       todo[n] \union queue[n] \union busy[n] # {}}) <= MaxInflight
  /\ \A n \in Notices : Cardinality(busy[n]) <= MaxConcurrent

\* A Drain that returned nil waited for every fan-out admitted before the
\* call: none of them still has a receiver without a verdict.
DrainedIsFinished ==
  \A d \in Drainers : drain[d] = "returned" =>
    \A n \in owed[d] :
      /\ stage[n] = "done"
      /\ \A c \in page[n] : verdict[n][c] # "none"

\* A fan-out that was started ends, however its receivers behave, and a
\* Drain ends once no fan-out is left (unless its caller gave up).
FanOutsEnd ==
  /\ \A n \in Notices : stage[n] = "listing" ~> stage[n] = "done"
  /\ \A d \in Drainers : drain[d] = "waiting" ~> drain[d] # "waiting"

\* The refinement: a fan-out is told of its audience when the page is read,
\* and closed when its goroutine gives the slot back.
Status(n) ==
  CASE stage[n] \in {"new", "admitted", "listing"} -> "open"
    [] stage[n] \in {"resolving", "dispatching"} -> "told"
    [] stage[n] \in {"released", "done"} -> "closed"
    [] stage[n] = "shed" -> "shed"

Ledger == INSTANCE LogoutLedger WITH
  status <- [n \in Notices |-> Status(n)],
  audience <- page,
  Audiences <- Pages

\* The coordinator implements the ledger: a shed notice names nobody, an
\* audience is fixed once, each member gets one verdict that never changes,
\* and the notice is closed only after all of them (NotifyDetached, Notify,
\* NotifyClientDeleted, EachBounded).
ImplementsLedger == Ledger!LedgerSpec
=============================================================================
