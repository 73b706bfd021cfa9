----------------------- MODULE BackchannelProofs -----------------------
(***************************************************************************)
(* The coordinator implements the logout ledger, keeps its bounds and      *)
(* drains what it admitted, for any number of notices, receivers, workers, *)
(* slots and faults.                                                       *)
(***************************************************************************)
EXTENDS BackchannelLogout, FiniteSetTheorems, TLAPS

\* Receivers whose verdict is still to come.
Pending(n) == todo[n] \union queue[n] \union busy[n]

FanType ==
  /\ stage \in [Notices -> Stages]
  /\ page \in [Notices -> SUBSET Receivers]
  /\ todo \in [Notices -> SUBSET Receivers]
  /\ queue \in [Notices -> SUBSET Receivers]
  /\ busy \in [Notices -> SUBSET Receivers]
  /\ verdict \in [Notices -> [Receivers -> Outcomes]]

\* Nothing is known of a fan-out before its page is read.
Untold(n) ==
  stage[n] \in {"new", "admitted", "listing", "shed"} =>
    page[n] = {} /\ \A c \in Receivers : verdict[n][c] = "none"

\* A receiver of the page lacks a verdict exactly while one of the three
\* work sets holds it, and those sets fill and empty in stage order.
Sorted(n) ==
  /\ \A c \in Receivers : c \in Pending(n) => c \in page[n] /\ verdict[n][c] = "none"
  /\ \A c \in page[n] : verdict[n][c] = "none" => c \in Pending(n)
  /\ \A c \in Receivers : c \in todo[n] => c \notin queue[n] /\ c \notin busy[n]
  /\ \A c \in Receivers : c \in queue[n] => c \notin busy[n]
  /\ todo[n] # {} => stage[n] = "resolving"
  /\ queue[n] # {} => stage[n] \in {"resolving", "dispatching"}
  /\ busy[n] # {} => stage[n] = "dispatching"

Shape == FanType /\ \A n \in Notices : Untold(n) /\ Sorted(n)

-----------------------------------------------------------------------------
LEMMA InitShape == Init => Shape
  BY DEF Init, Shape, FanType, Untold, Sorted, Pending, Stages, Outcomes

\* Steps that move a fan-out between stages and touch no work set.
LEMMA StageShape ==
  ASSUME Shape, NEW n \in Notices,
         NotifyDetached(n) \/ Count(n) \/ DispatchTargets(n) \/ Release(n) \/ Done(n)
  PROVE  Shape'
  <1> USE DEF Shape, FanType, Untold, Sorted, Pending, Stages, Outcomes
  <1>1. CASE NotifyDetached(n)
    <2>1. ASSUME NEW s \in {"admitted", "shed"}, stage[n] = "new",
                 stage' = [stage EXCEPT ![n] = s],
                 UNCHANGED <<page, todo, queue, busy, verdict>>
          PROVE  Shape'
      BY <2>1
    <2> QED BY <1>1, <2>1, Zenon DEF NotifyDetached
  <1>2. CASE Count(n)
    BY <1>2 DEF Count
  <1>3. CASE DispatchTargets(n)
    BY <1>3 DEF DispatchTargets
  <1>4. CASE Release(n)
    BY <1>4 DEF Release
  <1>5. CASE Done(n)
    BY <1>5 DEF Done
  <1> QED BY <1>1, <1>2, <1>3, <1>4, <1>5, Zenon

\* The step that fixes the audience.
LEMMA PageShape ==
  ASSUME Shape, NEW n \in Notices, ListClients(n) \/ NotifyClientDeleted(n)
  PROVE  Shape'
  <1> USE DEF Shape, FanType, Untold, Sorted, Pending, Stages, Outcomes
  <1>1. CASE ListClients(n)
    <2>1. ASSUME stage[n] = "listing", NEW clients \in SUBSET Receivers,
                 page' = [page EXCEPT ![n] = clients],
                 todo' = [todo EXCEPT ![n] = clients],
                 stage' = [stage EXCEPT ![n] = "resolving"],
                 UNCHANGED <<queue, busy, verdict>>
          PROVE  Shape'
      BY <2>1
    <2>2. ASSUME stage[n] = "listing", stage' = [stage EXCEPT ![n] = "released"],
                 UNCHANGED <<page, todo, queue, busy, verdict>>
          PROVE  Shape'
      BY <2>2
    <2> QED BY <1>1, <2>1, <2>2, Zenon DEF ListClients, Pages
  <1>2. CASE NotifyClientDeleted(n)
    BY <1>2 DEF NotifyClientDeleted, Pages
  <1> QED BY <1>1, <1>2, Zenon

\* Steps that move one receiver towards its verdict.
LEMMA WorkShape ==
  ASSUME Shape, NEW n \in Notices, NEW c \in Receivers,
         Resolve(n, c) \/ TakeJob(n, c) \/ DispatchOne(n, c)
  PROVE  Shape'
  <1> USE DEF Shape, FanType, Untold, Sorted, Pending, Stages, Outcomes
  <1>1. CASE Resolve(n, c)
    <2>1. ASSUME NEW v \in {"skipped", "unresolved"},
                 verdict' = [verdict EXCEPT ![n][c] = v],
                 stage[n] = "resolving", c \in todo[n],
                 todo' = [todo EXCEPT ![n] = @ \ {c}],
                 UNCHANGED <<stage, page, queue, busy>>
          PROVE  Shape'
      BY <2>1
    <2>2. ASSUME stage[n] = "resolving", c \in todo[n],
                 todo' = [todo EXCEPT ![n] = @ \ {c}],
                 queue' = [queue EXCEPT ![n] = @ \union {c}],
                 UNCHANGED <<stage, page, verdict, busy>>
          PROVE  Shape'
      BY <2>2
    <2> QED BY <1>1, <2>1, <2>2, SMTT(30) DEF Resolve
  <1>2. CASE TakeJob(n, c)
    BY <1>2 DEF TakeJob
  <1>3. CASE DispatchOne(n, c)
    <2>1. ASSUME NEW v \in {"delivered", "failed"},
                 verdict' = [verdict EXCEPT ![n][c] = v],
                 c \in busy[n],
                 busy' = [busy EXCEPT ![n] = @ \ {c}],
                 UNCHANGED <<stage, page, queue, todo>>
          PROVE  Shape'
      BY <2>1
    <2> QED BY <1>3, <2>1, SMTT(30) DEF DispatchOne
  <1> QED BY <1>1, <1>2, <1>3, Zenon

LEMMA NextShape == Shape /\ [Next]_vars => Shape'
  <1> SUFFICES ASSUME Shape, [Next]_vars PROVE Shape'
    BY Zenon
  <1>1. ASSUME UNCHANGED <<stage, page, todo, queue, busy, verdict>> PROVE Shape'
    BY <1>1, Zenon DEF Shape, FanType, Untold, Sorted, Pending
  <1>2. ASSUME NEW n \in Notices, BudgetElapses(n) PROVE Shape'
    BY <1>1, <1>2, Zenon DEF BudgetElapses
  <1>3. ASSUME NEW d \in Drainers, Drain(d) \/ DrainReturns(d) \/ DrainGivesUp(d)
        PROVE Shape'
    BY <1>1, <1>3, Zenon DEF Drain, DrainReturns, DrainGivesUp, fanVars
  <1>4. CASE UNCHANGED vars
    BY <1>1, <1>4, Zenon DEF vars
  <1>5. ASSUME NEW n \in Notices, FanOut(n) PROVE Shape'
    BY <1>5, StageShape, PageShape, WorkShape, Zenon DEF FanOut
  <1>6. ASSUME NEW n \in Notices, NotifyDetached(n) \/ NotifyClientDeleted(n)
        PROVE Shape'
    BY <1>6, StageShape, PageShape, Zenon
  <1> QED BY <1>2, <1>3, <1>4, <1>5, <1>6, Zenon DEF Next

-----------------------------------------------------------------------------
\* The step simulation, action by action.
LEMMA InitLedger == Init => Ledger!LedgerInit
  BY Zenon DEF Init, Ledger!LedgerInit, Status

LEMMA StageLedger ==
  ASSUME Shape, NEW n \in Notices,
         NotifyDetached(n) \/ Count(n) \/ DispatchTargets(n) \/ Release(n) \/ Done(n)
  PROVE  [Ledger!LedgerNext]_(Ledger!ledger)
  <1> USE DEF Shape, FanType, Stages, Ledger!ledger
  <1>1. CASE NotifyDetached(n) /\ stage' = [stage EXCEPT ![n] = "shed"]
    <2>1. Ledger!Shed(n)
      BY <1>1, ZenonT(30) DEF NotifyDetached, Ledger!Shed, Status
    <2> QED BY <2>1, Zenon DEF Ledger!LedgerNext
  <1>2. CASE NotifyDetached(n) /\ stage' = [stage EXCEPT ![n] = "admitted"]
    BY <1>2, Zenon DEF NotifyDetached, Status
  <1>3. CASE Count(n)
    BY <1>3, Zenon DEF Count, Status
  <1>4. CASE DispatchTargets(n)
    BY <1>4, Zenon DEF DispatchTargets, Status
  <1>5. CASE Release(n)
    <2>1. \A c \in page[n] : verdict[n][c] # "none"
      BY <1>5, SMTT(30) DEF Release, Sorted, Pending
    <2>2. Ledger!Close(n)
      BY <1>5, <2>1, ZenonT(30) DEF Release, Ledger!Close, Status
    <2> QED BY <2>2, Zenon DEF Ledger!LedgerNext
  <1>6. CASE Done(n)
    BY <1>6, Zenon DEF Done, Status
  <1> QED BY <1>1, <1>2, <1>3, <1>4, <1>5, <1>6, Zenon DEF NotifyDetached

LEMMA PageLedger ==
  ASSUME Shape, NEW n \in Notices, ListClients(n) \/ NotifyClientDeleted(n)
  PROVE  Ledger!LedgerNext
  <1> USE DEF Shape, FanType, Stages
  <1>1. ASSUME stage[n] \in {"new", "listing"}, NEW clients \in Pages,
               page' = [page EXCEPT ![n] = clients],
               stage' = [stage EXCEPT ![n] = "resolving"],
               UNCHANGED verdict
        PROVE  Ledger!Tell(n)
    <2>1. Status(n) = "open"
      BY <1>1, Zenon DEF Status
    <2>2. [m \in Notices |-> Status(m)]' =
            [[m \in Notices |-> Status(m)] EXCEPT ![n] = "told"]
      BY <1>1, ZenonT(30) DEF Status
    <2> QED BY <1>1, <2>1, <2>2, ZenonT(30) DEF Ledger!Tell
  <1>2. ASSUME stage[n] = "listing", stage' = [stage EXCEPT ![n] = "released"],
               UNCHANGED <<page, verdict>>
        PROVE  Ledger!Close(n)
    BY <1>2, ZenonT(30) DEF Ledger!Close, Status, Untold
  <1>3. CASE ListClients(n)
    BY <1>1, <1>2, <1>3, Zenon DEF ListClients, Ledger!LedgerNext
  <1>4. CASE NotifyClientDeleted(n)
    BY <1>1, <1>4, ZenonT(30) DEF NotifyClientDeleted, Ledger!LedgerNext
  <1> QED BY <1>3, <1>4, Zenon

LEMMA WorkLedger ==
  ASSUME Shape, NEW n \in Notices, NEW c \in Receivers,
         Resolve(n, c) \/ TakeJob(n, c) \/ DispatchOne(n, c)
  PROVE  [Ledger!LedgerNext]_(Ledger!ledger)
  <1> USE DEF Shape, FanType, Stages, Ledger!ledger
  <1>1. ASSUME c \in Pending(n), stage[n] \in {"resolving", "dispatching"},
               NEW v \in Ledger!Verdicts,
               verdict' = [verdict EXCEPT ![n][c] = v],
               UNCHANGED <<stage, page>>
        PROVE  Ledger!LedgerNext
    <2>1. Status(n) = "told"
      BY <1>1, Zenon DEF Status
    <2>2. c \in page[n] /\ verdict[n][c] = "none"
      BY <1>1, Zenon DEF Sorted
    <2>3. UNCHANGED [m \in Notices |-> Status(m)]
      BY <1>1, Zenon DEF Status
    <2>4. Ledger!Judge(n, c)
      BY <1>1, <2>1, <2>2, <2>3, ZenonT(30) DEF Ledger!Judge
    <2> QED BY <2>4, Zenon DEF Ledger!LedgerNext
  <1>2. ASSUME UNCHANGED <<stage, page, verdict>>
        PROVE  UNCHANGED Ledger!ledger
    BY <1>2, Zenon DEF Status
  <1>3. CASE Resolve(n, c)
    BY <1>1, <1>2, <1>3, Zenon DEF Resolve, Pending, Ledger!Verdicts
  <1>4. CASE TakeJob(n, c)
    BY <1>2, <1>4, Zenon DEF TakeJob
  <1>5. CASE DispatchOne(n, c)
    <2>1. c \in Pending(n) /\ stage[n] = "dispatching"
      BY <1>5, SMTT(30) DEF DispatchOne, Pending, Sorted
    <2> QED BY <1>1, <1>5, <2>1, SMTT(30) DEF DispatchOne, Ledger!Verdicts
  <1> QED BY <1>3, <1>4, <1>5, Zenon

LEMMA NextLedger == Shape /\ [Next]_vars => [Ledger!LedgerNext]_(Ledger!ledger)
  <1> SUFFICES ASSUME Shape, [Next]_vars
               PROVE  [Ledger!LedgerNext]_(Ledger!ledger)
    BY Zenon
  <1>1. ASSUME UNCHANGED <<stage, page, verdict>> PROVE UNCHANGED Ledger!ledger
    BY <1>1 DEF Ledger!ledger, Status
  <1>2. ASSUME NEW n \in Notices, BudgetElapses(n) PROVE UNCHANGED Ledger!ledger
    BY <1>1, <1>2, Zenon DEF BudgetElapses
  <1>3. ASSUME NEW d \in Drainers, Drain(d) \/ DrainReturns(d) \/ DrainGivesUp(d)
        PROVE UNCHANGED Ledger!ledger
    BY <1>1, <1>3, Zenon DEF Drain, DrainReturns, DrainGivesUp, fanVars
  <1>4. CASE UNCHANGED vars
    BY <1>1, <1>4, Zenon DEF vars
  <1>5. ASSUME NEW n \in Notices, FanOut(n)
        PROVE [Ledger!LedgerNext]_(Ledger!ledger)
    BY <1>5, StageLedger, PageLedger, WorkLedger, Zenon DEF FanOut
  <1>6. ASSUME NEW n \in Notices, NotifyDetached(n) \/ NotifyClientDeleted(n)
        PROVE [Ledger!LedgerNext]_(Ledger!ledger)
    BY <1>6, StageLedger, PageLedger, Zenon
  <1> QED BY <1>2, <1>3, <1>4, <1>5, <1>6, Zenon DEF Next

\* The coordinator implements the ledger, for every number of notices,
\* receivers, slots and workers: what NotifyDetached and NotifyClientDeleted
\* start is shed whole, or judged receiver by receiver, once each, and only
\* then closed.
THEOREM LedgerImplemented == Spec => ImplementsLedger
  <1>1. Spec => []Shape
    BY InitShape, NextShape, PTL DEF Spec
  <1> QED BY <1>1, InitLedger, NextLedger, PTL
       DEF Spec, ImplementsLedger, Ledger!LedgerSpec

-----------------------------------------------------------------------------
Holders == {n \in Notices : HoldsSlot(n)}

RestType ==
  /\ late \in [Notices -> SUBSET Receivers]
  /\ lapsed \in SUBSET Notices
  /\ drain \in [Drainers -> {"idle", "waiting", "returned", "gaveup"}]
  /\ owed \in [Drainers -> SUBSET Notices]
  /\ faults \in 0 .. MaxFaults

\* A deletion takes no slot and is never counted.
Synchronous ==
  \A n \in Deletions : stage[n] \in {"new", "resolving", "dispatching", "done"}

\* The channel and the wait group count what they stand for.
Counts ==
  /\ slots = Cardinality(Holders)
  /\ slots <= MaxInflight
  /\ running = Cardinality(Admitted)

PoolBound == \A n \in Notices : Cardinality(busy[n]) <= MaxConcurrent

\* A fan-out a Drain call owes is counted until it is done.
Owing ==
  \A d \in Drainers :
    /\ drain[d] = "waiting" => \A n \in owed[d] : n \in Admitted \/ stage[n] = "done"
    /\ drain[d] = "returned" => \A n \in owed[d] : stage[n] = "done"

Books == RestType /\ Synchronous /\ Counts /\ PoolBound /\ Owing

\* Both sets are finite, and what they are made of.
LEMMA SetsFinite ==
  /\ IsFiniteSet(Holders) /\ Cardinality(Holders) \in Nat
  /\ IsFiniteSet(Admitted) /\ Cardinality(Admitted) \in Nat
  <1>1. Holders \subseteq Notices /\ Admitted \subseteq Notices
    BY Zenon DEF Holders, Admitted
  <1> QED BY <1>1, BoundsAssumption, FS_Subset, FS_CardinalityType, Zenon

LEMMA InitBooks == Init => Books
  <1> SUFFICES ASSUME Init PROVE Books
    BY Zenon
  <1>1. Holders = {} /\ Admitted = {}
    BY Zenon DEF Init, Holders, HoldsSlot, Admitted
  <1>2. RestType
    BY BoundsAssumption DEF Init, RestType
  <1>3. Synchronous
    BY BoundsAssumption, Zenon DEF Init, Synchronous
  <1>4. Counts
    BY <1>1, BoundsAssumption, FS_EmptySet DEF Init, Counts
  <1>5. PoolBound
    BY BoundsAssumption, FS_EmptySet DEF Init, PoolBound
  <1>6. Owing
    BY Zenon DEF Init, Owing
  <1> QED BY <1>2, <1>3, <1>4, <1>5, <1>6, Zenon DEF Books

-----------------------------------------------------------------------------
\* How the two sets move, by the stage change of one detached fan-out.
LEMMA Unmoved ==
  ASSUME FanType, NEW n \in Notices, NEW s \in Stages,
         stage' = [stage EXCEPT ![n] = s],
         HoldsSlot(n) <=> HoldsSlot(n)', n \in Admitted <=> n \in Admitted'
  PROVE  Holders' = Holders /\ Admitted' = Admitted
  BY DEF FanType, Holders, HoldsSlot, Admitted

LEMMA TakeSlot ==
  ASSUME FanType, Counts, NEW n \in Notices \ Deletions, stage[n] = "new",
         stage' = [stage EXCEPT ![n] = "admitted"],
         slots < MaxInflight, slots' = slots + 1, running' = running
  PROVE  Counts'
  <1>1. Holders' = Holders \union {n} /\ n \notin Holders /\ Admitted' = Admitted
    BY Zenon DEF FanType, Holders, HoldsSlot, Admitted
  <1>2. Cardinality(Holders') = Cardinality(Holders) + 1
    BY <1>1, SetsFinite, FS_AddElement, ZenonT(30)
  <1>3. MaxInflight \in Nat
    BY BoundsAssumption, Zenon
  <1> QED BY <1>1, <1>2, <1>3, SetsFinite DEF Counts

LEMMA AddRunning ==
  ASSUME FanType, Counts, NEW n \in Notices \ Deletions, stage[n] = "admitted",
         stage' = [stage EXCEPT ![n] = "listing"],
         slots' = slots, running' = running + 1
  PROVE  Counts'
  <1>1. Admitted' = Admitted \union {n} /\ n \notin Admitted /\ Holders' = Holders
    BY Zenon DEF FanType, Holders, HoldsSlot, Admitted
  <1> QED BY <1>1, SetsFinite, FS_AddElement, ZenonT(30) DEF Counts

LEMMA ReturnSlot ==
  ASSUME FanType, Counts, NEW n \in Notices \ Deletions,
         stage[n] \in {"listing", "dispatching"},
         stage' = [stage EXCEPT ![n] = "released"],
         slots' = slots - 1, running' = running
  PROVE  Counts'
  <1>1. Holders' = Holders \ {n} /\ n \in Holders /\ Admitted' = Admitted
    BY Zenon DEF FanType, Holders, HoldsSlot, Admitted
  <1>2. Cardinality(Holders') = Cardinality(Holders) - 1
    BY <1>1, SetsFinite, FS_RemoveElement, ZenonT(30)
  <1>3. MaxInflight \in Nat
    BY BoundsAssumption, Zenon
  <1> QED BY <1>1, <1>2, <1>3, SetsFinite DEF Counts

LEMMA EndRunning ==
  ASSUME FanType, Counts, NEW n \in Notices \ Deletions, stage[n] = "released",
         stage' = [stage EXCEPT ![n] = "done"],
         slots' = slots, running' = running - 1
  PROVE  Counts'
  <1>1. Admitted' = Admitted \ {n} /\ n \in Admitted /\ Holders' = Holders
    BY Zenon DEF FanType, Holders, HoldsSlot, Admitted
  <1> QED BY <1>1, SetsFinite, FS_RemoveElement, ZenonT(30) DEF Counts

-----------------------------------------------------------------------------
\* The books but for the counts, under a stage change.
LEMMA StageBooks ==
  ASSUME FanType, Books, NEW n \in Notices,
         NotifyDetached(n) \/ Count(n) \/ DispatchTargets(n) \/ Release(n)
           \/ Done(n) \/ ListClients(n) \/ NotifyClientDeleted(n)
  PROVE  RestType' /\ Synchronous' /\ PoolBound' /\ Owing'
  <1> USE DEF NotifyDetached, Count, DispatchTargets, Release, Done, ListClients,
              NotifyClientDeleted, drainVars, FanType, Stages
  <1>1. RestType'
    BY BoundsAssumption, SMTT(30) DEF Books, RestType, Faulty
  <1>2. Synchronous'
    BY BoundsAssumption, SMTT(30) DEF Books, Synchronous
  <1>3. PoolBound'
    BY SMTT(30) DEF Books, PoolBound
  <1>4. \A m \in Notices : m \in Admitted \/ stage[m] = "done" =>
                             m \in Admitted' \/ stage'[m] = "done"
    BY SMTT(30) DEF Books, Synchronous, Admitted
  <1>5. \A m \in Notices : stage[m] = "done" => stage'[m] = "done"
    BY Zenon
  <1>6. UNCHANGED <<drain, owed>>
    BY Zenon
  <1>7. Owing'
    BY <1>4, <1>5, <1>6, SMTT(30) DEF Books, Owing, RestType
  <1> QED BY <1>1, <1>2, <1>3, <1>7, Zenon

LEMMA StageCounts ==
  ASSUME FanType, Books, NEW n \in Notices,
         NotifyDetached(n) \/ Count(n) \/ DispatchTargets(n) \/ Release(n)
           \/ Done(n) \/ ListClients(n) \/ NotifyClientDeleted(n)
  PROVE  Counts'
  <1> USE DEF Books, Stages
  <1>0. ASSUME NEW s \in Stages, stage' = [stage EXCEPT ![n] = s],
               HoldsSlot(n) <=> HoldsSlot(n)', n \in Admitted <=> n \in Admitted',
               UNCHANGED <<slots, running>>
        PROVE  Counts'
    BY <1>0, Unmoved, ZenonT(30) DEF Counts
  <1>1. CASE NotifyDetached(n)
    <2>1. CASE stage' = [stage EXCEPT ![n] = "admitted"]
      BY <1>1, <2>1, TakeSlot, ZenonT(30) DEF NotifyDetached, FanType
    <2>2. CASE stage' = [stage EXCEPT ![n] = "shed"]
      <3>1. UNCHANGED <<slots, running>> /\ stage[n] = "new"
        BY <1>1, <2>2, Zenon DEF NotifyDetached, FanType
      <3>2. ~HoldsSlot(n) /\ ~HoldsSlot(n)' /\ n \notin Admitted /\ n \notin Admitted'
        BY <2>2, <3>1, Zenon DEF HoldsSlot, Admitted, FanType
      <3> QED BY <1>0, <2>2, <3>1, <3>2, Zenon
    <2> QED BY <1>1, <2>1, <2>2, Zenon DEF NotifyDetached
  <1>2. CASE Count(n)
    BY <1>2, AddRunning, ZenonT(30) DEF Count, Synchronous
  <1>3. CASE DispatchTargets(n)
    <2>1. (HoldsSlot(n) <=> HoldsSlot(n)') /\ (n \in Admitted <=> n \in Admitted')
      BY <1>3, Zenon DEF DispatchTargets, HoldsSlot, Admitted, FanType
    <2> QED BY <1>0, <1>3, <2>1, ZenonT(30) DEF DispatchTargets
  <1>4. CASE Release(n)
    <2>1. CASE n \in Deletions
      <3>1. (HoldsSlot(n) <=> HoldsSlot(n)') /\ (n \in Admitted <=> n \in Admitted')
        BY <2>1, Zenon DEF HoldsSlot, Admitted
      <3> QED BY <1>0, <1>4, <2>1, <3>1, ZenonT(30) DEF Release
    <2>2. CASE n \notin Deletions
      BY <1>4, <2>2, ReturnSlot, ZenonT(30) DEF Release
    <2> QED BY <2>1, <2>2, Zenon
  <1>5. CASE Done(n)
    BY <1>5, EndRunning, ZenonT(30) DEF Done, Synchronous
  <1>6. CASE ListClients(n)
    <2>0. n \in Notices \ Deletions
      BY <1>6, Zenon DEF ListClients, Synchronous
    <2>1. CASE stage' = [stage EXCEPT ![n] = "released"]
      BY <1>6, <2>0, <2>1, ReturnSlot, ZenonT(30) DEF ListClients, FanType
    <2>2. CASE stage' = [stage EXCEPT ![n] = "resolving"]
      <3>1. (HoldsSlot(n) <=> HoldsSlot(n)') /\ (n \in Admitted <=> n \in Admitted')
        BY <1>6, <2>0, <2>2, Zenon DEF ListClients, HoldsSlot, Admitted, FanType
      <3>2. UNCHANGED <<slots, running>>
        BY <1>6, <2>2, Zenon DEF ListClients, FanType
      <3> QED BY <1>0, <2>2, <3>1, <3>2, Zenon
    <2> QED BY <1>6, <2>1, <2>2, Zenon DEF ListClients
  <1>7. CASE NotifyClientDeleted(n)
    <2>1. (HoldsSlot(n) <=> HoldsSlot(n)') /\ (n \in Admitted <=> n \in Admitted')
      BY <1>7, Zenon DEF NotifyClientDeleted, HoldsSlot, Admitted
    <2> QED BY <1>0, <1>7, <2>1, Zenon DEF NotifyClientDeleted
  <1> QED BY <1>1, <1>2, <1>3, <1>4, <1>5, <1>6, <1>7, Zenon

\* Steps that leave every stage alone.
LEMMA SteadyBooks ==
  ASSUME FanType, Books, UNCHANGED <<stage, slots, running>>,
         RestType', PoolBound', UNCHANGED <<drain, owed>>
  PROVE  Books'
  <1>1. Holders' = Holders /\ Admitted' = Admitted
    BY Zenon DEF Holders, HoldsSlot, Admitted
  <1>2. Counts'
    BY <1>1, Zenon DEF Books, Counts
  <1>3. Synchronous' /\ Owing'
    BY <1>1, Zenon DEF Books, Synchronous, Owing
  <1> QED BY <1>2, <1>3, Zenon DEF Books

LEMMA OneLess == ASSUME NEW a \in Nat, NEW b, b = a - 1 PROVE b <= a
  OBVIOUS

LEMMA WorkBooks ==
  ASSUME FanType, Books, NEW n \in Notices, NEW c \in Receivers,
         Resolve(n, c) \/ TakeJob(n, c) \/ DispatchOne(n, c)
  PROVE  Books'
  <1>0. ASSUME NEW S \in SUBSET Receivers
        PROVE IsFiniteSet(S) /\ Cardinality(S) \in Nat
    BY BoundsAssumption, FS_Subset, FS_CardinalityType, Zenon
  <1>1. CASE Resolve(n, c)
    <2>1. RestType' /\ PoolBound'
      BY <1>1, BoundsAssumption, SMTT(30) DEF Resolve, Books, RestType, PoolBound, Faulty, drainVars
    <2> QED BY <1>1, <2>1, SteadyBooks, Zenon DEF Resolve, drainVars
  <1>2. CASE TakeJob(n, c)
    <2>1. RestType'
      BY <1>2, SMTT(30) DEF TakeJob, Books, RestType, drainVars
    <2>0. IsFiniteSet(busy[n]) /\ Cardinality(busy[n]) \in Nat
      BY <1>0, Zenon DEF FanType
    <2>2. Cardinality(busy[n] \union {c}) <= Cardinality(busy[n]) + 1
      <3>1. Cardinality(busy[n] \union {c}) =
              IF c \in busy[n] THEN Cardinality(busy[n]) ELSE Cardinality(busy[n]) + 1
        BY <2>0, FS_AddElement, ZenonT(30)
      <3> QED BY <2>0, <3>1
    <2>3. Cardinality(busy'[n]) <= MaxConcurrent
      <3>1. busy'[n] = busy[n] \union {c} /\ Cardinality(busy[n]) < MaxConcurrent
        BY <1>2, SMTT(30) DEF TakeJob, FanType
      <3>2. Cardinality(busy[n] \union {c}) \in Nat
        BY <1>0, Zenon DEF FanType
      <3>3. MaxConcurrent \in Nat
        BY BoundsAssumption, Zenon
      <3> QED BY <2>0, <2>2, <3>1, <3>2, <3>3, SMTT(30)
    <2>4. PoolBound'
      BY <1>2, <2>3, Zenon DEF TakeJob, Books, PoolBound, FanType
    <2> QED BY <1>2, <2>1, <2>4, SteadyBooks, Zenon DEF TakeJob, drainVars
  <1>3. CASE DispatchOne(n, c)
    <2>1. RestType'
      BY <1>3, BoundsAssumption, SMTT(30) DEF DispatchOne, Books, RestType, Faulty, drainVars
    <2>0. IsFiniteSet(busy[n]) /\ Cardinality(busy[n]) \in Nat
      BY <1>0, Zenon DEF FanType
    <2>2. Cardinality(busy[n] \ {c}) <= Cardinality(busy[n])
      <3>1. c \in busy[n]
        BY <1>3, Zenon DEF DispatchOne
      <3>2. Cardinality(busy[n] \ {c}) = Cardinality(busy[n]) - 1
        BY <2>0, <3>1, FS_RemoveElement, ZenonT(30)
      <3> QED BY <2>0, <3>2, OneLess, Zenon
    <2>3. Cardinality(busy'[n]) <= MaxConcurrent
      <3>1. busy'[n] = busy[n] \ {c}
        BY <1>3, SMTT(30) DEF DispatchOne, FanType
      <3>2. Cardinality(busy[n] \ {c}) \in Nat
        BY <1>0, Zenon DEF FanType
      <3>3. Cardinality(busy[n]) <= MaxConcurrent /\ MaxConcurrent \in Nat
        BY BoundsAssumption, Zenon DEF Books, PoolBound
      <3> QED BY <2>0, <2>2, <3>1, <3>2, <3>3, SMTT(30)
    <2>4. PoolBound'
      BY <1>3, <2>3, SMTT(30) DEF DispatchOne, Books, PoolBound, FanType
    <2> QED BY <1>3, <2>1, <2>4, SteadyBooks, Zenon DEF DispatchOne, drainVars
  <1> QED BY <1>1, <1>2, <1>3, Zenon

LEMMA DrainBooks ==
  ASSUME FanType, Books, NEW d \in Drainers,
         Drain(d) \/ DrainReturns(d) \/ DrainGivesUp(d)
  PROVE  Books'
  <1> USE DEF Drain, DrainReturns, DrainGivesUp, fanVars
  <1>1. Holders' = Holders /\ Admitted' = Admitted
    BY Zenon DEF Holders, HoldsSlot, Admitted
  <1>2. Counts' /\ Synchronous' /\ PoolBound'
    BY <1>1, Zenon DEF Books, Counts, Synchronous, PoolBound
  <1>3. Admitted \subseteq Notices
    BY Zenon DEF Admitted
  <1>4. RestType'
    BY <1>3, Zenon DEF Books, RestType
  <1>6. CASE DrainReturns(d)
    <2>1. Admitted = {}
      BY <1>6, SetsFinite, FS_EmptySet, ZenonT(30) DEF Books, Counts
    <2>2. Owing'
      BY <1>1, <1>6, <2>1, SMTT(30) DEF Books, Owing, RestType
    <2> QED BY <1>2, <1>4, <2>2, Zenon DEF Books
  <1>7. CASE DrainGivesUp(d)
    BY <1>1, <1>2, <1>4, <1>7, SMTT(30) DEF Books, Owing, RestType
  <1>8. CASE Drain(d)
    BY <1>1, <1>2, <1>4, <1>8, SMTT(30) DEF Books, Owing, RestType
  <1> QED BY <1>6, <1>7, <1>8, Zenon

LEMMA NextBooks == Shape /\ Books /\ [Next]_vars => Books'
  <1> SUFFICES ASSUME Shape, Books, [Next]_vars PROVE Books'
    BY Zenon
  <1>0. FanType
    BY Zenon DEF Shape
  <1>1. ASSUME NEW n \in Notices, FanOut(n) PROVE Books'
    BY <1>0, <1>1, StageBooks, StageCounts, WorkBooks, Zenon DEF FanOut, Books
  <1>2. ASSUME NEW n \in Notices, NotifyDetached(n) \/ NotifyClientDeleted(n)
        PROVE Books'
    BY <1>0, <1>2, StageBooks, StageCounts, Zenon DEF Books
  <1>3. ASSUME NEW n \in Notices, BudgetElapses(n) PROVE Books'
    <2>1. RestType' /\ PoolBound'
      BY <1>3, SMTT(30) DEF BudgetElapses, Books, RestType, PoolBound, drainVars
    <2> QED BY <1>0, <1>3, <2>1, SteadyBooks, Zenon DEF BudgetElapses, drainVars
  <1>4. ASSUME NEW d \in Drainers, Drain(d) \/ DrainReturns(d) \/ DrainGivesUp(d)
        PROVE Books'
    BY <1>0, <1>4, DrainBooks, Zenon
  <1>5. CASE UNCHANGED vars
    <2>1. RestType' /\ PoolBound'
      BY <1>5, Zenon DEF vars, Books, RestType, PoolBound
    <2> QED BY <1>0, <1>5, <2>1, SteadyBooks, Zenon DEF vars
  <1> QED BY <1>1, <1>2, <1>3, <1>4, <1>5, Zenon DEF Next

LEMMA InvariantsHold == Spec => [](Shape /\ Books)
  BY InitShape, NextShape, InitBooks, NextBooks, PTL DEF Spec

\* Every variable keeps its type; the two counters by counting what they
\* stand for.
THEOREM TypeCorrect == Spec => []TypeOK
  <1>1. Shape /\ Books => TypeOK
    BY SetsFinite, BoundsAssumption DEF Shape, FanType, Books, RestType, Counts, TypeOK
  <1> QED BY <1>1, InvariantsHold, PTL

\* However many logouts arrive, at most MaxInflight detached fan-outs have
\* receivers left, and each has at most MaxConcurrent deliveries under way.
THEOREM BoundedWork == Spec => []WorkIsBounded
  <1>1. Shape /\ Books => WorkIsBounded
    <2> SUFFICES ASSUME Shape, Books PROVE WorkIsBounded
      BY Zenon
    <2> DEFINE Unfinished == {n \in Notices \ Deletions :
                                todo[n] \union queue[n] \union busy[n] # {}}
    <2>1. Unfinished \subseteq Holders
      BY ZenonT(30) DEF Shape, Sorted, Holders, HoldsSlot
    <2>2. Cardinality(Unfinished) \in Nat /\ Cardinality(Unfinished) <= Cardinality(Holders)
      BY <2>1, SetsFinite, FS_Subset, FS_CardinalityType, Zenon
    <2>3. Cardinality(Unfinished) <= MaxInflight
      BY <2>2, SetsFinite, BoundsAssumption, SMTT(30) DEF Books, Counts
    <2> QED BY <2>3, Zenon DEF Books, PoolBound, WorkIsBounded
  <1> QED BY <1>1, InvariantsHold, PTL

\* A Drain that returned nil left no receiver of a fan-out admitted before
\* it without a verdict, whatever else was admitted meanwhile.
THEOREM DrainSound == Spec => []DrainedIsFinished
  <1>1. Shape /\ Books => DrainedIsFinished
    <2> SUFFICES ASSUME Shape, Books, NEW d \in Drainers, drain[d] = "returned",
                        NEW n \in owed[d]
                 PROVE  stage[n] = "done" /\ \A c \in page[n] : verdict[n][c] # "none"
      BY SMTT(30) DEF DrainedIsFinished
    <2>1. n \in Notices /\ stage[n] = "done"
      BY Zenon DEF Books, RestType, Owing
    <2>2. Pending(n) = {}
      BY <2>1, Zenon DEF Shape, Sorted, Pending
    <2> QED BY <2>1, <2>2, Zenon DEF Shape, Sorted
  <1> QED BY <1>1, InvariantsHold, PTL
=============================================================================
