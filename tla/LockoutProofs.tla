------------------------------ MODULE LockoutProofs ------------------------------
(***************************************************************************)
(* What the lockout counter promises, for any number of concurrent         *)
(* submissions and any thresholds: no failure is lost, a running lock is   *)
(* never shortened, and a burst past the guard is bounded.                 *)
(*                                                                         *)
(* The counting rests on what a request read: until the subject is erased, *)
(* a snapshot whose version is still the row's is the row.  The bounds     *)
(* count requests: those past their guard, and the attempts they lost.     *)
(***************************************************************************)
EXTENDS Lockout, FiniteSetTheorems, TLAPS

N == Cardinality(Requests)

\* What a request holds of the row it read.
Snapshots ==
    \A r \in Requests :
        /\ req[r].at <= now
        /\ req[r].pc = "failSwap" => req[r].tries < MaxSwapAttempts
        /\ erasures = 0 /\ req[r].pc \in {"failSwap", "resetSwap"} =>
              /\ req[r].snap.version <= row.version
              /\ req[r].snap.version = row.version => req[r].snap = row
              /\ req[r].pc = "resetSwap" /\ req[r].snap.version = row.version => req[r].seen = total

Counting == TypeOK /\ Snapshots /\ NoFailureLost /\ StampWasLive

\* The requests past their guard.
InFlight == {r \in Requests : req[r].pc # "idle"}

LateInv == late < N /\ (Locked => late + Cardinality(InFlight) < N)

\* The attempts the requests have lost: the swaps refused so far, and one more
\* for a request whose snapshot is behind.
Stale(r) == req[r].pc = "failSwap" /\ req[r].snap.version # row.version
Losses ==
    {p \in Requests \X (1 .. MaxSwapAttempts) :
        p[2] <= req[p[1]].tries \/ (p[2] = req[p[1]].tries + 1 /\ Stale(p[1]))}

PaidInv == abandoned * MaxSwapAttempts + Cardinality(Losses) <= swaps * (N - 1) + erasures * N

-----------------------------------------------------------------------------
(* The count, the stamp and the lock *)

RowType == [count : Nat, first : Nat, until : Nat, version : Nat]
ReqType ==
    [pc : {"idle", "verify", "failRead", "failSwap", "resetRead", "resetSwap"}, snap : RowType, at : Nat,
     tries : 0 .. MaxSwapAttempts, seen : Nat]

\* The record and the idle request are of their types.
LEMMA NoRowTyped == NoRow \in RowType /\ Idle \in ReqType
<1>1. NoRow \in RowType
    BY Zenon DEF NoRow, RowType
<1> QED
    BY <1>1, LockoutAssumption DEF Idle, ReqType

\* What a committed failure writes: a live stamp or none, no stamp shortened.
LEMMA FailureWrites ==
    ASSUME NEW rec \in RowType, NEW t \in Nat
    PROVE  LET new == Stored(ApplyFailure(rec, t), rec.version) IN
           /\ new \in RowType /\ new.version = rec.version + 1
           /\ new.count = IF WindowExpired(rec.first, t) THEN 1 ELSE rec.count + 1
           /\ new.until # 0 => new.until > t
           /\ rec.until > t => new.until >= rec.until
<1> DEFINE rolled == WindowExpired(rec.first, t)
           count  == IF rolled THEN 1 ELSE rec.count + 1
           first  == IF rolled \/ rec.first = 0 THEN t ELSE rec.first
           until  == Carried(rec, Escalate(count, t), t)
<1>1. count \in Nat /\ first \in Nat
    BY DEF RowType
<1>2. Escalate(count, t) \in Nat /\ (Escalate(count, t) # 0 => Escalate(count, t) > t)
    BY <1>1, LockoutAssumption DEF Escalate
<1>3. until \in Nat /\ (until # 0 => until > t) /\ (rec.until > t => until >= rec.until)
    BY <1>2 DEF Carried, RowType
<1>4. ApplyFailure(rec, t) = [rec EXCEPT !.count = count, !.first = first, !.until = until]
    BY Zenon DEF ApplyFailure
<1> HIDE DEF count, first, until
<1>5. ApplyFailure(rec, t) = [count |-> count, first |-> first, until |-> until, version |-> rec.version]
    BY <1>4, Zenon DEF RowType
<1>6. Stored(ApplyFailure(rec, t), rec.version) =
         [count |-> count, first |-> first, until |-> until, version |-> rec.version + 1]
    BY <1>5 DEF Stored
<1>7. [count |-> count, first |-> first, until |-> until, version |-> rec.version + 1] \in RowType
    BY <1>1, <1>3 DEF RowType
<1> QED
    BY <1>3, <1>6, <1>7 DEF count

\* What a reset writes.
LEMMA ResetWrites ==
    ASSUME NEW v \in Nat
    PROVE  LET new == Stored(NoRow, v) IN
           new \in RowType /\ new.version = v + 1 /\ new.count = 0 /\ new.until = 0
    BY DEF Stored, NoRow, RowType

\* The type invariant by components.
LEMMA Typing ==
    ASSUME TypeOK
    PROVE  /\ row \in RowType /\ req \in [Requests -> ReqType]
           /\ now \in Nat /\ total \in Nat /\ cleared \in Nat /\ lastAt \in Nat
           /\ late \in Nat /\ swaps \in Nat /\ abandoned \in Nat
           /\ erasures \in Nat /\ faults \in Nat /\ guesses \in Nat
    BY Zenon DEF TypeOK, RowType, ReqType

\* A step that leaves the row, its counts and the other requests alone.
Local(r) ==
    /\ UNCHANGED <<row, now, total, cleared, swaps, late, lastAt, erasures>>
    /\ {faults', guesses', abandoned'} \subseteq Nat
    /\ req' \in [Requests -> ReqType]
    /\ \A s \in Requests \ {r} : req'[s] = req[s]

\* Such a step counts right when what the request now holds is the row.
LEMMA LocalCounting ==
    ASSUME Counting, NEW r \in Requests, Local(r),
           req'[r].at <= now,
           req'[r].pc = "failSwap" => req'[r].tries < MaxSwapAttempts /\ req'[r].snap = row,
           req'[r].pc = "resetSwap" => req'[r].snap = row /\ req'[r].seen = total
    PROVE  Counting'
<1>1. TypeOK'
    BY Typing DEF Counting, Local, TypeOK, RowType, ReqType
<1>2. Snapshots'
    BY Typing DEF Counting, Local, Snapshots, RowType
<1> QED
    BY <1>1, <1>2, Zenon DEF Counting, Local, NoFailureLost, StampWasLive

\* The steps of a request that write nothing.
LEMMA ReadsCount ==
    ASSUME Counting, NEW r \in Requests,
           \/ Guard(r) \/ Evaluate(r) \/ FailRead(r) \/ ResetRead(r) \/ Fault(r)
    PROVE  Counting'
<1> USE DEF Counting, Counts
<1>1. \/ req' = [req EXCEPT ![r] = [Idle EXCEPT !.pc = "verify"]]
      \/ req' = [req EXCEPT ![r] = [req[r] EXCEPT !.pc = "resetRead"]]
      \/ req' = [req EXCEPT ![r] = [req[r] EXCEPT !.pc = "failRead", !.at = now]]
      \/ req' = [req EXCEPT ![r] = Idle]
      \/ /\ req[r].tries < MaxSwapAttempts
         /\ req' = [req EXCEPT ![r] = [req[r] EXCEPT !.pc = "failSwap", !.snap = row]]
      \/ req' = [req EXCEPT ![r] = [req[r] EXCEPT !.pc = "resetSwap", !.snap = row, !.seen = total]]
    BY Zenon DEF Guard, Evaluate, FailRead, ResetRead, Fault, Set
<1>2. UNCHANGED <<row, now, total, cleared, swaps, late, lastAt, erasures>>
    BY Zenon DEF Guard, Evaluate, FailRead, ResetRead, Fault
<1>3. {faults', guesses', abandoned'} \subseteq Nat
    BY Typing DEF Guard, Evaluate, FailRead, ResetRead, Fault
<1>4. /\ req'[r] \in ReqType /\ req'[r].at <= now
      /\ req'[r].pc = "failSwap" => req'[r].tries < MaxSwapAttempts /\ req'[r].snap = row
      /\ req'[r].pc = "resetSwap" => req'[r].snap = row /\ req'[r].seen = total
    <2>1. /\ req[r] \in ReqType /\ req[r].at <= now /\ row \in RowType /\ now \in Nat /\ total \in Nat
          /\ req \in [Requests -> ReqType]
        BY Typing, Zenon DEF Snapshots
    <2>2. Idle \in ReqType /\ Idle.at <= now /\ Idle.pc = "idle"
        BY <2>1, NoRowTyped DEF Idle
    <2>3. CASE \/ req' = [req EXCEPT ![r] = [Idle EXCEPT !.pc = "verify"]]
               \/ req' = [req EXCEPT ![r] = Idle]
        BY <2>1, <2>2, <2>3 DEF ReqType
    <2>4. CASE req' = [req EXCEPT ![r] = [req[r] EXCEPT !.pc = "resetRead"]]
        BY <2>1, <2>4, Zenon DEF ReqType
    <2>5. CASE req' = [req EXCEPT ![r] = [req[r] EXCEPT !.pc = "failRead", !.at = now]]
        <3>1. req'[r] = [req[r] EXCEPT !.pc = "failRead", !.at = now]
            BY <2>1, <2>5, Zenon
        <3>2. req'[r] \in ReqType /\ req'[r].at = now /\ req'[r].pc = "failRead"
            BY <2>1, <3>1, Zenon DEF ReqType
        <3> QED
            BY <2>1, <3>2
    <2>6. CASE /\ req[r].tries < MaxSwapAttempts
               /\ req' = [req EXCEPT ![r] = [req[r] EXCEPT !.pc = "failSwap", !.snap = row]]
        BY <2>1, <2>6, Zenon DEF ReqType
    <2>7. CASE req' = [req EXCEPT ![r] = [req[r] EXCEPT !.pc = "resetSwap", !.snap = row, !.seen = total]]
        BY <2>1, <2>7, Zenon DEF ReqType
    <2> QED
        BY <1>1, <2>3, <2>4, <2>5, <2>6, <2>7, Zenon
<1>5. Local(r)
    BY <1>1, <1>2, <1>3, <1>4, Typing, Zenon DEF Local
<1> QED
    BY <1>4, <1>5, LocalCounting, Zenon

\* A committed write: the request is done, the row is new, and every snapshot
\* taken before is behind it.
Commits(r) ==
    /\ Swaps(req[r].snap.version) /\ req' = [req EXCEPT ![r] = Idle]
    /\ row' \in RowType /\ row'.version = row.version + 1
    /\ UNCHANGED <<now, faults, erasures, guesses, abandoned>>

\* After a commit no snapshot is the row, so only the row's own claims remain.
LEMMA CommitCounting ==
    ASSUME Counting, NEW r \in Requests, Commits(r),
           {total', cleared', swaps', late', lastAt'} \subseteq Nat, NoFailureLost', StampWasLive'
    PROVE  Counting'
<1>1. req' \in [Requests -> ReqType]
    BY Typing, NoRowTyped, Zenon DEF Counting, Commits
<1>2. TypeOK'
    BY <1>1, Typing DEF Counting, Commits, TypeOK, RowType, ReqType
<1>3. Snapshots'
    <2>1. req'[r] = Idle /\ Idle.at <= now' /\ Idle.pc = "idle"
        BY Typing DEF Counting, Commits, Idle
    <2>2. \A s \in Requests \ {r} : req'[s] = req[s] /\ req[s].snap.version \in Nat
        BY Typing, Zenon DEF Counting, Commits, ReqType, RowType
    <2>3. row.version \in Nat /\ row'.version = row.version + 1 /\ now' = now /\ erasures' = erasures
        BY Typing, Zenon DEF Counting, Commits, RowType
    <2> QED
        BY <2>1, <2>2, <2>3 DEF Counting, Snapshots
<1> QED
    BY <1>2, <1>3, Zenon DEF Counting

\* A committed failure, by its parts.
LEMMA FailCommit ==
    ASSUME Counting, NEW r \in Requests, FailSwap(r), Swaps(req[r].snap.version)
    PROVE  /\ Commits(r)
           /\ total' = total + 1 /\ swaps' = swaps + 1 /\ lastAt' = req[r].at
           /\ cleared' = IF WindowExpired(req[r].snap.first, req[r].at) THEN total ELSE cleared
           /\ late' = IF Locked THEN late + 1 ELSE 0
           /\ row'.count = IF WindowExpired(req[r].snap.first, req[r].at) THEN 1 ELSE req[r].snap.count + 1
           /\ row'.until # 0 => row'.until > req[r].at
           /\ req[r].snap.until > req[r].at => row'.until >= req[r].snap.until
<1> DEFINE rec == req[r].snap
           t   == req[r].at
<1>1. rec \in RowType /\ t \in Nat
    BY Typing, Zenon DEF Counting, ReqType
<1>2. row' = Stored(ApplyFailure(rec, t), rec.version)
    BY Zenon DEF FailSwap
<1>3. /\ row' \in RowType /\ row'.version = rec.version + 1
      /\ row'.count = IF WindowExpired(rec.first, t) THEN 1 ELSE rec.count + 1
      /\ row'.until # 0 => row'.until > t
      /\ rec.until > t => row'.until >= rec.until
    BY <1>1, <1>2, FailureWrites, Zenon
<1>4. Commits(r)
    BY <1>3, Zenon DEF Commits, FailSwap, Swaps, Set
<1> QED
    BY <1>3, <1>4, Zenon DEF FailSwap

\* A committed reset, by its parts.
LEMMA ResetCommit ==
    ASSUME Counting, NEW r \in Requests, ResetSwap(r), Swaps(req[r].snap.version)
    PROVE  /\ Commits(r)
           /\ swaps' = swaps + 1 /\ cleared' = req[r].seen
           /\ UNCHANGED <<total, late, lastAt>>
           /\ row'.count = 0 /\ row'.until = 0
<1>1. req[r].snap.version \in Nat
    BY Typing, Zenon DEF Counting, ReqType, RowType
<1>2. row' = Stored(NoRow, req[r].snap.version)
    BY Zenon DEF ResetSwap
<1>3. row' \in RowType /\ row'.version = req[r].snap.version + 1 /\ row'.count = 0 /\ row'.until = 0
    BY <1>1, <1>2, ResetWrites, Zenon
<1>4. Commits(r)
    BY <1>3, Zenon DEF Commits, ResetSwap, Swaps, Set
<1> QED
    BY <1>3, <1>4, Zenon DEF ResetSwap

\* Both swaps keep the count, whether they win or lose.
LEMMA SwapsCount ==
    ASSUME Counting, NEW r \in Requests, FailSwap(r) \/ ResetSwap(r)
    PROVE  Counting'
<1> USE DEF Counting
<1>1. CASE FailSwap(r) /\ Swaps(req[r].snap.version)
    <2>1. erasures = 0 => req[r].snap = row
        BY <1>1, Zenon DEF FailSwap, Snapshots, Swaps
    <2>2. NoFailureLost'
        BY <1>1, <2>1, FailCommit, Typing DEF NoFailureLost, Commits, RowType
    <2>3. StampWasLive'
        BY <1>1, FailCommit, Zenon DEF StampWasLive
    <2>4. {total', cleared', swaps', late', lastAt'} \subseteq Nat
        BY <1>1, FailCommit, Typing DEF ReqType
    <2> QED
        BY <1>1, <2>2, <2>3, <2>4, FailCommit, CommitCounting, Zenon
<1>2. CASE ResetSwap(r) /\ Swaps(req[r].snap.version)
    <2>1. erasures = 0 => req[r].seen = total
        BY <1>2, Zenon DEF ResetSwap, Snapshots, Swaps
    <2>2. NoFailureLost'
        BY <1>2, <2>1, ResetCommit, Typing DEF NoFailureLost, Commits
    <2>3. StampWasLive'
        BY <1>2, ResetCommit, Zenon DEF StampWasLive
    <2>4. {total', cleared', swaps', late', lastAt'} \subseteq Nat
        BY <1>2, ResetCommit, Typing DEF ReqType
    <2> QED
        BY <1>2, <2>2, <2>3, <2>4, ResetCommit, CommitCounting, Zenon
<1>3. CASE ~Swaps(req[r].snap.version)
    <2>1. /\ UNCHANGED <<row, now, total, cleared, swaps, late, lastAt, erasures>>
          /\ UNCHANGED <<faults, guesses, abandoned>>
          /\ \/ req' = [req EXCEPT ![r] = Idle]
             \/ /\ req[r].pc = "failSwap"
                /\ req' = [req EXCEPT ![r] = [req[r] EXCEPT !.pc = "failRead", !.tries = req[r].tries + 1]]
        BY <1>3, Zenon DEF FailSwap, ResetSwap, Set
    <2>2. req'[r] \in ReqType /\ req'[r].at <= now /\ req'[r].pc \notin {"failSwap", "resetSwap"}
        <3>1. req[r] \in ReqType /\ req[r].at <= now /\ now \in Nat /\ req \in [Requests -> ReqType]
            BY Typing, Zenon DEF Snapshots
        <3>2. Idle \in ReqType /\ Idle.at <= now /\ Idle.pc = "idle"
            BY <3>1, NoRowTyped DEF Idle
        <3>3. req[r].pc = "failSwap" => req[r].tries + 1 \in 0 .. MaxSwapAttempts
            BY <3>1, LockoutAssumption DEF Snapshots, ReqType
        <3>4. CASE req' = [req EXCEPT ![r] = Idle]
            BY <3>1, <3>2, <3>4, Zenon
        <3>5. CASE /\ req[r].pc = "failSwap"
                   /\ req' = [req EXCEPT ![r] = [req[r] EXCEPT !.pc = "failRead", !.tries = req[r].tries + 1]]
            BY <3>1, <3>3, <3>5, Zenon DEF ReqType
        <3> QED
            BY <2>1, <3>4, <3>5, Zenon
    <2>3. Local(r)
        BY <2>1, <2>2, Typing, Zenon DEF Local
    <2> QED
        BY <2>2, <2>3, LocalCounting, Zenon
<1> QED
    BY <1>1, <1>2, <1>3, Zenon

\* Every step of the counter keeps the count.
LEMMA NextCounting ==
    ASSUME Counting, [Next]_vars
    PROVE  Counting'
<1>1. CASE Erase
    BY <1>1, Typing, NoRowTyped DEF Erase, Counting, TypeOK, RowType, NoRow, Snapshots, NoFailureLost, StampWasLive
<1>2. CASE Tick
    BY <1>2, Typing DEF Tick, Counts, Counting, TypeOK, Snapshots, NoFailureLost, StampWasLive, ReqType
<1>3. CASE UNCHANGED vars
    BY <1>3, Zenon DEF vars, Counting, TypeOK, Snapshots, NoFailureLost, StampWasLive
<1> QED
    BY <1>1, <1>2, <1>3, ReadsCount, SwapsCount, Zenon DEF Next

\* The count holds at the start.
LEMMA InitCounting ==
    ASSUME Init
    PROVE  Counting
<1>1. TypeOK
    BY NoRowTyped DEF Init, TypeOK, RowType, ReqType
<1> QED
    BY <1>1 DEF Init, Counting, Snapshots, Idle, NoRow, NoFailureLost, StampWasLive

\* The counter keeps its types, its snapshots and its count.
THEOREM CountingAlways == Spec => []Counting
<1>1. Init => Counting
    BY InitCounting, Zenon
<1>2. Counting /\ [Next]_vars => Counting'
    BY NextCounting, Zenon
<1> QED
    BY <1>1, <1>2, PTL DEF Spec

\* A failure never shortens a running lock, also not one that read the clock
\* before the failure that set the lock did (applyFailure).
THEOREM LockNeverShortenedAlways == Spec => LockNeverShortened
<1>1. Counting /\ [Next]_vars => [erasures = 0 /\ row'.count > 0 /\ Locked => row'.until >= row.until]_vars
    <2> SUFFICES ASSUME Counting, Next, erasures = 0, row'.count > 0, Locked, row' # row
                 PROVE  row'.until >= row.until
        BY Typing DEF Counting, RowType
    <2>1. ~Erase
        BY DEF Erase, NoRow
    <2>2. PICK r \in Requests : (FailSwap(r) \/ ResetSwap(r)) /\ Swaps(req[r].snap.version)
        BY <2>1, Zenon DEF Next, Tick, Guard, Evaluate, FailRead, ResetRead, Fault, FailSwap, ResetSwap
    <2>3. FailSwap(r)
        BY <2>2, ResetCommit
    <2>4. req[r].snap = row /\ req[r].at <= now
        BY <2>2, <2>3, Zenon DEF Counting, Snapshots, FailSwap, Swaps
    <2> QED
        BY <2>2, <2>3, <2>4, FailCommit, Typing DEF Counting, Locked, RowType, ReqType
<1> QED
    BY <1>1, CountingAlways, PTL DEF Spec, LockNeverShortened

-----------------------------------------------------------------------------
(* The burst past the guard *)

\* There is a request, and finitely many are in flight.
LEMMA Finite ==
    /\ N \in Nat /\ N >= 1
    /\ IsFiniteSet(InFlight) /\ Cardinality(InFlight) \in Nat /\ Cardinality(InFlight) <= N
    /\ IsFiniteSet(Losses) /\ Cardinality(Losses) \in Nat
<1>1. IsFiniteSet(Requests) /\ Requests # {} /\ MaxSwapAttempts \in Nat
    BY LockoutAssumption, Zenon
<1>2. N \in Nat /\ N >= 1
    BY <1>1, FS_CardinalityType, FS_EmptySet DEF N
<1>3. InFlight \in SUBSET Requests
    BY Zenon DEF InFlight
<1>4. IsFiniteSet(InFlight) /\ Cardinality(InFlight) <= N
    BY <1>1, <1>3, FS_Subset, Zenon DEF N
<1>5. IsFiniteSet(1 .. MaxSwapAttempts)
    BY <1>1, FS_Interval
<1>6. IsFiniteSet(Requests \X (1 .. MaxSwapAttempts))
    BY <1>1, <1>5, FS_Product, Zenon
<1>7. Losses \in SUBSET (Requests \X (1 .. MaxSwapAttempts))
    BY Zenon DEF Losses
<1>8. IsFiniteSet(Losses)
    BY <1>6, <1>7, FS_Subset, Zenon
<1> QED
    BY <1>2, <1>4, <1>8, FS_CardinalityType, Zenon

\* The same of the next state.
LEMMA FiniteNext ==
    /\ IsFiniteSet(InFlight') /\ Cardinality(InFlight') \in Nat /\ Cardinality(InFlight') <= N
    /\ IsFiniteSet(Losses') /\ Cardinality(Losses') \in Nat
<1>1. IsFiniteSet(Requests) /\ MaxSwapAttempts \in Nat
    BY LockoutAssumption, Zenon
<1>2. InFlight' \in SUBSET Requests
    BY Zenon DEF InFlight
<1>3. IsFiniteSet(InFlight') /\ Cardinality(InFlight') <= N
    BY <1>1, <1>2, FS_Subset, Zenon DEF N
<1>4. IsFiniteSet(1 .. MaxSwapAttempts)
    BY <1>1, FS_Interval
<1>5. IsFiniteSet(Requests \X (1 .. MaxSwapAttempts))
    BY <1>1, <1>4, FS_Product, Zenon
<1>6. Losses' \in SUBSET (Requests \X (1 .. MaxSwapAttempts))
    BY Zenon DEF Losses
<1>7. IsFiniteSet(Losses')
    BY <1>5, <1>6, FS_Subset, Zenon
<1> QED
    BY <1>3, <1>7, FS_CardinalityType, Zenon

\* A step that admits nobody and sets no lock keeps the bound.
LEMMA NobodyAdmitted ==
    ASSUME Counting, LateInv, InFlight' \subseteq InFlight, UNCHANGED late, Locked' => Locked
    PROVE  LateInv'
<1>1. Cardinality(InFlight') <= Cardinality(InFlight)
    BY Finite, FS_Subset, Zenon
<1> QED
    BY <1>1, Finite, FiniteNext, Typing DEF LateInv, Counting, N

\* Every step of the counter keeps the bound.
LEMMA NextLate ==
    ASSUME Counting, LateInv, [Next]_vars
    PROVE  LateInv'
<1> USE DEF Counting
<1>1. CASE \E r \in Requests : Guard(r)
    BY <1>1, Zenon DEF Guard, Counts, Locked, LateInv, N
<1>2. CASE \E r \in Requests : Evaluate(r) \/ FailRead(r) \/ ResetRead(r) \/ Fault(r)
    <2>1. InFlight' \subseteq InFlight
        BY <1>2, Typing, Zenon DEF Evaluate, FailRead, ResetRead, Fault, Set, Idle, InFlight, ReqType
    <2>2. UNCHANGED <<row, now, late>>
        BY <1>2, Zenon DEF Evaluate, FailRead, ResetRead, Fault, Counts
    <2> QED
        BY <2>1, <2>2, NobodyAdmitted, Zenon DEF Locked
<1>3. CASE Erase \/ Tick \/ UNCHANGED vars
    <2>1. UNCHANGED <<req, late>>
        BY <1>3, Zenon DEF Erase, Tick, Counts, vars
    <2>2. Locked' => Locked
        BY <1>3, Typing DEF Erase, Tick, vars, Locked, NoRow, RowType
    <2> QED
        BY <2>1, <2>2, NobodyAdmitted, Zenon DEF InFlight
<1>4. CASE \E r \in Requests : ResetSwap(r)
    <2>1. PICK r \in Requests : ResetSwap(r)
        BY <1>4, Zenon
    <2>2. InFlight' \subseteq InFlight /\ UNCHANGED <<late, now>>
        BY <2>1, Typing, Zenon DEF ResetSwap, Set, Idle, InFlight
    <2>3. Locked' => Locked
        <3>1. CASE Swaps(req[r].snap.version)
            BY <2>1, <2>2, <3>1, ResetCommit, Typing DEF Locked
        <3>2. CASE ~Swaps(req[r].snap.version)
            BY <2>1, <2>2, <3>2, Zenon DEF ResetSwap, Locked
        <3> QED
            BY <3>1, <3>2, Zenon
    <2> QED
        BY <2>2, <2>3, NobodyAdmitted, Zenon
<1>5. CASE \E r \in Requests : FailSwap(r)
    <2>1. PICK r \in Requests : FailSwap(r)
        BY <1>5, Zenon
    <2>2. CASE ~Swaps(req[r].snap.version)
        <3>1. InFlight' \subseteq InFlight /\ UNCHANGED <<row, now, late>>
            BY <2>1, <2>2, Typing, Zenon DEF FailSwap, Set, InFlight, ReqType
        <3> QED
            BY <3>1, NobodyAdmitted, Zenon DEF Locked
    <2>3. CASE Swaps(req[r].snap.version)
        <3>1. InFlight' = InFlight \ {r} /\ r \in InFlight
            <4>1. req' = [req EXCEPT ![r] = Idle] /\ req[r].pc = "failSwap"
                BY <2>1, <2>3, FailCommit, Zenon DEF Commits, FailSwap
            <4> QED
                BY <4>1, Typing, Zenon DEF InFlight, Idle
        <3>2. Cardinality(InFlight') = Cardinality(InFlight) - 1
            BY <3>1, Finite, FS_RemoveElement, Zenon
        <3>3. late' = IF Locked THEN late + 1 ELSE 0
            BY <2>1, <2>3, FailCommit, Zenon
        <3> QED
            BY <3>2, <3>3, Finite, FiniteNext, Typing DEF LateInv, N
    <2> QED
        BY <2>2, <2>3, Zenon
<1> QED
    BY <1>1, <1>2, <1>3, <1>4, <1>5, Zenon DEF Next

\* A burst of submissions past the guard is bounded by the requests in flight:
\* once a lock is in force fewer failures than there are requests still land
\* (GuardBegin before every evaluation).
THEOREM LateGuessesBoundedAlways == Spec => []LateGuessesBounded
<1>1. Init => LateInv
    <2> SUFFICES ASSUME Init PROVE LateInv
        BY Zenon
    <2>1. late = 0 /\ ~Locked
        BY DEF Init, Locked, NoRow
    <2> QED
        BY <2>1, Finite DEF LateInv
<1>2. Counting /\ LateInv /\ [Next]_vars => LateInv'
    BY NextLate, Zenon
<1>3. LateInv => LateGuessesBounded
    BY Zenon DEF LateInv, LateGuessesBounded, N
<1> QED
    BY <1>1, <1>2, <1>3, CountingAlways, PTL DEF Spec

-----------------------------------------------------------------------------
(* The price of contention *)

\* The attempts that a write behind the backs of the requests in S may cost.
Costs(S) == {<<s, req[s].tries + 1>> : s \in S}

\* A write costs each of them one attempt at most.
LEMMA CostsBounded ==
    ASSUME NEW S \in SUBSET Requests, IsFiniteSet(S), Losses' \subseteq Losses \cup Costs(S)
    PROVE  Cardinality(Losses') <= Cardinality(Losses) + Cardinality(S)
<1> DEFINE f == [s \in S |-> <<s, req[s].tries + 1>>]
<1>1. f \in Surjection(S, Costs(S))
    BY Zenon DEF Surjection, Costs
<1>2. IsFiniteSet(Costs(S)) /\ Cardinality(Costs(S)) <= Cardinality(S)
    BY <1>1, FS_Surjection, Zenon
<1>3. /\ IsFiniteSet(Losses \cup Costs(S))
      /\ Cardinality(Losses \cup Costs(S)) =
            Cardinality(Losses) + Cardinality(Costs(S)) - Cardinality(Losses \cap Costs(S))
    BY <1>2, Finite, FS_Union, Zenon
<1>4. IsFiniteSet(Losses \cap Costs(S))
    BY Finite, FS_Intersection, Zenon
<1>5. Cardinality(Losses') <= Cardinality(Losses \cup Costs(S))
    BY <1>3, FS_Subset, Zenon
<1>6. /\ Cardinality(Losses \cap Costs(S)) \in Nat /\ Cardinality(Costs(S)) \in Nat
      /\ Cardinality(S) \in Nat /\ Cardinality(Losses) \in Nat /\ Cardinality(Losses') \in Nat
    BY <1>2, <1>4, Finite, FiniteNext, FS_CardinalityType, Zenon
<1> QED
    BY <1>2, <1>3, <1>5, <1>6

\* A step that costs nobody an attempt keeps the account.
LEMMA NothingLost ==
    ASSUME Counting, PaidInv, UNCHANGED <<abandoned, swaps, erasures>>, Losses' \subseteq Losses
    PROVE  PaidInv'
<1>1. Cardinality(Losses') <= Cardinality(Losses)
    BY Finite, FS_Subset, Zenon
<1>2. N' = N
    BY Zenon DEF N
<1>3. abandoned * MaxSwapAttempts \in Nat /\ swaps * (N - 1) + erasures * N \in Int
    BY Typing, Finite, LockoutAssumption DEF Counting
<1> QED
    BY <1>1, <1>2, <1>3, Finite, FiniteNext DEF PaidInv

\* A request that moves on alone under an unchanged version costs nobody else
\* an attempt.
LEMMA MovesAlone ==
    ASSUME Counting, NEW r \in Requests, row'.version = row.version,
           \A s \in Requests \ {r} : req'[s] = req[s],
           \A i \in 1 .. MaxSwapAttempts :
               i <= req'[r].tries \/ (i = req'[r].tries + 1 /\ Stale(r)') =>
                   i <= req[r].tries \/ (i = req[r].tries + 1 /\ Stale(r))
    PROVE  Losses' \subseteq Losses
<1>1. \A s \in Requests \ {r} : Stale(s)' => Stale(s)
    BY Zenon DEF Stale
<1> QED
    BY <1>1 DEF Losses

\* The steps that write nothing, and the swaps that are refused.
LEMMA ReadsLoseNothing ==
    ASSUME Counting, NEW r \in Requests,
           \/ Guard(r) \/ Evaluate(r) \/ ResetRead(r) \/ Fault(r)
           \/ FailRead(r) /\ abandoned' = abandoned
           \/ (FailSwap(r) \/ ResetSwap(r)) /\ ~Swaps(req[r].snap.version)
    PROVE  Losses' \subseteq Losses /\ UNCHANGED <<abandoned, swaps, erasures>>
<1>1. UNCHANGED <<row, swaps, erasures, abandoned>>
    BY Zenon DEF Guard, Evaluate, ResetRead, Fault, FailRead, FailSwap, ResetSwap, Counts
<1>2. req[r] \in ReqType /\ req \in [Requests -> ReqType] /\ row.version \in Nat
    BY Typing, Zenon DEF Counting, RowType
<1>3. \A s \in Requests \ {r} : req'[s] = req[s]
    BY <1>2, Zenon DEF Guard, Evaluate, ResetRead, Fault, FailRead, FailSwap, ResetSwap, Set
<1>4. \/ req'[r].tries = 0 /\ req'[r].pc # "failSwap"
      \/ req'[r].tries = req[r].tries /\ req'[r].pc # "failSwap"
      \/ req'[r].tries = req[r].tries /\ req'[r].snap = row
      \/ req'[r].tries = req[r].tries + 1 /\ req'[r].pc # "failSwap" /\ Stale(r)
    <2>1. CASE Guard(r) \/ Fault(r) \/ ResetSwap(r)
        BY <1>2, <2>1 DEF Guard, Fault, ResetSwap, Set, Idle
    <2>2. CASE Evaluate(r)
        <3>1. \/ req'[r] = [req[r] EXCEPT !.pc = "resetRead"]
              \/ req'[r] = [req[r] EXCEPT !.pc = "failRead", !.at = now]
              \/ req'[r] = Idle
            BY <1>2, <2>2, Zenon DEF Evaluate, Set
        <3>2. CASE req'[r] = [req[r] EXCEPT !.pc = "resetRead"]
            BY <1>2, <3>2, Zenon DEF ReqType
        <3>3. CASE req'[r] = [req[r] EXCEPT !.pc = "failRead", !.at = now]
            BY <1>2, <3>3, Zenon DEF ReqType
        <3>4. CASE req'[r] = Idle
            BY <3>4 DEF Idle
        <3> QED
            BY <3>1, <3>2, <3>3, <3>4, Zenon
    <2>3. CASE ResetRead(r)
        <3>1. \/ req'[r] = [req[r] EXCEPT !.pc = "resetSwap", !.snap = row, !.seen = total]
              \/ req'[r] = Idle
            BY <1>2, <2>3, Zenon DEF ResetRead, Set
        <3>2. CASE req'[r] = [req[r] EXCEPT !.pc = "resetSwap", !.snap = row, !.seen = total]
            BY <1>2, <3>2, Zenon DEF ReqType
        <3>3. CASE req'[r] = Idle
            BY <3>3 DEF Idle
        <3> QED
            BY <3>1, <3>2, <3>3, Zenon
    <2>4. CASE FailRead(r) /\ abandoned' = abandoned
        <3>1. req'[r] = [req[r] EXCEPT !.pc = "failSwap", !.snap = row]
            BY <1>2, <2>4, Typing DEF FailRead, Set, Counting
        <3> QED
            BY <1>2, <3>1, Zenon DEF ReqType
    <2>5. CASE FailSwap(r) /\ ~Swaps(req[r].snap.version)
        BY <1>2, <2>5, Zenon DEF FailSwap, Set, ReqType, Stale, Swaps
    <2> QED
        BY <2>1, <2>2, <2>3, <2>4, <2>5, Zenon
<1>5. \A i \in 1 .. MaxSwapAttempts :
         i <= req'[r].tries \/ (i = req'[r].tries + 1 /\ Stale(r)') =>
             i <= req[r].tries \/ (i = req[r].tries + 1 /\ Stale(r))
    <2>1. MaxSwapAttempts \in Nat /\ req[r].tries \in Nat
        BY <1>2, LockoutAssumption DEF ReqType
    <2>2. Stale(r)' => req'[r].pc = "failSwap" /\ req'[r].snap.version # row.version
        BY <1>1, Zenon DEF Stale
    <2> QED
        BY <1>4, <2>1, <2>2
<1> QED
    BY <1>1, <1>3, <1>5, MovesAlone, Zenon

\* A request that gives up had lost every attempt it was allowed.
LEMMA GivingUpPays ==
    ASSUME Counting, PaidInv, NEW r \in Requests, FailRead(r), req[r].tries = MaxSwapAttempts,
           abandoned' = abandoned + 1
    PROVE  PaidInv'
<1> DEFINE Own == {r} \X (1 .. MaxSwapAttempts)
<1>1. req \in [Requests -> ReqType] /\ MaxSwapAttempts \in Nat /\ MaxSwapAttempts >= 1
    BY Typing, LockoutAssumption DEF Counting
<1>2. /\ req' = [req EXCEPT ![r] = Idle]
      /\ UNCHANGED <<row, swaps, erasures>>
    BY <1>1, Typing DEF FailRead, Set, Counting
<1>3. Own \subseteq Losses
    BY <1>1 DEF Losses
<1>4. Losses' \subseteq Losses \ Own
    <2>1. req'[r].tries = 0 /\ req'[r].pc = "idle" /\ \A s \in Requests \ {r} : req'[s] = req[s]
        BY <1>1, <1>2, Zenon DEF Idle
    <2>2. \A s \in Requests \ {r} : Stale(s)' <=> Stale(s)
        BY <1>2, <2>1, Zenon DEF Stale
    <2>3. ~Stale(r)'
        BY <2>1, Zenon DEF Stale
    <2> SUFFICES ASSUME NEW p \in Losses' PROVE p \in Losses \ Own
        BY Zenon
    <2>4. p \in Requests \X (1 .. MaxSwapAttempts) /\ p[1] # r
        BY <1>1, <2>1, <2>3 DEF Losses
    <2> QED
        BY <2>1, <2>2, <2>4, Zenon DEF Losses
<1>5. IsFiniteSet(Own) /\ Cardinality(Own) = MaxSwapAttempts
    <2>1. IsFiniteSet({r}) /\ Cardinality({r}) = 1
        BY FS_Singleton, Zenon
    <2>2. IsFiniteSet(1 .. MaxSwapAttempts) /\ Cardinality(1 .. MaxSwapAttempts) = MaxSwapAttempts
        BY <1>1, FS_Interval
    <2>3. IsFiniteSet(Own) /\ Cardinality(Own) = Cardinality({r}) * Cardinality(1 .. MaxSwapAttempts)
        BY <2>1, <2>2, FS_Product, Zenon
    <2> QED
        BY <1>1, <2>1, <2>2, <2>3
<1>6. IsFiniteSet(Losses \ Own) /\ Cardinality(Losses \ Own) = Cardinality(Losses) - MaxSwapAttempts
    <2>1. IsFiniteSet(Losses \ Own) /\ Cardinality(Losses \ Own) = Cardinality(Losses) - Cardinality(Losses \cap Own)
        BY Finite, FS_Difference, Zenon
    <2>2. Losses \cap Own = Own
        BY <1>3, Zenon
    <2> QED
        BY <1>5, <2>1, <2>2, Zenon
<1>7. Cardinality(Losses') <= Cardinality(Losses) - MaxSwapAttempts
    BY <1>4, <1>6, FS_Subset
<1>8. (abandoned + 1) * MaxSwapAttempts = abandoned * MaxSwapAttempts + MaxSwapAttempts
    BY <1>1, Typing DEF Counting
<1>9. abandoned * MaxSwapAttempts \in Nat /\ swaps * (N - 1) + erasures * N \in Int /\ N' = N
    BY <1>1, Typing, Finite DEF Counting, N
<1> QED
    BY <1>1, <1>2, <1>7, <1>8, <1>9, Finite, FiniteNext DEF PaidInv

\* A new version costs an attempt to those at their swap, and to nobody else.
LEMMA WriteCosts ==
    ASSUME Counting, NEW S \in SUBSET Requests,
           \A s \in S : req'[s] = req[s],
           \A s \in Requests \ S : req'[s] = Idle
    PROVE  Losses' \subseteq Losses \cup Costs(S)
<1>1. \A s \in Requests : req[s].tries \in Nat /\ MaxSwapAttempts \in Nat
    BY Typing, LockoutAssumption DEF Counting, ReqType
<1>2. Idle.tries = 0 /\ Idle.pc = "idle"
    BY Zenon DEF Idle
<1> SUFFICES ASSUME NEW p \in Losses' PROVE p \in Losses \cup Costs(S)
    BY Zenon
<1>3. /\ p \in Requests \X (1 .. MaxSwapAttempts)
      /\ p[2] <= req'[p[1]].tries \/ (p[2] = req'[p[1]].tries + 1 /\ Stale(p[1])')
    BY Zenon DEF Losses
<1>4. p = <<p[1], p[2]>> /\ p[1] \in Requests /\ p[2] \in 1 .. MaxSwapAttempts
    BY <1>3
<1>5. p[1] \in S
    <2>1. ASSUME p[1] \notin S PROVE FALSE
        <3>1. req'[p[1]] = Idle
            BY <1>4, <2>1, Zenon
        <3> QED
            BY <1>1, <1>2, <1>3, <1>4, <3>1 DEF Stale
    <2> QED
        BY <2>1, Zenon
<1>6. req'[p[1]] = req[p[1]]
    BY <1>5, Zenon
<1>7. CASE p[2] <= req[p[1]].tries
    BY <1>3, <1>7, Zenon DEF Losses
<1>8. CASE p[2] = req[p[1]].tries + 1
    BY <1>4, <1>5, <1>8, Zenon DEF Costs
<1> QED
    BY <1>3, <1>6, <1>7, <1>8, Zenon

\* A committed write beats every other request once.
LEMMA CommitPays ==
    ASSUME Counting, PaidInv, NEW r \in Requests, Commits(r), swaps' = swaps + 1
    PROVE  PaidInv'
<1>1. req' = [req EXCEPT ![r] = Idle] /\ req \in [Requests -> ReqType] /\ UNCHANGED <<abandoned, erasures>>
    BY Typing, Zenon DEF Counting, Commits
<1>2. Losses' \subseteq Losses \cup Costs(Requests \ {r})
    BY <1>1, WriteCosts, Zenon
<1>3. IsFiniteSet(Requests \ {r}) /\ Cardinality(Requests \ {r}) = N - 1
    BY FS_RemoveElement, LockoutAssumption, Zenon DEF N
<1>4. Cardinality(Losses') <= Cardinality(Losses) + (N - 1)
    BY <1>2, <1>3, CostsBounded, Zenon
<1>5. (swaps + 1) * (N - 1) = swaps * (N - 1) + (N - 1)
    BY Typing, Finite DEF Counting
<1>6. /\ abandoned * MaxSwapAttempts \in Nat /\ swaps * (N - 1) \in Int /\ erasures * N \in Int /\ N' = N
    BY Typing, Finite, LockoutAssumption DEF Counting, N
<1> QED
    BY <1>1, <1>4, <1>5, <1>6, Finite, FiniteNext DEF PaidInv

\* An erasure beats them all.
LEMMA ErasePays ==
    ASSUME Counting, PaidInv, Erase
    PROVE  PaidInv'
<1>1. req' = req /\ UNCHANGED <<abandoned, swaps>> /\ erasures' = erasures + 1
    BY Zenon DEF Erase
<1>2. Losses' \subseteq Losses \cup Costs(Requests)
    BY <1>1, WriteCosts, Zenon
<1>3. Cardinality(Losses') <= Cardinality(Losses) + N
    BY <1>2, CostsBounded, LockoutAssumption, Zenon DEF N
<1>4. (erasures + 1) * N = erasures * N + N
    BY Typing, Finite DEF Counting
<1>5. /\ abandoned * MaxSwapAttempts \in Nat /\ swaps * (N - 1) \in Int /\ erasures * N \in Int /\ N' = N
    BY Typing, Finite, LockoutAssumption DEF Counting, N
<1> QED
    BY <1>1, <1>3, <1>4, <1>5, Finite, FiniteNext DEF PaidInv

\* Every step of the counter keeps the account.
LEMMA NextPaid ==
    ASSUME Counting, PaidInv, [Next]_vars
    PROVE  PaidInv'
<1>1. CASE Tick \/ UNCHANGED vars
    <2>1. UNCHANGED <<req, row, abandoned, swaps, erasures>>
        BY <1>1, Zenon DEF Tick, vars, Counts
    <2> QED
        BY <2>1, Zenon DEF PaidInv, Losses, Stale, N
<1>2. ASSUME NEW r \in Requests, FailRead(r) PROVE PaidInv'
    <2>1. \/ abandoned' = abandoned
          \/ req[r].tries = MaxSwapAttempts /\ abandoned' = abandoned + 1
        BY <1>2, Zenon DEF FailRead
    <2> QED
        BY <1>2, <2>1, GivingUpPays, ReadsLoseNothing, NothingLost, Zenon
<1>3. ASSUME NEW r \in Requests, FailSwap(r) \/ ResetSwap(r) PROVE PaidInv'
    <2>1. CASE Swaps(req[r].snap.version)
        BY <1>3, <2>1, FailCommit, ResetCommit, CommitPays, Zenon
    <2>2. CASE ~Swaps(req[r].snap.version)
        BY <1>3, <2>2, ReadsLoseNothing, NothingLost, Zenon
    <2> QED
        BY <2>1, <2>2, Zenon
<1>4. ASSUME NEW r \in Requests, Guard(r) \/ Evaluate(r) \/ ResetRead(r) \/ Fault(r) PROVE PaidInv'
    BY <1>4, ReadsLoseNothing, NothingLost, Zenon
<1> QED
    BY <1>1, <1>2, <1>3, <1>4, ErasePays, Zenon DEF Next

\* The lockout counter counts, for any number of concurrent submissions: no
\* failure is lost to a concurrent write, each one given up under contention is
\* paid for by that many writes, and a stored lock was live when it was stored
\* (RecordFailure, Reset, applyFailure).
THEOREM FailuresAreCountedAlways == Spec => []FailuresAreCounted
<1>1. Init => PaidInv
    <2> SUFFICES ASSUME Init PROVE PaidInv
        BY Zenon
    <2>1. Losses = {}
        BY LockoutAssumption DEF Init, Losses, Idle, Stale
    <2>2. Cardinality(Losses) = 0
        BY <2>1, FS_EmptySet, Zenon
    <2> QED
        BY <2>2, Finite, LockoutAssumption DEF Init, PaidInv
<1>2. Counting /\ PaidInv /\ [Next]_vars => PaidInv'
    BY NextPaid, Zenon
<1>3. Counting /\ PaidInv => FailuresAreCounted
    <2> SUFFICES ASSUME Counting, PaidInv PROVE ContentionIsPaid
        BY Zenon DEF Counting, FailuresAreCounted
    <2>1. abandoned * MaxSwapAttempts \in Nat /\ swaps * (N - 1) + erasures * N \in Int
        BY Typing, Finite, LockoutAssumption DEF Counting
    <2> QED
        BY <2>1, Finite DEF PaidInv, ContentionIsPaid, N
<1> QED
    BY <1>1, <1>2, <1>3, CountingAlways, PTL DEF Spec
=============================================================================
