------------------------------- MODULE PolledProofs -------------------------------
(***************************************************************************)
(* What a polled ceremony promises, for any number of polls, teardowns and *)
(* faults and for every setting: one poll delivers, a refused one leaves   *)
(* nothing, a fault keeps the approval, and a teardown leaves no delivered *)
(* credential live.                                                        *)
(*                                                                         *)
(* Prepared says what a poll holds at each of its steps; the poll that     *)
(* consumed the record is alone.  Torn says what a teardown has retired    *)
(* at each of its rungs: the kit denies the record first, so that no poll  *)
(* wins behind it, and RevokeSubject closes the grant before its refresh   *)
(* rung, so that no poll delivers behind that.                             *)
(***************************************************************************)
EXTENDS PolledCeremony, TLAPS

-----------------------------------------------------------------------------
(* The invariants *)

Decisions == {"none", "consumed", "expired", "denied", "slow_down", "emit", "pending"}
PollType ==
    [pc : PollPCs, decision : Decisions, at : Nat, bar : Nat, mintedAt : Nat, access : Custody, refresh : Custody]
TeardownType ==
    [pc : {"idle", "mark", "jwt", "opaque", "closure", "refresh", "delete"}, by : {"none", "kit", "subject"},
     grant : GrantIds \cup {"none"}, at : Nat, failed : BOOLEAN]

Typed == TypeOK /\ setting \in Settings /\ teardown \in TeardownType

Early   == {"idle", "recordPoll", "strike", "lockout", "subject", "spend", "saveGrant", "mint"}
Winning == {"closure", "delivered", "retireAccess", "retireRefresh"}

\* What a poll holds at each of its steps.
Prepared(p) ==
    /\ poll[p].pc \in Early => poll[p].access = "none" /\ poll[p].refresh = "none"
    /\ poll[p].pc = "saveRefresh" => poll[p].access # "none" /\ poll[p].refresh = "none"
    /\ poll[p].pc \in {"consume"} \cup Winning => poll[p].access # "none" /\ poll[p].refresh # "none"
    /\ poll[p].pc = "spend" => ~subjectLive
    /\ poll[p].pc \in Winning => rec.status = "consumed"
    /\ poll[p].mintedAt <= now

\* What it has taken back, as long as no write failed.
TakenBack(p) ==
    /\ poll[p].pc \in {"undoRefresh", "retireRefresh", "discard", "rejected"} => (Opaque => poll[p].access # "live")
    /\ poll[p].pc \in {"discard", "rejected"} => poll[p].refresh # "live"

Alone == \A p, q \in Polls : poll[p].pc \in Winning /\ poll[q].pc \in Winning => p = q

Polled ==
    /\ \A p \in Polls : Prepared(p)
    /\ faults = 0 => \A p \in Polls : TakenBack(p)
    /\ Alone
    /\ FaultKeepsApproval

\* Who tears what down.
Tearing ==
    \/ teardown.pc = "idle"
    \/ teardown.by = "kit" /\ Kind = "device" /\ teardown.grant = "device_code"
    \/ teardown.by = "subject" /\ teardown.grant \in GrantIds /\ teardown.at >= IssuedAt /\ teardown.pc # "mark"

KitTorn == <<"kit", "device_code">> \in torn

\* Past its mark the kit has denied the record, unless a poll had consumed it.
Marked ==
    KitTorn \/ (teardown.by = "kit" /\ teardown.pc \notin {"idle", "mark"}) =>
        Kind = "device" /\ rec.status \in {"denied", "consumed"}

\* What has been retired of a poll that won.
JwtSwept(p) ==
    /\ Strategy = "tombstone" => tombstone[GrantOf(p)] >= poll[p].mintedAt
    /\ Strategy = "registry" /\ ~Opaque => poll[p].access # "live"
OpaqueSwept(p)  == Opaque => poll[p].access # "live"
RefreshSwept(p) == poll[p].refresh # "live"

By(who, pcs) == teardown.by = who /\ teardown.pc \in pcs /\ ~teardown.failed

KitSwept ==
    \A p \in Polls : poll[p].pc \in Winning =>
        /\ KitTorn \/ By("kit", {"opaque", "refresh", "delete"}) => JwtSwept(p)
        /\ KitTorn \/ By("kit", {"refresh", "delete"}) => OpaqueSwept(p)
        /\ KitTorn \/ By("kit", {"delete"}) => RefreshSwept(p)
        /\ teardown.by = "kit" => teardown.pc # "closure"

SubjectSwept ==
    /\ By("subject", {"opaque"}) /\ Strategy = "tombstone" => tombstone[teardown.grant] >= IssuedAt
    /\ By("subject", {"refresh", "delete"}) => tombstone[teardown.grant] >= IssuedAt
    /\ By("subject", {"delete"}) =>
          \A p \in Polls : poll[p].pc = "delivered" /\ GrantOf(p) = teardown.grant => RefreshSwept(p)
    /\ \A g \in GrantIds : <<"subject", g>> \in torn =>
          /\ tombstone[g] >= IssuedAt
          /\ \A p \in Polls : poll[p].pc = "delivered" /\ GrantOf(p) = g => RefreshSwept(p)

Torn == Tearing /\ Marked /\ KitSwept /\ SubjectSwept

-----------------------------------------------------------------------------
(* The record *)

\* The maximum and the minimum of two numbers.
LEMMA MaxMin ==
    ASSUME NEW a \in Nat, NEW b \in Nat
    PROVE  /\ Max({a, b}) \in Nat /\ Max({a, b}) >= a /\ Max({a, b}) >= b
           /\ Min({a, b}) \in Nat
<1>1. \E x \in {a, b} : \A y \in {a, b} : x >= y
    OBVIOUS
<1>2. Max({a, b}) \in {a, b} /\ \A y \in {a, b} : Max({a, b}) >= y
    BY <1>1, Zenon DEF Max
<1>3. \E x \in {a, b} : \A y \in {a, b} : x =< y
    OBVIOUS
<1>4. Min({a, b}) \in {a, b}
    BY <1>3, Zenon DEF Min
<1> QED
    BY <1>2, <1>4, Zenon

\* What a transition may do to the record: the bar never falls, a decision
\* stands, and only an approval is consumed.
RecordMoves ==
    /\ rec' \in Records /\ rec'.interval >= rec.interval
    /\ rec.status \in {"denied", "consumed"} => rec'.status = rec.status
    /\ rec'.status = "consumed" => rec.status \in {"approved", "consumed"}

\* A transition that leaves the record or changes one field of it.
LEMMA RecordStays ==
    ASSUME rec \in Records, rec' = rec
    PROVE  RecordMoves
    BY DEF RecordMoves, Records

\* Each substore transition is such a move, and all but Consume's leave an
\* unconsumed record unconsumed.
LEMMA RecordSteps ==
    ASSUME rec \in Records
    PROVE  /\ \A at, bar \in Nat : RecordPoll(at, bar) => RecordMoves /\ rec'.status = rec.status
           /\ IncrementPollViolation => RecordMoves /\ rec'.status = rec.status
           /\ DenyRecord => RecordMoves /\ (rec'.status = "consumed" => rec.status = "consumed")
           /\ ApproveRecord => RecordMoves /\ rec'.status = "approved"
           /\ ConsumeRecord => RecordMoves
<1> USE DEF Transition, RecordMoves, Records, Statuses
<1>1. ASSUME NEW at \in Nat, NEW bar \in Nat, RecordPoll(at, bar)
      PROVE  RecordMoves /\ rec'.status = rec.status
    <2> DEFINE m == Max({rec.interval, bar})
    <2>1. m \in Nat /\ m >= rec.interval
        BY MaxMin, Zenon
    <2>2. rec' = rec \/ rec' = [rec EXCEPT !.lastPolledAt = at, !.interval = m]
        BY <1>1, Zenon DEF RecordPoll
    <2> HIDE DEF m
    <2>3. CASE rec' = [rec EXCEPT !.lastPolledAt = at, !.interval = m]
        <3>1. rec' \in Records /\ rec'.interval = m /\ rec'.status = rec.status
            BY <2>1, <2>3, Zenon
        <3> QED
            BY <2>1, <3>1, Zenon
    <2> QED
        BY <2>2, <2>3, RecordStays, Zenon
<1>2. ASSUME IncrementPollViolation PROVE RecordMoves /\ rec'.status = rec.status
    <2> DEFINE m == Min({rec.pollViolations + 1, MaxCounter})
    <2>1. rec.pollViolations + 1 \in Nat /\ MaxCounter \in Nat
        BY LadderAssumption
    <2>2. m \in Nat
        BY <2>1, MaxMin, Zenon
    <2>3. rec' = rec \/ rec' = [rec EXCEPT !.pollViolations = m]
        BY <1>2, Zenon DEF IncrementPollViolation
    <2> HIDE DEF m
    <2> QED
        BY <2>2, <2>3
<1>3. DenyRecord => RecordMoves /\ (rec'.status = "consumed" => rec.status = "consumed")
    BY DEF DenyRecord
<1>4. ApproveRecord => RecordMoves /\ rec'.status = "approved"
    BY DEF ApproveRecord
<1>5. ConsumeRecord => RecordMoves
    BY DEF ConsumeRecord
<1> QED
    BY <1>1, <1>2, <1>3, <1>4, <1>5, Zenon

\* The type invariant by components.
LEMMA Typing ==
    ASSUME Typed
    PROVE  /\ now \in Nat \ {0} /\ rec \in Records /\ poll \in [Polls -> PollType]
           /\ setting \in Settings /\ tombstone \in [GrantIds -> Nat] /\ teardown \in TeardownType
           /\ faults \in Nat /\ MaxFaults \in Nat
           /\ \A p \in Polls : GrantOf(p) \in GrantIds
    BY CeremonyAssumption DEF Typed, TypeOK, PollType, Decisions, MaxFaults, GrantIds

-----------------------------------------------------------------------------
(* The steps of a poll *)

\* What poll p looks like next; the others are left alone.
Becomes(p, pc, access, refresh, mintedAt) ==
    /\ poll' \in [Polls -> PollType]
    /\ \A q \in Polls \ {p} : poll'[q] = poll[q]
    /\ poll'[p].pc = pc /\ poll'[p].access = access /\ poll'[p].refresh = refresh /\ poll'[p].mintedAt = mintedAt

\* A poll that only goes on.
LEMMA GoesOn ==
    ASSUME Typed, NEW p \in Polls, NEW x \in PollPCs, Goto(p, x)
    PROVE  Becomes(p, x, poll[p].access, poll[p].refresh, poll[p].mintedAt)
    BY Typing, Zenon DEF Goto, Becomes, PollType

\* A poll that goes on with one credential more, or one less, or at a time.
LEMMA GoesOnWith ==
    ASSUME Typed, NEW p \in Polls, NEW x \in PollPCs, NEW c \in Custody, NEW t \in Nat
    PROVE  /\ poll' = [poll EXCEPT ![p].pc = x, ![p].access = c] =>
                 Becomes(p, x, c, poll[p].refresh, poll[p].mintedAt)
           /\ poll' = [poll EXCEPT ![p].pc = x, ![p].refresh = c] =>
                 Becomes(p, x, poll[p].access, c, poll[p].mintedAt)
           /\ poll' = [poll EXCEPT ![p].pc = x, ![p].mintedAt = t] =>
                 Becomes(p, x, poll[p].access, poll[p].refresh, t)
<1> USE Typing DEF Becomes, PollType
<1>1. ASSUME poll' = [poll EXCEPT ![p].pc = x, ![p].access = c]
      PROVE  Becomes(p, x, c, poll[p].refresh, poll[p].mintedAt)
    BY <1>1, Zenon
<1>2. ASSUME poll' = [poll EXCEPT ![p].pc = x, ![p].refresh = c]
      PROVE  Becomes(p, x, poll[p].access, c, poll[p].mintedAt)
    BY <1>2, Zenon
<1>3. ASSUME poll' = [poll EXCEPT ![p].pc = x, ![p].mintedAt = t]
      PROVE  Becomes(p, x, poll[p].access, poll[p].refresh, t)
    BY <1>3, Zenon
<1> QED
    BY <1>1, <1>2, <1>3, Zenon

\* A poll that takes what it read from the record along, or drops it.
LEMMA GoesOnReading ==
    ASSUME Typed, NEW p \in Polls, NEW x \in PollPCs, NEW d \in Decisions, NEW at \in Nat, NEW bar \in Nat
    PROVE  poll' = [poll EXCEPT ![p].pc = x, ![p].decision = d, ![p].at = at, ![p].bar = bar] =>
              Becomes(p, x, poll[p].access, poll[p].refresh, poll[p].mintedAt)
<1> DEFINE y == [poll[p] EXCEPT !.pc = x, !.decision = d]
           z == [y EXCEPT !.at = at, !.bar = bar]
<1>1. y \in PollType /\ y.pc = x
      /\ y.access = poll[p].access /\ y.refresh = poll[p].refresh /\ y.mintedAt = poll[p].mintedAt
    BY Typing, Zenon DEF PollType
<1>2. poll' = [poll EXCEPT ![p].pc = x, ![p].decision = d, ![p].at = at, ![p].bar = bar] =>
         poll' = [poll EXCEPT ![p] = z]
    BY Typing, Zenon DEF PollType
<1> HIDE DEF y
<1>3. z \in PollType /\ z.pc = y.pc
      /\ z.access = y.access /\ z.refresh = y.refresh /\ z.mintedAt = y.mintedAt
    BY <1>1, Zenon DEF PollType
<1> HIDE DEF z
<1>4. poll' = [poll EXCEPT ![p] = z] =>
         poll' \in [Polls -> PollType] /\ poll'[p] = z /\ \A q \in Polls \ {p} : poll'[q] = poll[q]
    BY <1>3, Typing, Zenon
<1> QED
    BY <1>1, <1>2, <1>3, <1>4, Zenon DEF Becomes

\* What every step of poll p does: where it may go, what it may hold, and what
\* it may do to the record.
PollMoves(p) ==
    /\ poll' \in [Polls -> PollType]
    /\ \A q \in Polls \ {p} : poll'[q] = poll[q]
    /\ UNCHANGED <<setting, now, subjectLive, tombstone, TeardownVars>>
    /\ grants' \subseteq GrantIds /\ faults' \in 0 .. MaxFaults /\ faults' >= faults
    /\ RecordMoves
    /\ rec'.status = "consumed" => rec.status = "consumed" \/ poll[p].pc = "consume" \/ ~subjectLive
    /\ Prepared(p)'
    /\ faults' = 0 /\ TakenBack(p) => TakenBack(p)'
    /\ poll'[p].pc \in Winning => poll[p].pc \in Winning \/ rec.status = "approved"
    /\ poll'[p].pc \in Winning /\ poll[p].pc \in Winning =>
          /\ poll'[p].access = "live" => poll[p].access = "live"
          /\ poll'[p].refresh = "live" => poll[p].refresh = "live"
          /\ poll'[p].mintedAt = poll[p].mintedAt
    /\ poll'[p].pc = "delivered" => poll[p].pc = "closure" /\ tombstone[GrantOf(p)] < IssuedAt
    /\ poll[p].access # "none" => poll'[p].access # "none"
    /\ poll[p].refresh # "none" => poll'[p].refresh # "none"

\* A poll that has prepared nothing yet and goes on.
LEMMA EarlyMoves ==
    ASSUME Typed, NEW p \in Polls, Prepared(p), poll[p].pc \in Early, NEW x \in Early \cup {"rejected"},
           x = "spend" => ~subjectLive, NEW t \in Nat, t <= now,
           Becomes(p, x, poll[p].access, poll[p].refresh, t),
           UNCHANGED <<setting, now, subjectLive, tombstone, TeardownVars>>,
           grants' \subseteq GrantIds, faults' \in 0 .. MaxFaults, faults' >= faults, RecordMoves,
           rec'.status = "consumed" => rec.status = "consumed" \/ ~subjectLive
    PROVE  PollMoves(p)
<1>1. Prepared(p)'
    BY Zenon DEF Becomes, Prepared, Early, Winning
<1>2. TakenBack(p)'
    BY Zenon DEF Becomes, Prepared, Early, TakenBack
<1> QED
    BY <1>1, <1>2, Zenon DEF Becomes, PollMoves, Early, Winning, Prepared

\* The lookup, the recording of the poll and its strikes.
LEMMA LadderMoves ==
    ASSUME Typed, NEW p \in Polls, Prepared(p), UNCHANGED setting,
           Lookup(p) \/ DoRecordPoll(p) \/ Strike(p) \/ Lockout(p)
    PROVE  PollMoves(p)
<1>1. rec \in Records /\ poll[p] \in PollType /\ now \in Nat /\ faults \in Nat
    BY Typing, Zenon
<1>2. /\ UNCHANGED <<setting, now, subjectLive, tombstone, TeardownVars>>
      /\ grants' \subseteq GrantIds /\ faults' \in 0 .. MaxFaults /\ faults' >= faults
    BY Typing DEF Typed, TypeOK, Lookup, DoRecordPoll, Strike, Lockout, Fails, StoresExceptRecord, Others
<1>3. RecordMoves /\ (rec'.status = "consumed" => rec.status = "consumed")
    <2>1. CASE rec' = rec
        BY <1>1, <2>1, RecordStays, Zenon
    <2>2. CASE RecordPoll(poll[p].at, poll[p].bar) \/ IncrementPollViolation \/ DenyRecord
        BY <1>1, <2>2, RecordSteps, Zenon DEF PollType
    <2> QED
        BY <2>1, <2>2, Zenon DEF Lookup, DoRecordPoll, Strike, Lockout
<1>4. poll[p].pc \in Early
    BY Zenon DEF Lookup, DoRecordPoll, Strike, Lockout, At, Early
<1>5. \E x \in {"rejected", "recordPoll", "subject", "strike", "lockout"} :
         Becomes(p, x, poll[p].access, poll[p].refresh, poll[p].mintedAt)
    <2>1. CASE \E x \in {"rejected", "lockout"} : Goto(p, x)
        BY <2>1, GoesOn, Zenon DEF PollPCs
    <2>2. CASE Lookup(p) /\ Found
        <3> DEFINE d == Decide(rec, now)
                   b == BarAfter(rec, d)
        <3>1. d \in Decisions
            BY Zenon DEF Decide, Decisions
        <3>2. b \in Nat
            BY <1>1, LadderAssumption DEF BarAfter, NextInterval, Records
        <3>3. poll' = [poll EXCEPT ![p].pc = "recordPoll", ![p].decision = d, ![p].at = now, ![p].bar = b]
            BY <2>2, Zenon DEF Lookup
        <3> HIDE DEF d, b
        <3>4. "recordPoll" \in PollPCs /\ now \in Nat
            BY <1>1, Zenon DEF PollPCs
        <3> QED
            BY <3>1, <3>2, <3>3, <3>4, GoesOnReading, Zenon
    <2>3. CASE DoRecordPoll(p)
        <3> DEFINE x == AfterRecordPoll(poll[p].decision)
        <3>1. x \in {"rejected", "subject", "strike"}
            BY Zenon DEF AfterRecordPoll
        <3>2. poll' = [poll EXCEPT ![p].pc = x, ![p].decision = "none", ![p].at = 0, ![p].bar = 0]
            BY <2>3, Zenon DEF DoRecordPoll
        <3> HIDE DEF x
        <3>3. x \in PollPCs /\ "none" \in Decisions /\ 0 \in Nat
            BY <3>1, Zenon DEF PollPCs, Decisions
        <3>4. Becomes(p, x, poll[p].access, poll[p].refresh, poll[p].mintedAt)
            BY <3>2, <3>3, GoesOnReading, Zenon
        <3> QED
            BY <3>1, <3>4, Zenon
    <2> QED
        BY <2>1, <2>2, <2>3, Zenon DEF Lookup, Strike, Lockout, Fails
<1>6. poll[p].mintedAt \in Nat /\ poll[p].mintedAt <= now
    BY <1>1, Zenon DEF PollType, Prepared
<1> QED
    BY <1>2, <1>3, <1>4, <1>5, <1>6, EarlyMoves, Zenon DEF Early

\* The gates of an approved poll, and the grant record.
LEMMA GateMoves ==
    ASSUME Typed, NEW p \in Polls, Prepared(p), UNCHANGED setting,
           Subject(p) \/ GateRefuses(p) \/ Spend(p) \/ SaveGrant(p)
    PROVE  PollMoves(p)
<1>1. rec \in Records /\ poll[p] \in PollType /\ now \in Nat /\ faults \in Nat
    BY Typing, Zenon
<1>2. /\ UNCHANGED <<setting, now, subjectLive, tombstone, TeardownVars>>
      /\ grants' \subseteq GrantIds /\ faults' \in 0 .. MaxFaults /\ faults' >= faults
    BY Typing DEF Typed, TypeOK, Subject, GateRefuses, Spend, SaveGrant, Fails, StoresExceptRecord, Others
<1>3. poll[p].pc \in Early
    BY Zenon DEF Subject, GateRefuses, Spend, SaveGrant, At, Early
<1>4. RecordMoves /\ (rec'.status = "consumed" => rec.status = "consumed" \/ ~subjectLive)
    <2>1. CASE rec' = rec
        BY <1>1, <2>1, RecordStays, Zenon
    <2>2. CASE Spend(p) /\ ConsumeRecord
        BY <1>1, <2>2, RecordSteps, Zenon DEF Spend, At, Prepared
    <2> QED
        BY <2>1, <2>2, Zenon DEF Subject, GateRefuses, Spend, SaveGrant
<1>5. \E x \in {"rejected", "spend", "saveGrant", "mint"}, t \in Nat :
         /\ x = "spend" => ~subjectLive
         /\ t <= now
         /\ Becomes(p, x, poll[p].access, poll[p].refresh, t)
    <2>1. poll[p].mintedAt \in Nat /\ poll[p].mintedAt <= now
        BY <1>1, Zenon DEF PollType, Prepared
    <2>2. CASE \E x \in {"rejected", "spend", "saveGrant"} : (x = "spend" => ~subjectLive) /\ Goto(p, x)
        BY <2>1, <2>2, GoesOn, Zenon DEF PollPCs
    <2>3. CASE poll' = [poll EXCEPT ![p].pc = "mint", ![p].mintedAt = now]
        <3>1. "mint" \in PollPCs /\ "none" \in Custody /\ now <= now
            BY <1>1 DEF PollPCs, Custody
        <3>2. Becomes(p, "mint", poll[p].access, poll[p].refresh, now)
            BY <1>1, <2>3, <3>1, GoesOnWith, Zenon
        <3> QED
            BY <1>1, <3>1, <3>2, Zenon
    <2> QED
        BY <2>2, <2>3, Zenon DEF Subject, GateRefuses, Spend, SaveGrant, Fails
<1> QED
    BY <1>2, <1>3, <1>4, <1>5, EarlyMoves, Zenon DEF Early

\* What the steps that hold credentials leave alone.
LEMMA LateFrame ==
    ASSUME Typed, NEW p \in Polls, UNCHANGED setting,
           \/ Mint(p) \/ SaveRefresh(p) \/ Consume(p) \/ Closure(p)
           \/ UndoAccess(p) \/ UndoRefresh(p) \/ Discard(p)
           \/ RetireAccess(p) \/ RetireRefresh(p) \/ Crash(p)
    PROVE  /\ UNCHANGED <<setting, now, subjectLive, tombstone, TeardownVars>>
           /\ grants' \subseteq GrantIds /\ faults' \in 0 .. MaxFaults /\ faults' >= faults
           /\ ~Consume(p) => UNCHANGED rec
<1> USE Typing DEF Typed, TypeOK, Fails, StoresExceptRecord, Others
<1>1. CASE Mint(p) \/ SaveRefresh(p) \/ Consume(p) \/ Closure(p) \/ Crash(p)
    BY <1>1 DEF Mint, SaveRefresh, Consume, Closure, Crash
<1>2. CASE UndoAccess(p) \/ UndoRefresh(p) \/ Discard(p) \/ RetireAccess(p) \/ RetireRefresh(p)
    BY <1>2 DEF UndoAccess, UndoRefresh, Discard, RetireAccess, RetireRefresh, TakeBackAccess, TakeBackRefresh
<1> QED
    BY <1>1, <1>2, Zenon

\* A poll that fails has written nothing and goes where its fault is answered.
LEMMA FailureMoves ==
    ASSUME Typed, NEW p \in Polls, Prepared(p), Fails(p, "undoAccess") \/ Fails(p, "undoRefresh")
               \/ Fails(p, "discard") \/ Fails(p, "rejected")
               \/ (poll[p].pc \in Winning /\ (Fails(p, "retireAccess") \/ Fails(p, "retireRefresh"))),
           UNCHANGED <<setting, now, rec, subjectLive, tombstone, TeardownVars>>, grants' \subseteq GrantIds
    PROVE  PollMoves(p)
<1>1. RecordMoves
    BY Typing, RecordStays, Zenon
<1>2. faults' \in 0 .. MaxFaults /\ faults' >= faults /\ faults' # 0
    BY Typing DEF Fails
<1>3. PICK x \in {"undoAccess", "undoRefresh", "discard", "rejected", "retireAccess", "retireRefresh"} :
         Goto(p, x) /\ (x \in Winning => poll[p].pc \in Winning)
    BY Zenon DEF Fails, Winning
<1>4. Becomes(p, x, poll[p].access, poll[p].refresh, poll[p].mintedAt)
    BY <1>3, GoesOn, Zenon DEF PollPCs
<1>5. Prepared(p)'
    BY <1>3, <1>4, Zenon DEF Becomes, Prepared, Early, Winning
<1> QED
    BY <1>1, <1>2, <1>3, <1>4, <1>5, Zenon DEF Becomes, PollMoves, Winning

\* The steps that prepare the response.
LEMMA PrepareMoves ==
    ASSUME Typed, NEW p \in Polls, Prepared(p), UNCHANGED setting, Mint(p) \/ SaveRefresh(p)
    PROVE  PollMoves(p)
<1>1. /\ UNCHANGED <<setting, now, rec, subjectLive, tombstone, TeardownVars>>
      /\ grants' \subseteq GrantIds /\ faults' \in 0 .. MaxFaults /\ faults' >= faults
    BY LateFrame, Zenon DEF Mint, SaveRefresh, Consume, At
<1>2. CASE Fails(p, "undoAccess")
    BY <1>1, <1>2, FailureMoves, Zenon
<1>3. RecordMoves
    BY <1>1, Typing, RecordStays, Zenon
<1>4. {"saveRefresh", "consume"} \subseteq PollPCs /\ "live" \in Custody /\ 0 \in Nat
    BY Zenon DEF PollPCs, Custody
<1>5. CASE Mint(p) /\ poll' = [poll EXCEPT ![p].pc = "saveRefresh", ![p].access = "live"]
    <2>1. Becomes(p, "saveRefresh", "live", poll[p].refresh, poll[p].mintedAt)
        BY <1>4, <1>5, GoesOnWith, Zenon
    <2>2. Prepared(p)' /\ TakenBack(p)'
        BY <1>1, <1>5, <2>1, Zenon DEF Becomes, Prepared, TakenBack, Mint, At, Early, Winning
    <2> QED
        BY <1>1, <1>3, <2>1, <2>2, Zenon DEF Becomes, PollMoves, Winning
<1>6. CASE SaveRefresh(p) /\ poll' = [poll EXCEPT ![p].pc = "consume", ![p].refresh = "live"]
    <2>1. Becomes(p, "consume", poll[p].access, "live", poll[p].mintedAt)
        BY <1>4, <1>6, GoesOnWith, Zenon
    <2>2. Prepared(p)' /\ TakenBack(p)'
        BY <1>1, <1>6, <2>1, Zenon DEF Becomes, Prepared, TakenBack, SaveRefresh, At, Early, Winning
    <2> QED
        BY <1>1, <1>3, <2>1, <2>2, Zenon DEF Becomes, PollMoves, Winning
<1> QED
    BY <1>2, <1>5, <1>6, Zenon DEF Mint, SaveRefresh

\* The Consume: the poll wins the approval, or takes back what it prepared.
LEMMA ConsumeMoves ==
    ASSUME Typed, NEW p \in Polls, Prepared(p), UNCHANGED setting, Consume(p)
    PROVE  PollMoves(p)
<1>1. /\ UNCHANGED <<setting, now, subjectLive, tombstone, TeardownVars>>
      /\ grants' \subseteq GrantIds /\ faults' \in 0 .. MaxFaults /\ faults' >= faults
    BY LateFrame, Zenon
<1>2. CASE Fails(p, "undoAccess") /\ UNCHANGED rec
    BY <1>1, <1>2, FailureMoves, Zenon
<1>3. CASE ConsumeRecord /\ Goto(p, IF Consumable THEN "closure" ELSE "undoAccess")
    <2>1. poll[p].pc = "consume"
        BY Zenon DEF Consume, At
    <2>2. RecordMoves
        BY <1>3, RecordSteps, Typing, Zenon
    <2>3. CASE Consumable
        <3>1. rec.status = "approved" /\ rec'.status = "consumed"
            BY <1>3, <2>3, Typing, Zenon DEF Consumable, ConsumeRecord, Transition, Records
        <3>2. Becomes(p, "closure", poll[p].access, poll[p].refresh, poll[p].mintedAt)
            BY <1>3, <2>3, GoesOn, Zenon DEF PollPCs
        <3>3. Prepared(p)' /\ TakenBack(p)'
            BY <1>1, <2>1, <3>1, <3>2, Zenon DEF Becomes, Prepared, TakenBack, Early, Winning
        <3> QED
            BY <1>1, <2>1, <2>2, <3>1, <3>2, <3>3, Zenon DEF Becomes, PollMoves, Winning
    <2>4. CASE ~Consumable
        <3>1. Becomes(p, "undoAccess", poll[p].access, poll[p].refresh, poll[p].mintedAt)
            BY <1>3, <2>4, GoesOn, Zenon DEF PollPCs
        <3>2. Prepared(p)' /\ TakenBack(p)'
            BY <1>1, <3>1, Zenon DEF Becomes, Prepared, TakenBack, Early, Winning
        <3> QED
            BY <1>1, <2>1, <2>2, <3>1, <3>2, Zenon DEF Becomes, PollMoves, Winning
    <2> QED
        BY <2>3, <2>4, Zenon
<1> QED
    BY <1>2, <1>3, Zenon DEF Consume

\* The closure check after it, and the discarding of the grant record.
LEMMA ClosureMoves ==
    ASSUME Typed, NEW p \in Polls, Prepared(p), UNCHANGED setting, Closure(p) \/ Discard(p) \/ Crash(p)
    PROVE  PollMoves(p)
<1>1. /\ UNCHANGED <<setting, now, rec, subjectLive, tombstone, TeardownVars>>
      /\ grants' \subseteq GrantIds /\ faults' \in 0 .. MaxFaults /\ faults' >= faults
    <2>1. ~Consume(p) \/ UNCHANGED rec
        BY Zenon DEF Closure, Discard, Crash, Consume, At
    <2> QED
        BY <2>1, LateFrame, Zenon
<1>2. RecordMoves
    BY <1>1, Typing, RecordStays, Zenon
<1>3. CASE Closure(p)
    <2>1. poll[p].pc = "closure"
        BY <1>3, Zenon DEF Closure, At
    <2>2. CASE Fails(p, "retireAccess")
        BY <1>1, <2>1, <2>2, FailureMoves, Zenon DEF Winning
    <2>3. ASSUME NEW x \in {"retireAccess", "delivered"}, Goto(p, x),
                 x = "delivered" => ~(tombstone[GrantOf(p)] >= IssuedAt)
          PROVE  PollMoves(p)
        <3>1. Becomes(p, x, poll[p].access, poll[p].refresh, poll[p].mintedAt)
            BY <2>3, GoesOn, Zenon DEF PollPCs
        <3>2. Prepared(p)' /\ TakenBack(p)'
            BY <1>1, <2>1, <3>1, Zenon DEF Becomes, Prepared, TakenBack, Early, Winning
        <3>3. x = "delivered" => tombstone[GrantOf(p)] < IssuedAt
            BY <2>3, Typing DEF IssuedAt
        <3> QED
            BY <1>1, <1>2, <2>1, <3>1, <3>2, <3>3, Zenon DEF Becomes, PollMoves, Winning
    <2> QED
        BY <1>3, <2>2, <2>3, Zenon DEF Closure
<1>4. CASE Discard(p) \/ Crash(p)
    <2>1. Goto(p, "rejected")
        BY <1>4, Zenon DEF Discard, Crash, Fails
    <2>2. Becomes(p, "rejected", poll[p].access, poll[p].refresh, poll[p].mintedAt)
        BY <2>1, GoesOn, Zenon DEF PollPCs
    <2>3. Prepared(p)'
        BY <1>1, <2>2, Zenon DEF Becomes, Prepared, Early, Winning
    <2>4. poll[p].pc = "discard" \/ faults' # 0
        BY <1>4, Typing DEF Discard, Crash, At, Fails
    <2>5. faults' = 0 /\ TakenBack(p) => TakenBack(p)'
        BY <1>1, <2>2, <2>4, Zenon DEF Becomes, TakenBack, Opaque
    <2> QED
        BY <1>1, <1>2, <2>2, <2>3, <2>5, Zenon DEF Becomes, PollMoves, Winning
<1> QED
    BY <1>3, <1>4, Zenon

\* The taking back of the access token.
LEMMA TakeBackAccessMoves ==
    ASSUME Typed, NEW p \in Polls, Prepared(p), UNCHANGED setting, UndoAccess(p) \/ RetireAccess(p)
    PROVE  PollMoves(p)
<1>1. /\ UNCHANGED <<setting, now, rec, subjectLive, tombstone, TeardownVars>>
      /\ grants' \subseteq GrantIds /\ faults' \in 0 .. MaxFaults /\ faults' >= faults
    <2>1. ~Consume(p)
        BY Zenon DEF UndoAccess, RetireAccess, TakeBackAccess, Consume, At
    <2> QED
        BY <2>1, LateFrame, Zenon
<1>2. RecordMoves
    BY <1>1, Typing, RecordStays, Zenon
<1> DEFINE c == IF Opaque THEN Retired(poll[p].access) ELSE poll[p].access
<1>3. /\ c \in Custody /\ (c = "live" => poll[p].access = "live") /\ (Opaque => c # "live")
      /\ c = "none" <=> poll[p].access = "none"
    BY Typing, Zenon DEF PollType, Custody, Retired
<1>4. CASE Fails(p, "undoRefresh") \/ (poll[p].pc = "retireAccess" /\ Fails(p, "retireRefresh"))
    BY <1>1, <1>4, FailureMoves, Zenon DEF Winning
<1>5. PICK here \in {"undoAccess", "retireAccess"}, next \in {"undoRefresh", "retireRefresh"} :
         /\ TakeBackAccess(p, here, next)
         /\ here = "undoAccess" <=> next = "undoRefresh"
    BY Zenon DEF UndoAccess, RetireAccess
<1>6. CASE poll' = [poll EXCEPT ![p].pc = next, ![p].access = c]
    <2>1. next \in PollPCs /\ 0 \in Nat
        BY Zenon DEF PollPCs
    <2> HIDE DEF c
    <2>2. Becomes(p, next, c, poll[p].refresh, poll[p].mintedAt)
        BY <1>3, <1>6, <2>1, GoesOnWith, Zenon
    <2>3. poll[p].pc = here
        BY <1>5, Zenon DEF TakeBackAccess, At
    <2>4. Prepared(p)' /\ TakenBack(p)'
        BY <1>1, <1>3, <1>5, <2>2, <2>3, Zenon DEF Becomes, Prepared, TakenBack, Early, Winning, Opaque
    <2> QED
        BY <1>1, <1>2, <1>3, <1>5, <2>2, <2>3, <2>4, Zenon DEF Becomes, PollMoves, Winning
<1>7. \/ Fails(p, next) /\ poll[p].pc = here
      \/ poll' = [poll EXCEPT ![p].pc = next, ![p].access = c]
    BY <1>5, Typing, Zenon DEF TakeBackAccess, At, PollType
<1> QED
    BY <1>4, <1>5, <1>6, <1>7, Zenon

\* The taking back of the refresh token.
LEMMA TakeBackRefreshMoves ==
    ASSUME Typed, NEW p \in Polls, Prepared(p), UNCHANGED setting, UndoRefresh(p) \/ RetireRefresh(p)
    PROVE  PollMoves(p)
<1>1. /\ UNCHANGED <<setting, now, rec, subjectLive, tombstone, TeardownVars>>
      /\ grants' \subseteq GrantIds /\ faults' \in 0 .. MaxFaults /\ faults' >= faults
    <2>1. ~Consume(p)
        BY Zenon DEF UndoRefresh, RetireRefresh, TakeBackRefresh, Consume, At
    <2> QED
        BY <2>1, LateFrame, Zenon
<1>2. RecordMoves
    BY <1>1, Typing, RecordStays, Zenon
<1> DEFINE c == Retired(poll[p].refresh)
<1>3. c \in Custody /\ c # "live" /\ (c = "none" <=> poll[p].refresh = "none")
    BY Typing, Zenon DEF PollType, Custody, Retired
<1>4. PICK here \in {"undoRefresh", "retireRefresh"}, next \in {"discard", "rejected"} :
         TakeBackRefresh(p, here, next)
    BY Zenon DEF UndoRefresh, RetireRefresh
<1>5. CASE Fails(p, next)
    BY <1>1, <1>5, FailureMoves, Zenon
<1>6. CASE poll' = [poll EXCEPT ![p].pc = next, ![p].refresh = c]
    <2>1. next \in PollPCs /\ 0 \in Nat
        BY Zenon DEF PollPCs
    <2> HIDE DEF c
    <2>2. Becomes(p, next, poll[p].access, c, poll[p].mintedAt)
        BY <1>3, <1>6, <2>1, GoesOnWith, Zenon
    <2>3. poll[p].pc = here
        BY <1>4, Zenon DEF TakeBackRefresh, At
    <2>4. Prepared(p)' /\ (TakenBack(p) => TakenBack(p)')
        BY <1>1, <1>3, <1>4, <2>2, <2>3, Zenon DEF Becomes, Prepared, TakenBack, Early, Winning, Opaque
    <2> QED
        BY <1>1, <1>2, <1>3, <1>4, <2>2, <2>3, <2>4, Zenon DEF Becomes, PollMoves, Winning
<1>7. Fails(p, next) \/ poll' = [poll EXCEPT ![p].pc = next, ![p].refresh = c]
    BY <1>4, Typing, Zenon DEF TakeBackRefresh, PollType
<1> QED
    BY <1>5, <1>6, <1>7, Zenon

\* Every step of a poll is such a move.
LEMMA PollStepMoves ==
    ASSUME Typed, NEW p \in Polls, Prepared(p), UNCHANGED setting, PollStep(p) \/ Crash(p)
    PROVE  PollMoves(p)
    BY LadderMoves, GateMoves, PrepareMoves, ConsumeMoves, ClosureMoves, TakeBackAccessMoves,
       TakeBackRefreshMoves, Zenon
    DEF PollStep

-----------------------------------------------------------------------------
(* The steps of the teardowns, the user, the account and the clock *)

\* What only depends on the setting.
LEMMA SameSetting ==
    ASSUME UNCHANGED setting
    PROVE  /\ Kind' = Kind /\ Opaque' = Opaque /\ Strategy' = Strategy /\ MaxFaults' = MaxFaults
           /\ GrantIds' = GrantIds /\ TeardownType' = TeardownType
           /\ \A p \in Polls : GrantOf(p)' = GrantOf(p)
    BY Zenon DEF Kind, Opaque, Strategy, MaxFaults, GrantIds, TeardownType, GrantOf

\* What such a step may do to the polls and their record: no poll moves, a
\* credential is only retired, a tombstone only rises.
Quiet ==
    /\ UNCHANGED setting
    /\ poll' \in [Polls -> PollType]
    /\ \A p \in Polls :
          /\ poll'[p].pc = poll[p].pc /\ poll'[p].mintedAt = poll[p].mintedAt
          /\ poll'[p].access = "live" => poll[p].access = "live"
          /\ poll'[p].access = "none" <=> poll[p].access = "none"
          /\ poll'[p].refresh = "live" => poll[p].refresh = "live"
          /\ poll'[p].refresh = "none" <=> poll[p].refresh = "none"
    /\ now' \in Nat \ {0} /\ now' >= now
    /\ tombstone' \in [GrantIds -> Nat] /\ \A g \in GrantIds : tombstone'[g] >= tombstone[g]
    /\ RecordMoves /\ (rec'.status = "consumed" => rec.status = "consumed")
    /\ subjectLive' \in BOOLEAN /\ (subjectLive' => subjectLive)
    /\ grants' \subseteq GrantIds
    /\ faults' \in 0 .. MaxFaults /\ faults' >= faults

\* A sweep retires what it finds live.
LEMMA Sweeps ==
    ASSUME Typed, SweepAccess \/ SweepRefresh
    PROVE  /\ poll' \in [Polls -> PollType]
           /\ \A p \in Polls :
                /\ poll'[p].pc = poll[p].pc /\ poll'[p].mintedAt = poll[p].mintedAt
                /\ poll'[p].access = "live" => poll[p].access = "live"
                /\ poll'[p].access = "none" <=> poll[p].access = "none"
                /\ poll'[p].refresh = "live" => poll[p].refresh = "live"
                /\ poll'[p].refresh = "none" <=> poll[p].refresh = "none"
                /\ GrantOf(p) = teardown.grant =>
                      (SweepAccess => poll'[p].access # "live") /\ (SweepRefresh => poll'[p].refresh # "live")
<1> USE DEF PollType, Custody, Retired
<1>1. ASSUME NEW p \in Polls
      PROVE  /\ SweepAccess => (poll'[p] = poll[p] /\ GrantOf(p) # teardown.grant)
                            \/ poll'[p] = [poll[p] EXCEPT !.access = Retired(poll[p].access)]
             /\ SweepRefresh => (poll'[p] = poll[p] /\ GrantOf(p) # teardown.grant)
                            \/ poll'[p] = [poll[p] EXCEPT !.refresh = Retired(poll[p].refresh)]
    BY <1>1, Typing DEF SweepAccess, SweepRefresh
<1>2. ASSUME NEW p \in Polls
      PROVE  /\ poll'[p] \in PollType
             /\ poll'[p].pc = poll[p].pc /\ poll'[p].mintedAt = poll[p].mintedAt
             /\ poll'[p].access = "live" => poll[p].access = "live"
             /\ poll'[p].access = "none" <=> poll[p].access = "none"
             /\ poll'[p].refresh = "live" => poll[p].refresh = "live"
             /\ poll'[p].refresh = "none" <=> poll[p].refresh = "none"
             /\ GrantOf(p) = teardown.grant =>
                   (SweepAccess => poll'[p].access # "live") /\ (SweepRefresh => poll'[p].refresh # "live")
    <2>1. poll[p] \in PollType
        BY Typing, Zenon
    <2>2. Retired(poll[p].access) \in {"none", "retired"} /\ Retired(poll[p].refresh) \in {"none", "retired"}
        BY <2>1, Zenon
    <2>3. (Retired(poll[p].access) = "none" <=> poll[p].access = "none")
          /\ (Retired(poll[p].refresh) = "none" <=> poll[p].refresh = "none")
        BY <2>1, Zenon
    <2> QED
        BY <1>1, <2>1, <2>2, <2>3, Zenon
<1>3. poll' \in [Polls -> PollType]
    BY <1>2, Zenon DEF SweepAccess, SweepRefresh
<1> QED
    BY <1>2, <1>3, Zenon

\* A tombstone that is written only rises, and reaches the teardown's clock.
LEMMA Writes ==
    ASSUME Typed, NEW g \in GrantIds, NEW at \in Nat, Write(g, at)
    PROVE  /\ tombstone' \in [GrantIds -> Nat] /\ tombstone'[g] >= at
           /\ \A h \in GrantIds : tombstone'[h] >= tombstone[h]
<1> DEFINE m == Max({tombstone[g], at})
<1>1. m \in Nat /\ m >= tombstone[g] /\ m >= at
    BY Typing, MaxMin, Zenon
<1>2. tombstone' = [tombstone EXCEPT ![g] = m]
    BY Typing, Zenon DEF Write
<1> HIDE DEF m
<1> QED
    BY <1>1, <1>2, Typing

\* What holds of the polls survives such a step.
LEMMA QuietPolled ==
    ASSUME Typed, Polled, Quiet
    PROVE  Polled'
<1>1. ASSUME NEW p \in Polls PROVE Prepared(p)'
    <2>1. poll[p].mintedAt \in Nat /\ now \in Nat
        BY Typing, Zenon DEF PollType
    <2> QED
        BY <2>1 DEF Quiet, Polled, Prepared, RecordMoves, Early, Winning
<1>2. ASSUME NEW p \in Polls, faults' = 0 PROVE TakenBack(p)'
    <2>1. faults = 0
        BY <1>2, Typing DEF Quiet
    <2> QED
        BY <2>1, SameSetting DEF Quiet, Polled, TakenBack
<1>3. Alone'
    BY Zenon DEF Quiet, Polled, Alone
<1>4. FaultKeepsApproval'
    BY Zenon DEF Quiet, Polled, FaultKeepsApproval
<1> QED
    BY <1>1, <1>2, <1>3, <1>4, Zenon DEF Polled

\* A poll's step keeps the types and what holds of the polls.
LEMMA PollPolled ==
    ASSUME Typed, Polled, UNCHANGED setting, NEW p \in Polls, PollMoves(p)
    PROVE  Typed' /\ Polled'
<1>1. ASSUME NEW q \in Polls, q # p PROVE Prepared(q)' /\ (faults' = 0 => TakenBack(q)')
    <2>1. poll'[q] = poll[q] /\ now' = now /\ subjectLive' = subjectLive
          /\ (rec.status = "consumed" => rec'.status = "consumed")
        BY <1>1, Zenon DEF PollMoves, RecordMoves
    <2>2. Prepared(q)'
        BY <2>1, Zenon DEF Polled, Prepared
    <2>3. faults' = 0 => faults = 0
        BY Typing DEF PollMoves
    <2> QED
        BY <2>1, <2>2, <2>3, SameSetting DEF Polled, TakenBack
<1>2. Prepared(p)' /\ (faults' = 0 => TakenBack(p)')
    <2>1. faults' = 0 => faults = 0
        BY Typing DEF PollMoves
    <2> QED
        BY <2>1, Zenon DEF PollMoves, Polled
<1>3. Alone'
    <2> SUFFICES ASSUME NEW q \in Polls, NEW o \in Polls, poll'[q].pc \in Winning, poll'[o].pc \in Winning, q # o
                 PROVE  FALSE
        BY Zenon DEF Alone
    <2>1. \A u \in Polls : poll[u].pc \in Winning => rec.status = "consumed"
        BY Zenon DEF Polled, Prepared
    <2>2. \A u \in Polls \ {p} : poll'[u] = poll[u]
        BY Zenon DEF PollMoves
    <2>3. poll'[p].pc \in Winning => poll[p].pc \in Winning \/ rec.status = "approved"
        BY Zenon DEF PollMoves
    <2> QED
        BY <2>1, <2>2, <2>3, Zenon DEF Polled, Alone
<1>4. FaultKeepsApproval'
    <2> SUFFICES ASSUME rec'.status = "consumed", subjectLive'
                 PROVE  \E u \in Polls : poll'[u].access # "none" /\ poll'[u].refresh # "none"
        BY Zenon DEF FaultKeepsApproval
    <2>1. subjectLive /\ (rec.status = "consumed" \/ poll[p].pc = "consume")
        BY Zenon DEF PollMoves
    <2>2. PICK u \in Polls : poll[u].access # "none" /\ poll[u].refresh # "none"
        BY <2>1, Zenon DEF Polled, FaultKeepsApproval, Prepared
    <2> QED
        BY <2>2, Zenon DEF PollMoves
<1>5. Typed'
    BY SameSetting, Zenon DEF PollMoves, RecordMoves, Typed, TypeOK, TeardownVars, PollType, Decisions
<1> QED
    BY <1>1, <1>2, <1>3, <1>4, <1>5, Zenon DEF Polled

\* A teardown step or one of the world's is quiet.
LEMMA WorldQuiet ==
    ASSUME Typed, UNCHANGED setting, Approve \/ Deny \/ Deprovision \/ Clock \/ KitStart \/ KitMark
               \/ (\E g \in GrantIds : SubjectStart(g)) \/ TeardownDelete
    PROVE  Quiet
<1> DEFINE Same == /\ poll' = poll /\ tombstone' = tombstone
                   /\ grants' \subseteq GrantIds /\ subjectLive' \in BOOLEAN /\ (subjectLive' => subjectLive)
                   /\ now' \in Nat \ {0} /\ now' >= now /\ faults' \in 0 .. MaxFaults /\ faults' >= faults
<1>1. Same
    <2>1. CASE Approve \/ Deny \/ Deprovision \/ Clock
        <3>1. now' = now \/ now' = now + 1
            BY <2>1, Zenon DEF Approve, Deny, Deprovision, Clock, Tick
        <3>2. poll' = poll /\ tombstone' = tombstone /\ grants' = grants /\ faults' = faults
            BY <2>1, Zenon DEF Approve, Deny, Deprovision, Clock, StoresExceptRecord
        <3>3. subjectLive' \in BOOLEAN /\ (subjectLive' => subjectLive)
            <4>1. CASE Deprovision
                BY <4>1, Zenon DEF Deprovision
            <4>2. CASE Approve \/ Deny \/ Clock
                <5>1. subjectLive' = subjectLive
                    BY <4>2, Zenon DEF Approve, Deny, Clock, StoresExceptRecord
                <5> QED
                    BY <5>1, Zenon DEF Typed, TypeOK
            <4> QED
                BY <2>1, <4>1, <4>2, Zenon
        <3> QED
            BY <3>1, <3>2, <3>3, Typing DEF Typed, TypeOK
    <2>2. CASE KitStart \/ KitMark \/ (\E g \in GrantIds : SubjectStart(g)) \/ TeardownDelete
        <3>1. poll' = poll /\ tombstone' = tombstone /\ now' = now /\ subjectLive' = subjectLive
              /\ grants' \subseteq grants
            BY <2>2, Zenon DEF KitStart, KitMark, SubjectStart, TeardownDelete, StoresExceptRecord, Polling
        <3>2. faults' = faults \/ (faults < MaxFaults /\ faults' = faults + 1)
            BY <2>2, Zenon DEF KitStart, KitMark, SubjectStart, TeardownDelete
        <3> QED
            BY <3>1, <3>2, Typing DEF Typed, TypeOK
    <2> QED
        BY <2>1, <2>2, Zenon
<1>2. RecordMoves /\ (rec'.status = "consumed" => rec.status = "consumed")
    <2>1. CASE rec' = rec
        BY <2>1, Typing, RecordStays, Zenon
    <2>2. CASE ApproveRecord \/ DenyRecord
        BY <2>2, Typing, RecordSteps, Zenon
    <2>3. CASE Transition(IF rec.status \in {"pending", "approved"} THEN [rec EXCEPT !.status = "denied"] ELSE rec)
        BY <2>3, Typing DEF Transition, RecordMoves, Records, Statuses
    <2> QED
        BY <2>1, <2>2, <2>3, Zenon DEF Approve, Deny, Deprovision, Clock, KitStart, KitMark, SubjectStart,
           TeardownDelete, Polling
<1> QED
    BY <1>1, <1>2, Typing DEF Quiet

\* So is a rung.
LEMMA RungQuiet ==
    ASSUME Typed, Tearing, UNCHANGED setting,
           TeardownJWT \/ TeardownOpaque \/ TeardownClosure \/ TeardownRefresh
    PROVE  Quiet
<1>1. /\ UNCHANGED <<now, rec, subjectLive, grants>>
      /\ faults' \in 0 .. MaxFaults /\ faults' >= faults
    BY Typing DEF Typed, TypeOK, TeardownJWT, TeardownOpaque, TeardownClosure, TeardownRefresh, Rung, RungFails,
                  Polling
<1>2. RecordMoves
    BY <1>1, Typing, RecordStays, Zenon
<1>3. \/ poll' = poll
      \/ SweepAccess \/ SweepRefresh
    BY Zenon DEF TeardownJWT, TeardownOpaque, TeardownClosure, TeardownRefresh
<1>4. tombstone' \in [GrantIds -> Nat] /\ \A g \in GrantIds : tombstone'[g] >= tombstone[g]
    <2>1. CASE tombstone' = tombstone
        BY <2>1, Typing
    <2>2. ASSUME NEW at \in Nat, Write(teardown.grant, at), teardown.grant \in GrantIds
          PROVE  tombstone' \in [GrantIds -> Nat] /\ \A g \in GrantIds : tombstone'[g] >= tombstone[g]
        BY <2>2, Writes, Zenon
    <2>3. teardown.at \in Nat /\ now \in Nat
        BY Typing, Zenon DEF TeardownType
    <2>4. teardown.pc # "idle" => teardown.grant \in GrantIds
        BY CeremonyAssumption, Zenon DEF Tearing, GrantIds, GrantOf
    <2> QED
        BY <2>1, <2>2, <2>3, <2>4, Zenon DEF TeardownJWT, TeardownOpaque, TeardownClosure, TeardownRefresh
<1> QED
    BY <1>1, <1>2, <1>3, <1>4, Sweeps, Typing DEF Quiet, Typed, TypeOK

-----------------------------------------------------------------------------
(* What the teardowns have retired *)

\* What is retired stays retired.
LEMMA SweptStays ==
    ASSUME Typed, Quiet, NEW p \in Polls
    PROVE  /\ JwtSwept(p) => JwtSwept(p)'
           /\ OpaqueSwept(p) => OpaqueSwept(p)'
           /\ RefreshSwept(p) => RefreshSwept(p)'
<1>1. GrantOf(p) \in GrantIds /\ poll[p].mintedAt \in Nat
    BY Typing, Zenon DEF PollType
<1>2. tombstone[GrantOf(p)] \in Nat /\ tombstone'[GrantOf(p)] \in Nat /\ tombstone'[GrantOf(p)] >= tombstone[GrantOf(p)]
    BY <1>1, Typing, Zenon DEF Quiet
<1> QED
    BY <1>1, <1>2, SameSetting DEF Quiet, JwtSwept, OpaqueSwept, RefreshSwept

\* A poll's step: no poll wins behind the kit's mark, none delivers behind a
\* closure of its grant.
LEMMA PollTorn ==
    ASSUME Typed, Torn, UNCHANGED setting, NEW p \in Polls, PollMoves(p)
    PROVE  Torn'
<1>1. teardown' = teardown /\ torn' = torn /\ tombstone' = tombstone
    BY Zenon DEF PollMoves, TeardownVars
<1>2. Tearing' /\ Marked'
    BY <1>1, SameSetting, Zenon DEF Torn, Tearing, Marked, KitTorn, PollMoves, RecordMoves
<1>3. KitSwept'
    <2> SUFFICES ASSUME NEW q \in Polls, poll'[q].pc \in Winning
                 PROVE  /\ (KitTorn \/ By("kit", {"opaque", "refresh", "delete"}))' => JwtSwept(q)'
                        /\ (KitTorn \/ By("kit", {"refresh", "delete"}))' => OpaqueSwept(q)'
                        /\ (KitTorn \/ By("kit", {"delete"}))' => RefreshSwept(q)'
                        /\ teardown'.by = "kit" => teardown'.pc # "closure"
        BY Zenon DEF KitSwept
    <2>1. CASE poll[q].pc \in Winning
        <3>1. /\ poll'[q].access = "live" => poll[q].access = "live"
              /\ poll'[q].refresh = "live" => poll[q].refresh = "live"
              /\ poll'[q].mintedAt = poll[q].mintedAt
            BY <2>1, Zenon DEF PollMoves
        <3>2. (JwtSwept(q) => JwtSwept(q)') /\ (OpaqueSwept(q) => OpaqueSwept(q)')
              /\ (RefreshSwept(q) => RefreshSwept(q)')
            BY <1>1, <3>1, SameSetting DEF JwtSwept, OpaqueSwept, RefreshSwept
        <3> QED
            BY <1>1, <2>1, <3>2, Zenon DEF Torn, KitSwept, By, KitTorn
    <2>2. CASE poll[q].pc \notin Winning
        <3>1. rec.status = "approved"
            BY <2>2, Zenon DEF PollMoves
        <3> QED
            BY <1>1, <3>1, Zenon DEF Torn, Marked, By, KitTorn
    <2> QED
        BY <2>1, <2>2, Zenon
<1>4. ASSUME NEW q \in Polls, poll'[q].pc = "delivered"
      PROVE  \/ poll[q].pc = "delivered" /\ poll'[q] = poll[q]
             \/ tombstone[GrantOf(q)] < IssuedAt
    BY <1>4, Zenon DEF PollMoves
<1>5. SubjectSwept'
    <2>1. /\ By("subject", {"opaque"})' /\ Strategy' = "tombstone" => tombstone'[teardown'.grant] >= IssuedAt
          /\ By("subject", {"refresh", "delete"})' => tombstone'[teardown'.grant] >= IssuedAt
        BY <1>1, SameSetting, Zenon DEF Torn, SubjectSwept, By
    <2>2. ASSUME NEW g \in GrantIds, tombstone[g] >= IssuedAt,
                 \A q \in Polls : poll[q].pc = "delivered" /\ GrantOf(q) = g => RefreshSwept(q)
          PROVE  \A q \in Polls : poll'[q].pc = "delivered" /\ GrantOf(q) = g => RefreshSwept(q)'
        BY <1>4, <2>2, Typing DEF RefreshSwept, IssuedAt
    <2>3. By("subject", {"delete"}) => teardown.grant \in GrantIds
        BY Zenon DEF Torn, Tearing, By
    <2>4. By("subject", {"delete"})' =>
             \A q \in Polls : poll'[q].pc = "delivered" /\ GrantOf(q)' = teardown'.grant => RefreshSwept(q)'
        BY <1>1, <2>2, <2>3, SameSetting, Zenon DEF Torn, SubjectSwept, By
    <2>5. \A g \in GrantIds : <<"subject", g>> \in torn' =>
             /\ tombstone'[g] >= IssuedAt
             /\ \A q \in Polls : poll'[q].pc = "delivered" /\ GrantOf(q)' = g => RefreshSwept(q)'
        BY <1>1, <2>2, SameSetting, Zenon DEF Torn, SubjectSwept
    <2> QED
        BY <2>1, <2>4, <2>5, SameSetting, Zenon DEF SubjectSwept, IssuedAt
<1> QED
    BY <1>2, <1>3, <1>5, Zenon DEF Torn

\* What earlier teardowns retired, and the kit's mark.
Before ==
    /\ KitTorn => Kind = "device" /\ rec.status \in {"denied", "consumed"}
    /\ KitTorn => \A p \in Polls : poll[p].pc \in Winning => JwtSwept(p) /\ OpaqueSwept(p) /\ RefreshSwept(p)
    /\ \A g \in GrantIds : <<"subject", g>> \in torn =>
          /\ tombstone[g] >= IssuedAt
          /\ \A p \in Polls : poll[p].pc = "delivered" /\ GrantOf(p) = g => RefreshSwept(p)

\* It survives every quiet step that completes no teardown.
LEMMA BeforeStays ==
    ASSUME Typed, Torn, Quiet, torn' = torn
    PROVE  Before'
<1>1. KitTorn' => Kind' = "device" /\ rec'.status \in {"denied", "consumed"}
    BY SameSetting, Zenon DEF Torn, Marked, KitTorn, Quiet, RecordMoves
<1>2. KitTorn' => \A p \in Polls : poll'[p].pc \in Winning => JwtSwept(p)' /\ OpaqueSwept(p)' /\ RefreshSwept(p)'
    BY SweptStays, Zenon DEF Torn, KitSwept, KitTorn, Quiet
<1>3. \A g \in GrantIds : <<"subject", g>> \in torn' =>
          /\ tombstone'[g] >= IssuedAt
          /\ \A p \in Polls : poll'[p].pc = "delivered" /\ GrantOf(p)' = g => RefreshSwept(p)'
    <2> TAKE g \in GrantIds
    <2> HAVE <<"subject", g>> \in torn'
    <2>1. tombstone'[g] >= IssuedAt
        BY Typing DEF Torn, SubjectSwept, Quiet, IssuedAt
    <2> QED
        BY <2>1, SweptStays, SameSetting, Zenon DEF Torn, SubjectSwept, Quiet
<1>4. GrantIds' = GrantIds
    BY SameSetting, Zenon DEF Quiet
<1> QED
    BY <1>1, <1>2, <1>3, <1>4, Zenon DEF Before, IssuedAt

\* The user, the account and the clock retire nothing and reopen nothing.
LEMMA WorldTorn ==
    ASSUME Typed, Torn, Quiet, torn' = torn, teardown' = teardown
    PROVE  Torn'
<1>1. Before'
    BY BeforeStays, Zenon
<1>2. Tearing' /\ Marked'
    BY SameSetting, Zenon DEF Torn, Tearing, Marked, KitTorn, Quiet, RecordMoves
<1>3. KitSwept'
    BY SweptStays, Zenon DEF Torn, KitSwept, KitTorn, By, Quiet
<1>4. SubjectSwept'
    <2>1. ASSUME By("subject", {"opaque", "refresh", "delete"}), tombstone[teardown.grant] >= IssuedAt
          PROVE  tombstone'[teardown.grant] >= IssuedAt
        BY <2>1, Typing DEF Torn, Tearing, By, Quiet, IssuedAt
    <2>2. /\ By("subject", {"opaque"})' /\ Strategy' = "tombstone" => tombstone'[teardown'.grant] >= IssuedAt
          /\ By("subject", {"refresh", "delete"})' => tombstone'[teardown'.grant] >= IssuedAt
        BY <2>1, SameSetting, Zenon DEF Torn, SubjectSwept, By, Quiet
    <2>3. By("subject", {"delete"})' =>
             \A p \in Polls : poll'[p].pc = "delivered" /\ GrantOf(p)' = teardown'.grant => RefreshSwept(p)'
        BY SweptStays, SameSetting, Zenon DEF Torn, SubjectSwept, By, Quiet
    <2> QED
        BY <1>1, <2>2, <2>3, Zenon DEF SubjectSwept, Before, IssuedAt
<1> QED
    BY <1>2, <1>3, <1>4, Zenon DEF Torn

\* A teardown that starts, marks the record or ends has retired nothing itself.
LEMMA StartTorn ==
    ASSUME Typed, Torn, Quiet, torn' = torn, Tearing', teardown'.pc \in {"idle", "mark", "jwt"},
           teardown'.by = "kit" /\ teardown'.pc = "jwt" => Kind' = "device" /\ rec'.status \in {"denied", "consumed"}
    PROVE  Torn'
<1>1. Before'
    BY BeforeStays, Zenon
<1>2. Marked'
    BY <1>1, Zenon DEF Before, Marked
<1>3. KitSwept' /\ SubjectSwept'
    BY <1>1, Zenon DEF Before, KitSwept, SubjectSwept, By
<1> QED
    BY <1>2, <1>3, Zenon DEF Torn

\* What a rung does to the teardown.
RungTo(next) ==
    /\ torn' = torn /\ teardowns' = teardowns /\ teardown' \in TeardownType
    /\ teardown'.pc = next /\ teardown'.by = teardown.by /\ teardown'.grant = teardown.grant /\ teardown'.at = teardown.at
    /\ teardown.failed => teardown'.failed

\* It moves on, and remembers a fault.
LEMMA RungMoves ==
    ASSUME Typed, NEW next \in {"opaque", "closure", "refresh", "delete"}, Rung(next) \/ RungFails(next),
           UNCHANGED <<teardowns, torn>>
    PROVE  RungTo(next) /\ (Rung(next) => faults' = faults) /\ (RungFails(next) => teardown'.failed)
<1>1. CASE Rung(next)
    <2>1. teardown' = [teardown EXCEPT !.pc = next] /\ faults' = faults
        BY <1>1, Zenon DEF Rung, StepTeardown
    <2>2. ~RungFails(next)
        BY <2>1, Typing DEF RungFails
    <2> QED
        BY <1>1, <2>1, <2>2, Typing, Zenon DEF RungTo, TeardownType
<1>2. CASE RungFails(next)
    <2>1. teardown' = [teardown EXCEPT !.pc = next, !.failed = TRUE] /\ faults' = faults + 1
        BY <1>2, Zenon DEF RungFails
    <2>2. ~Rung(next)
        BY <2>1, Typing DEF Rung
    <2> QED
        BY <1>2, <2>1, <2>2, Typing, Zenon DEF RungTo, TeardownType
<1> QED
    BY <1>1, <1>2, Zenon

\* What the rungs owe, one by one: then everything is in place after it.
LEMMA RungTorn ==
    ASSUME Typed, Torn, Quiet, NEW next \in {"opaque", "closure", "refresh", "delete"}, RungTo(next),
           teardown.pc \notin {"idle", "mark"},
           teardown.by = "kit" => next # "closure",
           By("kit", {"opaque", "refresh", "delete"})' =>
              \A p \in Polls : poll[p].pc \in Winning => JwtSwept(p)',
           By("kit", {"refresh", "delete"})' => \A p \in Polls : poll[p].pc \in Winning => OpaqueSwept(p)',
           By("kit", {"delete"})' => \A p \in Polls : poll[p].pc \in Winning => RefreshSwept(p)',
           By("subject", {"opaque"})' /\ Strategy = "tombstone" => tombstone'[teardown.grant] >= IssuedAt,
           By("subject", {"refresh", "delete"})' => tombstone'[teardown.grant] >= IssuedAt,
           By("subject", {"delete"})' =>
              \A p \in Polls : poll[p].pc = "delivered" /\ GrantOf(p) = teardown.grant => RefreshSwept(p)'
    PROVE  Torn'
<1>1. Before'
    BY BeforeStays, Zenon DEF RungTo
<1>2. Tearing'
    BY SameSetting, Zenon DEF Torn, Tearing, RungTo, Quiet
<1>3. Marked'
    BY <1>1, SameSetting, Zenon DEF Torn, Marked, Before, RungTo, Quiet, RecordMoves
<1>4. KitSwept'
    BY <1>1, Zenon DEF Before, KitSwept, RungTo, Quiet
<1>5. SubjectSwept'
    BY <1>1, SameSetting, Zenon DEF Before, SubjectSwept, RungTo, Quiet, IssuedAt
<1> QED
    BY <1>2, <1>3, <1>4, <1>5, Zenon DEF Torn

\* The kit's grant is every poll's, and a teardown's grant exists.
LEMMA TearingGrant ==
    ASSUME Typed, Torn, teardown.pc # "idle"
    PROVE  /\ teardown.grant \in GrantIds
           /\ teardown.by = "kit" => \A p \in Polls : GrantOf(p) = teardown.grant
           /\ teardown.by \in {"kit", "subject"} /\ teardown.at \in Nat
           /\ teardown.by = "subject" => teardown.at >= IssuedAt
    BY Typing, CeremonyAssumption, Zenon DEF Torn, Tearing, GrantIds, GrantOf, TeardownType

\* The JWT rung.
LEMMA JwtTorn ==
    ASSUME Typed, Polled, Torn, UNCHANGED setting, TeardownJWT
    PROVE  Torn' /\ RungTo("opaque")
<1>1. Quiet
    BY RungQuiet, Zenon DEF Torn
<1>2. teardown.pc = "jwt" /\ now' = now /\ now \in Nat
    BY Typing, Zenon DEF TeardownJWT, Polling
<1>3. RungTo("opaque") /\ (RungFails("opaque") => teardown'.failed)
    <2>1. (Rung("opaque") \/ RungFails("opaque")) /\ UNCHANGED <<teardowns, torn>>
        BY Zenon DEF TeardownJWT
    <2> QED
        BY <2>1, RungMoves, Zenon
<1>4. ~teardown'.failed /\ Strategy = "tombstone" =>
         Write(teardown.grant, IF teardown.by = "kit" THEN now ELSE teardown.at)
    BY <1>3, Zenon DEF TeardownJWT
<1>5. ~teardown'.failed /\ Strategy = "registry" /\ ~Opaque => SweepAccess
    BY <1>3, Zenon DEF TeardownJWT
<1>6. ASSUME ~teardown'.failed, teardown.by = "kit", NEW p \in Polls PROVE JwtSwept(p)'
    <2>1. Strategy = "tombstone" => tombstone'[GrantOf(p)] >= poll'[p].mintedAt
        <3> HAVE Strategy = "tombstone"
        <3>1. Write(GrantOf(p), now) /\ GrantOf(p) \in GrantIds
            BY <1>2, <1>4, <1>6, TearingGrant, Typing, Zenon
        <3>2. tombstone' \in [GrantIds -> Nat] /\ tombstone'[GrantOf(p)] >= now
            BY <1>2, <3>1, Writes, Zenon
        <3>3. poll'[p].mintedAt = poll[p].mintedAt /\ poll[p].mintedAt \in Nat /\ poll[p].mintedAt <= now
            BY <1>1, Typing, Zenon DEF Quiet, Polled, Prepared, PollType
        <3> QED
            BY <1>2, <3>1, <3>2, <3>3
    <2>2. Strategy = "registry" /\ ~Opaque => poll'[p].access # "live"
        BY <1>2, <1>5, <1>6, Sweeps, TearingGrant, Zenon
    <2> QED
        BY <2>1, <2>2, SameSetting, Zenon DEF JwtSwept
<1>7. ASSUME ~teardown'.failed, teardown.by = "subject", Strategy = "tombstone"
      PROVE  tombstone'[teardown.grant] >= IssuedAt
    <2>1. Write(teardown.grant, teardown.at)
        BY <1>4, <1>7, Zenon
    <2>2. tombstone' \in [GrantIds -> Nat] /\ tombstone'[teardown.grant] >= teardown.at
        BY <1>2, <2>1, TearingGrant, Writes, Zenon
    <2> QED
        BY <1>2, <1>7, <2>2, TearingGrant DEF IssuedAt
<1>8. Torn'
    BY <1>1, <1>2, <1>3, <1>6, <1>7, RungTorn, Zenon DEF By, RungTo
<1> QED
    BY <1>3, <1>8, Zenon

\* The opaque rung.
LEMMA OpaqueTorn ==
    ASSUME Typed, Torn, UNCHANGED setting, TeardownOpaque
    PROVE  Torn' /\ \E next \in {"closure", "refresh"} : RungTo(next)
<1>1. Quiet
    BY RungQuiet, Zenon DEF Torn
<1> DEFINE next == IF teardown.by = "subject" /\ Strategy # "tombstone" THEN "closure" ELSE "refresh"
<1>2. teardown.pc = "opaque" /\ next \in {"closure", "refresh"} /\ tombstone' = tombstone
    BY Zenon DEF TeardownOpaque
<1>3. (Rung(next) \/ RungFails(next)) /\ UNCHANGED <<teardowns, torn>> /\ (Opaque => SweepAccess \/ RungFails(next))
    BY Zenon DEF TeardownOpaque
<1>4. teardown.by = "kit" => next # "closure"
    BY Zenon
<1>5. teardown.by = "subject" /\ next = "refresh" => Strategy = "tombstone"
    BY Zenon
<1> HIDE DEF next
<1>6. RungTo(next) /\ (RungFails(next) => teardown'.failed)
    BY <1>2, <1>3, RungMoves, Zenon
<1>7. ASSUME By("kit", {"refresh"})', NEW p \in Polls PROVE OpaqueSwept(p)'
    <2>1. ~RungFails(next) /\ teardown.by = "kit"
        BY <1>6, <1>7, Zenon DEF By, RungTo
    <2> QED
        BY <1>2, <1>3, <2>1, Sweeps, TearingGrant, SameSetting, Zenon DEF OpaqueSwept
<1>8. ASSUME By("kit", {"refresh"})', NEW p \in Polls, poll[p].pc \in Winning PROVE JwtSwept(p)'
    <2>1. By("kit", {"opaque", "refresh", "delete"})
        BY <1>2, <1>6, <1>8, Zenon DEF By, RungTo
    <2> QED
        BY <1>1, <1>8, <2>1, SweptStays, Zenon DEF Torn, KitSwept
<1>9. By("subject", {"refresh"})' => tombstone'[teardown.grant] >= IssuedAt
    BY <1>2, <1>5, <1>6, Zenon DEF By, RungTo, Torn, SubjectSwept
<1>10. Torn'
    BY <1>1, <1>2, <1>4, <1>6, <1>7, <1>8, <1>9, RungTorn, Zenon DEF By, RungTo
<1> QED
    BY <1>2, <1>6, <1>10, Zenon

\* The closure, which only RevokeSubject writes.
LEMMA ClosureTorn ==
    ASSUME Typed, Torn, UNCHANGED setting, TeardownClosure
    PROVE  Torn' /\ RungTo("refresh")
<1>1. Quiet
    BY RungQuiet, Zenon DEF Torn
<1>2. teardown.pc = "closure" /\ poll' = poll
    BY Zenon DEF TeardownClosure
<1>3. RungTo("refresh") /\ (RungFails("refresh") => teardown'.failed)
    <2>1. (Rung("refresh") \/ RungFails("refresh")) /\ UNCHANGED <<teardowns, torn>>
        BY Zenon DEF TeardownClosure
    <2> QED
        BY <2>1, RungMoves, Zenon
<1>4. ~teardown'.failed => Write(teardown.grant, teardown.at)
    BY <1>3, Zenon DEF TeardownClosure
<1>5. By("subject", {"refresh"})' => tombstone'[teardown.grant] >= IssuedAt
    <2> HAVE By("subject", {"refresh"})'
    <2>1. teardown.by = "subject" /\ Write(teardown.grant, teardown.at)
        BY <1>3, <1>4, Zenon DEF By, RungTo
    <2>2. tombstone' \in [GrantIds -> Nat] /\ tombstone'[teardown.grant] >= teardown.at
        BY <1>2, <2>1, TearingGrant, Writes, Zenon
    <2> QED
        BY <1>2, <2>1, <2>2, TearingGrant DEF IssuedAt
<1>6. teardown.by = "kit" => \A p \in Polls : poll[p].pc \notin Winning
    BY <1>2, Zenon DEF Torn, KitSwept
<1>7. Torn'
    BY <1>1, <1>2, <1>3, <1>5, <1>6, RungTorn, Zenon DEF By, RungTo
<1> QED
    BY <1>3, <1>7, Zenon

\* The refresh rung.
LEMMA RefreshTorn ==
    ASSUME Typed, Torn, UNCHANGED setting, TeardownRefresh
    PROVE  Torn' /\ RungTo("delete")
<1>1. Quiet
    BY RungQuiet, Zenon DEF Torn
<1>2. teardown.pc = "refresh" /\ tombstone' = tombstone
    BY Zenon DEF TeardownRefresh
<1>3. RungTo("delete") /\ (RungFails("delete") => teardown'.failed)
    <2>1. (Rung("delete") \/ RungFails("delete")) /\ UNCHANGED <<teardowns, torn>>
        BY Zenon DEF TeardownRefresh
    <2> QED
        BY <2>1, RungMoves, Zenon
<1>4. ASSUME ~teardown'.failed, NEW p \in Polls, GrantOf(p) = teardown.grant PROVE RefreshSwept(p)'
    <2>1. SweepRefresh
        BY <1>3, <1>4, Zenon DEF TeardownRefresh
    <2> QED
        BY <1>4, <2>1, Sweeps, Zenon DEF RefreshSwept
<1>5. ASSUME By("kit", {"delete"})', NEW p \in Polls, poll[p].pc \in Winning
      PROVE  JwtSwept(p)' /\ OpaqueSwept(p)' /\ RefreshSwept(p)'
    <2>1. By("kit", {"opaque", "refresh", "delete"}) /\ By("kit", {"refresh", "delete"}) /\ teardown.by = "kit"
          /\ ~teardown'.failed
        BY <1>2, <1>3, <1>5, Zenon DEF By, RungTo
    <2>2. JwtSwept(p)' /\ OpaqueSwept(p)'
        BY <1>1, <1>5, <2>1, SweptStays, Zenon DEF Torn, KitSwept
    <2> QED
        BY <1>2, <1>4, <2>1, <2>2, TearingGrant, Zenon
<1>6. By("subject", {"delete"})' => tombstone'[teardown.grant] >= IssuedAt
    BY <1>2, <1>3, Zenon DEF By, RungTo, Torn, SubjectSwept
<1>7. Torn'
    BY <1>1, <1>2, <1>3, <1>4, <1>5, <1>6, RungTorn, Zenon DEF By, RungTo
<1> QED
    BY <1>3, <1>7, Zenon

\* The teardown ends, and has succeeded when no rung failed.
LEMMA DeleteTorn ==
    ASSUME Typed, Torn, UNCHANGED setting, TeardownDelete
    PROVE  Torn' /\ teardown' = NoTeardown /\ teardowns' = teardowns
           /\ torn' \subseteq {"kit", "subject"} \X GrantIds
<1>1. Quiet
    BY WorldQuiet, Zenon
<1>2. teardown.pc = "delete" /\ teardown' = NoTeardown /\ UNCHANGED <<rec, poll, tombstone, teardowns>>
    BY Zenon DEF TeardownDelete, Polling
<1>3. Tearing'
    BY <1>2, Zenon DEF Tearing, NoTeardown
<1>4. CASE torn' = torn
    <2>1. Torn'
        BY <1>1, <1>2, <1>3, <1>4, StartTorn, Zenon DEF NoTeardown
    <2> QED
        BY <1>2, <1>4, <2>1, Zenon DEF Typed, TypeOK
<1>5. CASE ~teardown.failed /\ torn' = torn \cup {<<teardown.by, teardown.grant>>}
    <2>1. torn' \subseteq {"kit", "subject"} \X GrantIds
        BY <1>2, <1>5, TearingGrant DEF Typed, TypeOK
    <2>2. teardown.by = "subject" => ~(KitTorn' /\ ~KitTorn)
        BY <1>5, Zenon DEF KitTorn
    <2>3. teardown.by = "kit" => By("kit", {"opaque", "refresh", "delete"}) /\ By("kit", {"refresh", "delete"})
                                 /\ By("kit", {"delete"}) /\ Kind = "device" /\ rec.status \in {"denied", "consumed"}
        BY <1>2, <1>5, Zenon DEF By, Torn, Marked
    <2>4. Marked'
        BY <1>2, <2>2, <2>3, TearingGrant, SameSetting, Zenon DEF Torn, Marked, NoTeardown
    <2>5. ASSUME KitTorn', NEW p \in Polls, poll[p].pc \in Winning
          PROVE  JwtSwept(p) /\ OpaqueSwept(p) /\ RefreshSwept(p)
        BY <1>2, <2>2, <2>3, <2>5, TearingGrant, Zenon DEF Torn, KitSwept
    <2>6. KitSwept'
        BY <1>1, <1>2, <2>5, SweptStays, Zenon DEF KitSwept, NoTeardown, By
    <2>7. ASSUME NEW g \in GrantIds, <<"subject", g>> \in torn'
          PROVE  /\ tombstone[g] >= IssuedAt
                 /\ \A p \in Polls : poll[p].pc = "delivered" /\ GrantOf(p) = g => RefreshSwept(p)
        <3>1. CASE <<"subject", g>> \in torn
            BY <3>1, Zenon DEF Torn, SubjectSwept
        <3>2. CASE teardown.by = "subject" /\ g = teardown.grant
            BY <1>2, <1>5, <3>2, Zenon DEF Torn, SubjectSwept, By
        <3> QED
            BY <1>5, <2>7, <3>1, <3>2, Zenon
    <2>8. SubjectSwept'
        BY <1>1, <1>2, <2>7, SweptStays, SameSetting, Zenon DEF SubjectSwept, NoTeardown, By, IssuedAt
    <2> QED
        BY <1>2, <1>3, <2>1, <2>4, <2>6, <2>8, Zenon DEF Torn
<1> QED
    BY <1>4, <1>5, Zenon DEF TeardownDelete

\* A teardown starts; the kit denies the record first.
LEMMA BeginTorn ==
    ASSUME Typed, Torn, UNCHANGED setting, KitStart \/ KitMark \/ \E g \in GrantIds : SubjectStart(g)
    PROVE  Torn' /\ teardown' \in TeardownType /\ teardowns' \in Nat /\ torn' = torn
<1>1. Quiet
    BY WorldQuiet, Zenon
<1>2. torn' = torn /\ teardowns' \in Nat
    <2>1. torn' = torn /\ (teardowns' = teardowns \/ teardowns' = teardowns + 1)
        BY Zenon DEF KitStart, KitMark, SubjectStart
    <2> QED
        BY <2>1 DEF Typed, TypeOK
<1>3. NoTeardown \in TeardownType
    BY Zenon DEF NoTeardown, TeardownType
<1>4. CASE KitStart
    <2>1. teardown' = [NoTeardown EXCEPT !.pc = "mark", !.by = "kit", !.grant = "device_code"] /\ Kind = "device"
        BY <1>4, Zenon DEF KitStart
    <2>2. "device_code" \in GrantIds
        BY <2>1, CeremonyAssumption, Zenon DEF GrantIds, GrantOf
    <2>3. teardown' \in TeardownType /\ teardown'.pc = "mark" /\ teardown'.by = "kit" /\ teardown'.grant = "device_code"
        BY <1>3, <2>1, <2>2, Zenon DEF TeardownType, NoTeardown
    <2>4. Tearing'
        BY <2>1, <2>3, SameSetting, Zenon DEF Tearing
    <2> QED
        BY <1>1, <1>2, <2>3, <2>4, StartTorn, Zenon
<1>5. CASE KitMark
    <2>1. teardown.pc = "mark" /\ teardown.by = "kit" /\ Kind = "device" /\ teardown.grant = "device_code"
        BY <1>5, Zenon DEF KitMark, Torn, Tearing
    <2>2. CASE teardown' = NoTeardown
        BY <1>1, <1>2, <1>3, <2>2, StartTorn, Zenon DEF NoTeardown, Tearing
    <2>3. CASE teardown' = [teardown EXCEPT !.pc = "jwt"] /\ Found
               /\ Transition(IF rec.status \in {"pending", "approved"} THEN [rec EXCEPT !.status = "denied"] ELSE rec)
        <3>1. teardown' \in TeardownType /\ teardown'.pc = "jwt" /\ teardown'.by = "kit"
              /\ teardown'.grant = "device_code"
            BY <2>1, <2>3, Typing, Zenon DEF TeardownType
        <3>2. rec'.status \in {"denied", "consumed"}
            BY <2>3, Typing, Zenon DEF Transition, Records, Statuses
        <3>3. Tearing'
            BY <2>1, <3>1, SameSetting, Zenon DEF Tearing
        <3> QED
            BY <1>1, <1>2, <2>1, <3>1, <3>2, <3>3, StartTorn, SameSetting, Zenon
    <2> QED
        BY <1>5, <2>2, <2>3, Zenon DEF KitMark
<1>6. CASE \E g \in GrantIds : SubjectStart(g)
    <2>1. PICK g \in GrantIds :
             teardown' = [NoTeardown EXCEPT !.pc = "jwt", !.by = "subject", !.grant = g, !.at = now]
        BY <1>6, Zenon DEF SubjectStart
    <2>2. teardown' \in TeardownType /\ teardown'.pc = "jwt" /\ teardown'.by = "subject" /\ teardown'.grant = g
          /\ teardown'.at = now
        BY <2>1, Typing, Zenon DEF TeardownType, NoTeardown
    <2>3. Tearing'
        BY <2>2, Typing, SameSetting DEF Tearing, IssuedAt
    <2> QED
        BY <1>1, <1>2, <2>2, <2>3, StartTorn, Zenon
<1> QED
    BY <1>4, <1>5, <1>6, Zenon

\* The inductive invariant.
Ceremony == Typed /\ Polled /\ Torn

\* A quiet step keeps the types, given those of the teardown.
LEMMA QuietTyped ==
    ASSUME Typed, Quiet, teardown' \in TeardownType, teardowns' \in Nat, torn' \subseteq {"kit", "subject"} \X GrantIds
    PROVE  Typed'
<1>1. teardown'.pc \in {"idle", "mark", "jwt", "opaque", "closure", "refresh", "delete"}
    BY Zenon DEF TeardownType
<1> QED
    BY <1>1, SameSetting, Zenon DEF Quiet, RecordMoves, Typed, TypeOK, PollType, Decisions

\* A new ceremony.
LEMMA InitCeremony == Init => Ceremony
<1> SUFFICES ASSUME Init PROVE Ceremony
    BY Zenon
<1>1. Typed
    <2>1. NewPoll \in PollType /\ NewRecord \in Records
        BY LadderAssumption, Zenon DEF NewPoll, PollType, PollPCs, Decisions, Custody, NewRecord, Records, Statuses
    <2>2. NoTeardown \in TeardownType /\ teardown.pc = "idle"
        BY Zenon DEF Init, NoTeardown, TeardownType
    <2>3. 0 \in 0 .. MaxFaults
        BY CeremonyAssumption DEF Init, MaxFaults
    <2> QED
        BY <2>1, <2>2, <2>3 DEF Init, Typed, TypeOK, PollType, Decisions, IssuedAt
<1>2. Polled
    BY DEF Init, Polled, Prepared, TakenBack, Alone, FaultKeepsApproval, NewPoll, NewRecord, Early, Winning, IssuedAt
<1>3. Torn
    BY Zenon DEF Init, Torn, Tearing, Marked, KitSwept, SubjectSwept, KitTorn, By, NoTeardown
<1> QED
    BY <1>1, <1>2, <1>3, Zenon DEF Ceremony

\* Every step keeps it.
LEMMA NextCeremony == Ceremony /\ [Next]_vars => Ceremony'
<1> SUFFICES ASSUME Typed, Polled, Torn, [Next]_vars PROVE Ceremony'
    BY Zenon DEF Ceremony
<1>1. CASE Next
    <2>1. UNCHANGED setting
        BY <1>1, Zenon DEF Next
    <2>2. ASSUME NEW p \in Polls, PollStep(p) \/ Crash(p) PROVE Ceremony'
        <3>1. PollMoves(p)
            BY <2>1, <2>2, PollStepMoves, Zenon DEF Polled
        <3> QED
            BY <2>1, <3>1, PollPolled, PollTorn, Zenon DEF Ceremony
    <2>3. ASSUME Quiet, Torn', teardown' \in TeardownType, teardowns' \in Nat,
                 torn' \subseteq {"kit", "subject"} \X GrantIds
          PROVE  Ceremony'
        BY <2>3, QuietPolled, QuietTyped, Zenon DEF Ceremony
    <2>4. torn \subseteq {"kit", "subject"} \X GrantIds /\ teardowns \in Nat /\ teardown \in TeardownType
        BY Zenon DEF Typed, TypeOK
    <2>5. CASE KitStart \/ KitMark \/ \E g \in GrantIds : SubjectStart(g)
        BY <2>1, <2>3, <2>4, <2>5, BeginTorn, WorldQuiet, Zenon
    <2>6. CASE TeardownJWT \/ TeardownOpaque \/ TeardownClosure \/ TeardownRefresh
        <3>1. Quiet
            BY <2>1, <2>6, RungQuiet, Zenon DEF Torn
        <3>2. Torn' /\ \E next \in {"opaque", "closure", "refresh", "delete"} : RungTo(next)
            BY <2>1, <2>6, JwtTorn, OpaqueTorn, ClosureTorn, RefreshTorn, Zenon
        <3> QED
            BY <2>3, <2>4, <3>1, <3>2, Zenon DEF RungTo
    <2>7. CASE TeardownDelete
        <3>1. NoTeardown \in TeardownType
            BY Zenon DEF NoTeardown, TeardownType
        <3> QED
            BY <2>1, <2>3, <2>4, <2>7, <3>1, DeleteTorn, WorldQuiet, Zenon
    <2>8. CASE Approve \/ Deny \/ Deprovision \/ Clock
        <3>1. Quiet
            BY <2>1, <2>8, WorldQuiet, Zenon
        <3>2. UNCHANGED TeardownVars
            BY <2>8, Zenon DEF Approve, Deny, Deprovision, Clock
        <3> QED
            BY <2>3, <2>4, <3>1, <3>2, WorldTorn, Zenon DEF TeardownVars
    <2> QED
        BY <1>1, <2>2, <2>5, <2>6, <2>7, <2>8, Zenon DEF Next, TeardownStep
<1>2. CASE UNCHANGED vars
    <2>1. Quiet
        BY <1>2, Typing, RecordStays DEF vars, Quiet, Typed, TypeOK
    <2>2. UNCHANGED <<teardown, teardowns, torn>>
        BY <1>2, Zenon DEF vars
    <2> QED
        BY <2>1, <2>2, QuietPolled, QuietTyped, WorldTorn, Zenon DEF Ceremony, Typed, TypeOK
<1> QED
    BY <1>1, <1>2, Zenon

-----------------------------------------------------------------------------
(* The theorems *)

\* In every reachable state the inductive invariant holds.
THEOREM CeremonyAlways == Spec => []Ceremony
    BY InitCeremony, NextCeremony, PTL DEF Spec

\* However many polls pass the gates on one approval, one of them at most
\* answers with credentials (consumeDeviceCode, consumeCIBARequest).
THEOREM DeliveredOnceAlways == Spec => []DeliveredOnce
<1>1. Ceremony => DeliveredOnce
    BY Zenon DEF Ceremony, Polled, Alone, DeliveredOnce, Delivered, At, Winning
<1> QED
    BY <1>1, CeremonyAlways, PTL

\* A poll that lost, failed or was refused leaves no live row behind, as long
\* as no cleanup write failed (preparedPolledResponse.cleanup,
\* rollbackPolledResponse).
THEOREM RefusedPollLeavesNothingAlways == Spec => []RefusedPollLeavesNothing
<1>1. Ceremony => RefusedPollLeavesNothing
    BY Zenon DEF Ceremony, Polled, TakenBack, RefusedPollLeavesNothing, At
<1> QED
    BY <1>1, CeremonyAlways, PTL

\* Only a poll that had all its credentials ready, or the retirement of a gone
\* subject, spends the approval (preparePolledResponse before Consume).
THEOREM FaultKeepsApprovalAlways == Spec => []FaultKeepsApproval
<1>1. Ceremony => FaultKeepsApproval
    BY Zenon DEF Ceremony, Polled
<1> QED
    BY <1>1, CeremonyAlways, PTL

\* Once devicecodekit.Revoke or RevokeSubject has succeeded, what a poll
\* delivered under the grant is dead, wherever the teardown met the poll
\* (refuseIssuanceUnderClosedGrant, DeviceCodeStore.Revoke).
THEOREM TeardownLeavesNothingAlways == Spec => []TeardownLeavesNothing
<1>1. Ceremony => TeardownLeavesNothing
    <2> SUFFICES ASSUME Typed, Torn, NEW p \in Polls, poll[p].pc = "delivered"
                 PROVE  /\ KitTorn => poll[p].refresh # "live" /\ (Opaque \/ Strategy # "none" => ~AccessLive(p))
                        /\ <<"subject", GrantOf(p)>> \in torn => poll[p].refresh # "live"
        BY Zenon DEF Ceremony, TeardownLeavesNothing, Delivered, At, KitTorn
    <2>1. KitTorn => JwtSwept(p) /\ OpaqueSwept(p) /\ RefreshSwept(p)
        BY Zenon DEF Torn, KitSwept, Winning
    <2>2. setting.strategy \in {"tombstone", "registry", "none"} /\ poll[p].mintedAt \in Nat
          /\ GrantOf(p) \in GrantIds /\ tombstone[GrantOf(p)] \in Nat
        BY Typing, CeremonyAssumption, Zenon DEF PollType
    <2>3. JwtSwept(p) /\ OpaqueSwept(p) /\ (Opaque \/ Strategy # "none") => ~AccessLive(p)
        BY <2>2 DEF JwtSwept, OpaqueSwept, AccessLive, Strategy
    <2>4. <<"subject", GrantOf(p)>> \in torn => poll[p].refresh # "live"
        BY <2>2, Zenon DEF Torn, SubjectSwept, RefreshSwept
    <2> QED
        BY <2>1, <2>3, <2>4, Zenon DEF RefreshSwept
<1> QED
    BY <1>1, CeremonyAlways, PTL

\* The bar a poll is measured against never falls, whatever stale interval a
\* concurrent poll read before it wrote (RecordPoll only escalates).
THEOREM BarNeverFallsAlways == Spec => BarNeverFalls
<1>1. Ceremony /\ [Next]_vars => [rec'.interval >= rec.interval]_vars
    <2> SUFFICES ASSUME Typed, Polled, Torn, Next PROVE rec'.interval >= rec.interval
        BY Zenon DEF Ceremony
    <2>1. UNCHANGED setting
        BY Zenon DEF Next
    <2>2. CASE \E p \in Polls : PollStep(p) \/ Crash(p)
        BY <2>1, <2>2, PollStepMoves, Zenon DEF Polled, PollMoves, RecordMoves
    <2>3. CASE TeardownStep \/ KitStart \/ (\E g \in GrantIds : SubjectStart(g)) \/ Approve \/ Deny \/ Deprovision
               \/ Clock
        BY <2>1, <2>3, WorldQuiet, RungQuiet, Zenon DEF TeardownStep, Torn, Quiet, RecordMoves
    <2> QED
        BY <2>2, <2>3, Zenon DEF Next
<1> QED
    BY <1>1, CeremonyAlways, PTL DEF Spec, BarNeverFalls
=============================================================================
