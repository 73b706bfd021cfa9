-------------------------------- MODULE EmailOTP --------------------------------
(***************************************************************************)
(* The email one-time-code record of one subject: sends that replace the   *)
(* challenge and carry its counters, verifications that count a wrong      *)
(* guess or consume the code, each a read and a versioned write.  A code   *)
(* is named by the send that made it.                                      *)
(***************************************************************************)
EXTENDS Integers, FiniteSets, Sequences

CONSTANTS
    Requests,
    CodeTTL, ResendMinInterval, ResendWindow, ResendWindowCap,
    ThresholdShort, ThresholdLong, DurationShort, DurationLong, CounterWindow,
    RecordRetention,
    MaxPersistRetries,
    MaxStall,  \* how long a request may hold a clock reading
    MaxTime, MaxSends, MaxGuesses  \* bounds on the clock, the sends and the guesses

\* What the constants must be.
EmailOTPAssumption ==
    /\ {CodeTTL, ResendMinInterval, ResendWindow, DurationShort, DurationLong, CounterWindow, RecordRetention,
        MaxStall, MaxTime, MaxSends, MaxGuesses} \subseteq Nat
    /\ {ResendWindowCap, ThresholdShort, ThresholdLong, MaxPersistRetries} \subseteq Nat \ {0}
    /\ DurationShort <= DurationLong /\ DurationLong <= RecordRetention
    /\ CounterWindow <= RecordRetention /\ ResendWindow <= RecordRetention
    /\ MaxStall < RecordRetention

VARIABLES
    rec,       \* the record; version 0 when there is none
    version,   \* the version allocator
    req,       \* the requests
    now,
    sends,     \* history: clock readings of the sends, in order
    guesses,   \* history: verifications started
    redeemed,  \* history: code -> times accepted
    total,     \* history: wrong guesses counted
    cleared    \* history: wrong guesses the record no longer counts

vars == <<rec, version, req, now, sends, guesses, redeemed, total, cleared>>

NoRec == [code |-> 0, mailed |-> FALSE, expires |-> 0, consumed |-> FALSE, failed |-> 0, first |-> 0, until |-> 0,
          sendStart |-> 0, sendCount |-> 0, lastSend |-> 0, retain |-> 0, version |-> 0]
Idle == [pc |-> "idle", snap |-> NoRec, at |-> 0, guess |-> 0, tries |-> 0]

Codes == 1..MaxSends

Init ==
    /\ rec = NoRec /\ version = 0
    /\ req = [r \in Requests |-> Idle]
    /\ now = 1
    /\ sends = <<>> /\ guesses = 0
    /\ redeemed = [c \in Codes |-> 0]
    /\ total = 0 /\ cleared = 0

Set(r, q) == req' = [req EXCEPT ![r] = q]

\* emailOTPExpired: the record is absent once its retention has passed.
Retained == rec.version # 0 /\ rec.retain >= now
Readable == IF Retained THEN rec ELSE NoRec

Store(new) == version' = version + 1 /\ rec' = [new EXCEPT !.version = version + 1]

-----------------------------------------------------------------------------
(* handleSend *)

\* Mutant: only the cap is enforced.
RateLimitedByCap(prior, t) ==
    /\ prior.version # 0
    /\ prior.sendStart # 0 /\ t - prior.sendStart < ResendWindow /\ prior.sendCount >= ResendWindowCap

\* checkResendRate
RateLimited(prior, t) ==
    /\ prior.version # 0
    /\ \/ prior.lastSend # 0 /\ t - prior.lastSend < ResendMinInterval
       \/ prior.sendStart # 0 /\ t - prior.sendStart < ResendWindow /\ prior.sendCount >= ResendWindowCap

\* Mutant: a resend starts the verify counters anew.
ChallengeUncarried(prior, t, code, mailed) ==
    LET fresh == prior.sendStart = 0 \/ t - prior.sendStart >= ResendWindow IN
    [NoRec EXCEPT !.code = code, !.mailed = mailed, !.expires = t + CodeTTL,
                  !.sendStart = IF fresh THEN t ELSE prior.sendStart,
                  !.sendCount = IF fresh THEN 1 ELSE prior.sendCount + 1,
                  !.lastSend = t, !.retain = t + RecordRetention]

\* The replacing record: the verify counters are carried, the send window
\* advances and the retention restarts.
Challenge(prior, t, code, mailed) ==
    LET fresh == prior.sendStart = 0 \/ t - prior.sendStart >= ResendWindow IN
    [prior EXCEPT !.code = code, !.mailed = mailed, !.expires = t + CodeTTL, !.consumed = FALSE,
                  !.sendStart = IF fresh THEN t ELSE @, !.sendCount = IF fresh THEN 1 ELSE @ + 1,
                  !.lastSend = t, !.retain = t + RecordRetention]

\* The clock is read first, then the prior record.
SendStart(r) ==
    /\ req[r].pc = "idle" /\ Len(sends) < MaxSends
    /\ Set(r, [Idle EXCEPT !.pc = "sendRead", !.at = now])
    /\ UNCHANGED <<rec, version, now, sends, guesses, redeemed, total, cleared>>

SendRead(r) ==
    /\ req[r].pc = "sendRead"
    /\ \/ RateLimited(Readable, req[r].at) /\ Set(r, Idle)
       \/ ~RateLimited(Readable, req[r].at) /\ Set(r, [req[r] EXCEPT !.pc = "sendSwap", !.snap = Readable])
    /\ UNCHANGED <<rec, version, now, sends, guesses, redeemed, total, cleared>>

\* CompareAndSwap of a send: without a prior record only an absent or lapsed
\* one is replaced.
Reservable(prior) == IF prior.version = 0 THEN ~Retained ELSE rec.version = prior.version

\* The challenge is reserved before the mailer is called; the address may not
\* be the bound one, and a failed delivery keeps the reservation.
SendSwap(r) ==
    LET q == req[r] IN
    /\ q.pc = "sendSwap" /\ Set(r, Idle)
    /\ \/ /\ Reservable(q.snap) /\ Len(sends) < MaxSends
          /\ \E mailed \in BOOLEAN : Store(Challenge(q.snap, q.at, Len(sends) + 1, mailed))
          /\ sends' = Append(sends, q.at)
          /\ cleared' = IF q.snap.version = 0 THEN total ELSE cleared
       \/ /\ ~Reservable(q.snap)
          /\ UNCHANGED <<rec, version, sends, cleared>>
    /\ UNCHANGED <<now, guesses, redeemed, total>>

-----------------------------------------------------------------------------
(* handleVerify *)

WindowExpired(first, t) == first # 0 /\ t - first > CounterWindow

\* lockout.Advance and the retention persistFailure stamps.
Counted(old, t) ==
    LET fresh == old.first = 0 \/ WindowExpired(old.first, t)
        count == IF fresh THEN 1 ELSE old.failed + 1
    IN [old EXCEPT !.failed = count, !.first = IF fresh THEN t ELSE @, !.retain = t + RecordRetention,
                   !.until = IF count >= ThresholdLong THEN t + DurationLong
                             ELSE IF count >= ThresholdShort THEN t + DurationShort ELSE @]

\* A submission: the code of some send, or 0 for one that matches none.
VerifyStart(r) ==
    /\ req[r].pc = "idle" /\ guesses < MaxGuesses
    /\ guesses' = guesses + 1
    /\ \E g \in 0..Len(sends) : Set(r, [Idle EXCEPT !.pc = "read", !.guess = g])
    /\ UNCHANGED <<rec, version, now, sends, redeemed, total, cleared>>

\* Verify over the record read: absent, consumed, locked or expired ends the
\* request, as does the last retry.
Verify(r) ==
    LET q == req[r] IN
    /\ q.pc = "read"
    /\ \/ /\ q.tries = MaxPersistRetries \/ ~Retained
          /\ Set(r, Idle)
       \/ /\ q.tries < MaxPersistRetries /\ Retained
          /\ rec.consumed \/ rec.until > now \/ rec.expires < now
          /\ Set(r, Idle)
       \/ /\ q.tries < MaxPersistRetries /\ Retained
          /\ ~(rec.consumed \/ rec.until > now \/ rec.expires < now)
          /\ Set(r, [q EXCEPT !.pc = IF rec.mailed /\ rec.code = q.guess THEN "consume" ELSE "count",
                              !.snap = rec, !.at = now])
    /\ UNCHANGED <<rec, version, now, sends, guesses, redeemed, total, cleared>>

Again(r) == Set(r, [req[r] EXCEPT !.pc = "read", !.tries = @ + 1])

\* persistFailure: a lost write verifies again against the winner.
CountSwap(r) ==
    LET q == req[r] IN
    /\ q.pc = "count"
    /\ \/ /\ rec.version = q.snap.version
          /\ Store(Counted(q.snap, q.at))
          /\ Set(r, Idle)
          /\ total' = total + 1
          /\ cleared' = IF q.snap.first = 0 \/ WindowExpired(q.snap.first, q.at) THEN total ELSE cleared
       \/ /\ rec.version # q.snap.version
          /\ Again(r)
          /\ UNCHANGED <<rec, version, total, cleared>>
    /\ UNCHANGED <<now, sends, guesses, redeemed>>

\* Consume: bound to the exact version; expired meanwhile fails the request.
Consume(r) ==
    LET q == req[r] IN
    /\ q.pc = "consume"
    /\ \/ /\ rec.version = q.snap.version /\ rec.expires >= now /\ ~rec.consumed
          /\ Store([q.snap EXCEPT !.consumed = TRUE, !.failed = 0, !.first = 0, !.until = 0])
          /\ redeemed' = [redeemed EXCEPT ![q.guess] = @ + 1]
          /\ cleared' = total
          /\ Set(r, Idle)
       \/ /\ rec.version = q.snap.version /\ rec.expires < now
          /\ Set(r, Idle)
          /\ UNCHANGED <<rec, version, redeemed, cleared>>
       \/ /\ rec.version # q.snap.version
          /\ Again(r)
          /\ UNCHANGED <<rec, version, redeemed, cleared>>
    /\ UNCHANGED <<now, sends, guesses, total>>

Tick ==
    /\ now < MaxTime /\ now' = now + 1
    /\ \A r \in Requests : req[r].pc \in {"sendRead", "sendSwap", "count", "consume"} => now < req[r].at + MaxStall
    /\ UNCHANGED <<rec, version, req, sends, guesses, redeemed, total, cleared>>

Next ==
    \/ \E r \in Requests : SendStart(r) \/ SendRead(r) \/ SendSwap(r)
                           \/ VerifyStart(r) \/ Verify(r) \/ CountSwap(r) \/ Consume(r)
    \/ Tick

Spec == Init /\ [][Next]_vars

-----------------------------------------------------------------------------
(* Properties *)

\* A code is accepted at most once, whatever else raced for its record
\* (Consume against a concurrent redemption, a wrong guess or a resend).
CodeRedeemedOnce == \A c \in Codes : redeemed[c] <= 1

\* The record counts every wrong guess that was persisted since the last
\* success or window rollover; neither a resend nor a concurrent guess drops
\* one (carryVerifyCounters, persistFailure).
NoGuessLost == Retained => rec.failed = total - cleared

\* Two sends are never closer than the minimum interval, concurrent ones
\* included (the reservation before the mailer is called).
SendsAreSpaced == \A i, j \in DOMAIN sends : i < j => sends[j] - sends[i] >= ResendMinInterval

\* Any stretch of the resend window's length sees at most twice the cap less
\* one sends, since the window is anchored and not sliding.
SendsAreCapped ==
    \A i \in DOMAIN sends :
        Cardinality({j \in DOMAIN sends : sends[j] >= sends[i] /\ sends[j] - sends[i] < ResendWindow})
            < 2 * ResendWindowCap

\* When the record lapses it protected nothing any more: no lock is in force
\* and neither the failure window nor the send window is open.  A send reads
\* its clock before it reads the record it carries over, so the retention may
\* fall short by that gap and no more (recordRetention and its re-stamping).
LapseLosesNothing ==
    rec.version # 0 /\ ~Retained =>
        /\ rec.until <= now + MaxStall
        /\ rec.first = 0 \/ WindowExpired(rec.first, now + MaxStall)
        /\ now - rec.sendStart >= ResendWindow
=============================================================================
