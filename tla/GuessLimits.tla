------------------------------ MODULE GuessLimits ------------------------------
(***************************************************************************)
(* The records that bound how often a secret is tried or a request is      *)
(* repeated: the user-code attempt limiter, the strikes of a device code,  *)
(* the poll ladder met by a client that follows it, the lockout counter    *)
(* and the e-mail code.  They live in separate rows and no operation       *)
(* touches two of them, so each is checked by itself: the initial state    *)
(* chooses the one that moves.  The counter's constants are those of the   *)
(* instance, the constants of the others are set here.                     *)
(***************************************************************************)
EXTENDS Lockout, TLC

VARIABLES
    part,   \* the one that moves; now, faults and guesses are shared
    attempts, nextExpiry, verdict, passed,                        \* AttemptLimiter
    records, index, draws, verifier, wrong,                       \* UserCodeEntry
    polled, clientInterval, sentAt, hasty, answer,                \* PollClient
    rec, version, mailReq, sends, redeemed, counted, uncounted    \* EmailOTP

Symmetry == Permutations(Requests)

Limiter == INSTANCE AttemptLimiter WITH
    Keys <- {"k1", "k2", "k3"}, Limit <- 2, MaxKeys <- 2, TTL <- 2, MaxTime <- 6

Entry == INSTANCE UserCodeEntry WITH
    DeviceCodes <- {"d1", "d2"}, UserCodes <- {"u1", "u2"}, Verifiers <- Requests, MaxUserCodeStrikes <- 2,
    UserCodeRetryBudget <- 2, Lifetime <- 1, MaxTime <- 4, MaxGuesses <- 4, MaxFaults <- 1

\* In half seconds, with the code's constants.
Client == INSTANCE PollClient WITH
    rec <- polled, DefaultInterval <- 10, SlowDownIncrement <- 10, IntervalTolerance <- 2, FastPollFloor <- 1,
    MaxPollViolations <- 3, MaxCounter <- 4, Lifetime <- 100, MaxTime <- 110, MaxHasty <- 3, MaxWait <- 31

\* Guesses against two codes, and five sends without guesses.
Mail == INSTANCE EmailOTP WITH
    req <- mailReq, total <- counted, cleared <- uncounted, CodeTTL <- 2, ResendMinInterval <- 1,
    ResendWindow <- 2, ResendWindowCap <- 2, ThresholdShort <- 2, ThresholdLong <- 3, DurationShort <- 1, DurationLong <- 2,
    CounterWindow <- 2, RecordRetention <- 2, MaxPersistRetries <- 2, MaxStall <- 1,
    MaxTime <- 4, MaxSends <- 2, MaxGuesses <- 3

Sends == INSTANCE EmailOTP WITH
    req <- mailReq, total <- counted, cleared <- uncounted, CodeTTL <- 1, ResendMinInterval <- 1,
    ResendWindow <- 4, ResendWindowCap <- 2, ThresholdShort <- 2, ThresholdLong <- 3, DurationShort <- 1, DurationLong <- 4,
    CounterWindow <- 4, RecordRetention <- 4, MaxPersistRetries <- 2, MaxStall <- 1,
    MaxTime <- 7, MaxSends <- 5, MaxGuesses <- 0

ASSUME ConstantsFit ==
    /\ Limiter!LimiterAssumption /\ Entry!EntryAssumption
    /\ Mail!EmailOTPAssumption /\ Sends!EmailOTPAssumption

limiterVars == <<attempts, nextExpiry, verdict, passed>>
entryVars   == <<records, index, draws, verifier, wrong>>
clientVars  == <<polled, clientInterval, sentAt, hasty, answer>>
counterVars == <<row, req, erasures, total, cleared, abandoned, swaps, late, lastAt>>
mailVars    == <<rec, version, mailReq, sends, redeemed, counted, uncounted>>

PartsInit ==
    /\ part \in {"limiter", "entry", "client", "counter", "mail", "sends"}
    /\ Limiter!Init /\ Entry!Init /\ Client!Init /\ Init
    /\ IF part = "sends" THEN Sends!Init ELSE Mail!Init

PartsNext ==
    /\ UNCHANGED part
    /\ \/ /\ part = "limiter" /\ Limiter!Next
          /\ UNCHANGED <<faults, guesses, entryVars, clientVars, counterVars, mailVars>>
       \/ /\ part = "entry" /\ Entry!Next
          /\ UNCHANGED <<guesses, limiterVars, clientVars, counterVars, mailVars>>
       \/ /\ part = "client" /\ Client!Next
          /\ UNCHANGED <<faults, guesses, limiterVars, entryVars, counterVars, mailVars>>
       \/ /\ part = "counter" /\ Next
          /\ UNCHANGED <<limiterVars, entryVars, clientVars, mailVars>>
       \/ /\ part = "mail" /\ Mail!Next
          /\ UNCHANGED <<faults, limiterVars, entryVars, clientVars, counterVars>>
       \/ /\ part = "sends" /\ Sends!Next
          /\ UNCHANGED <<faults, limiterVars, entryVars, clientVars, counterVars>>

PartsSpec ==
    PartsInit /\ [][PartsNext]_<<part, now, faults, guesses, limiterVars, entryVars, clientVars, counterVars, mailVars>>

-----------------------------------------------------------------------------
(* Properties, next to those of Lockout; the modules say what each is about. *)

\* InMemoryAttemptLimiter: a key is refused only inside its own window, and
\* other keys never give a locked one its budget back.
LocksAreTheKeysOwn == Limiter!LocksAreTheKeysOwn

\* Guesses of user codes are bounded and hit the record they name: no key is
\* admitted more than Limit times in a window, and the limiter's sweep is never
\* late; wrong codes stop at the strikes
\* and what is in flight; a record past its strikes is about to lock; and the
\* index and the records agree (Allow, verifyUserCode, devicecodes.go's Save).
UserCodesHold ==
    /\ Limiter!BudgetHolds /\ Limiter!SweepBound
    /\ Entry!IndexFaithful /\ Entry!GuessBudget /\ Entry!LockedIsNotApprovable

\* A client that polls as it is told earns no strike and is not locked out
\* (Decide, NextInterval, RecordPoll).
PatientClientIsSafe == Client!StruckOnlyWhenHasty /\ Client!NotLockedOut

\* An e-mail code is accepted once, no wrong guess is dropped by a resend, and
\* a record that lapsed protected nothing (Verify, Challenge, the retention).
MailedCodesHold ==
    /\ IF part = "sends" THEN Sends!CodeRedeemedOnce ELSE Mail!CodeRedeemedOnce
    /\ Mail!NoGuessLost
    /\ part = "mail" => Mail!LapseLosesNothing

\* Sends to one subject are spaced and capped, whatever they race.
SendsAreLimited == Sends!SendsAreSpaced /\ (part = "sends" => Sends!SendsAreCapped)
=============================================================================
