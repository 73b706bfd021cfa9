----------------------------- MODULE AttemptLimiter -----------------------------
(***************************************************************************)
(* devicecodekit.InMemoryAttemptLimiter: the budget of manual user_code    *)
(* entries per ceremony key.  A key's window opens at its first charge and *)
(* is never extended; the map is swept only once nextExpiry, a lower bound *)
(* on the earliest expiry in it, is due.  A mutex makes each call atomic.  *)
(***************************************************************************)
EXTENDS Integers, FiniteSetsExt

CONSTANTS
    Keys,      \* attempt keys
    Limit,     \* charges per window
    MaxKeys,   \* keys kept at a time
    TTL,       \* length of a window
    MaxTime    \* bound on the clock

\* What the constants must be.
LimiterAssumption ==
    /\ Limit \in Nat \ {0} /\ MaxKeys \in Nat \ {0} /\ TTL \in Nat \ {0} /\ MaxTime \in Nat

VARIABLES
    now,         \* the clock, from 1; 0 stands for the zero time
    attempts,    \* key -> [strikes, expiresAt], strikes = 0 when there is no entry
    nextExpiry,
    verdict,     \* history: the last answer of Allow, and the key
    passed       \* history: answers "allowed" since the key's entry was created

vars == <<now, attempts, nextExpiry, verdict, passed>>

NoEntry  == [strikes |-> 0, expiresAt |-> 0]
Live(m)  == {k \in Keys : m[k] # NoEntry}

Init ==
    /\ now = 1
    /\ attempts = [k \in Keys |-> NoEntry]
    /\ nextExpiry = 0
    /\ verdict = [key |-> "none", answer |-> "none"]
    /\ passed = [k \in Keys |-> 0]

\* evictExpiredLocked: the map and the bound after the sweep, if one is due.
SweepDue == nextExpiry # 0 /\ nextExpiry <= now

Swept ==
    IF SweepDue
    THEN [k \in Keys |-> IF attempts[k].expiresAt <= now THEN NoEntry ELSE attempts[k]]
    ELSE attempts

SweptExpiry ==
    IF ~SweepDue THEN nextExpiry
    ELSE IF Live(Swept) = {} THEN 0
    ELSE Min({Swept[k].expiresAt : k \in Live(Swept)})

Forget(m) == [k \in Keys |-> IF m[k] = NoEntry THEN 0 ELSE passed[k]]

Answer(k, a) == verdict' = [key |-> k, answer |-> a]

\* The charge of an admitted attempt.
Charge(k) ==
    LET entry == IF Swept[k] = NoEntry THEN [strikes |-> 1, expiresAt |-> now + TTL]
                 ELSE [Swept[k] EXCEPT !.strikes = @ + 1]
    IN  /\ attempts' = [Swept EXCEPT ![k] = entry]
        /\ nextExpiry' = IF Swept[k] = NoEntry /\ (SweptExpiry = 0 \/ entry.expiresAt < SweptExpiry)
                         THEN entry.expiresAt ELSE SweptExpiry

Keep == attempts' = Swept /\ nextExpiry' = SweptExpiry

\* Mutant: a full map makes room by evicting some other key.
AllowEvicts(k) ==
    /\ UNCHANGED now
    /\ \/ /\ Swept[k].strikes >= Limit
          /\ Keep /\ Answer(k, "locked") /\ passed' = Forget(Swept)
       \/ /\ Swept[k].strikes < Limit
          /\ IF Swept[k] = NoEntry /\ Cardinality(Live(Swept)) >= MaxKeys
             THEN \E v \in Live(Swept) :
                    /\ attempts' = [Swept EXCEPT ![v] = NoEntry, ![k] = [strikes |-> 1, expiresAt |-> now + TTL]]
                    /\ nextExpiry' = SweptExpiry
             ELSE Charge(k)
          /\ Answer(k, "allowed")
          /\ passed' = [Forget(attempts') EXCEPT ![k] = Forget(Swept)[k] + 1]

\* Allow: saturation first, then the lock, then the charge.
Allow(k) ==
    /\ UNCHANGED now
    /\ \/ /\ Swept[k] = NoEntry /\ Cardinality(Live(Swept)) >= MaxKeys
          /\ Keep /\ Answer(k, "saturated") /\ passed' = Forget(Swept)
       \/ /\ Swept[k].strikes >= Limit
          /\ Keep /\ Answer(k, "locked") /\ passed' = Forget(Swept)
       \/ /\ Swept[k] = NoEntry => Cardinality(Live(Swept)) < MaxKeys
          /\ Swept[k].strikes < Limit
          /\ Charge(k)
          /\ Answer(k, "allowed")
          /\ passed' = [Forget(Swept) EXCEPT ![k] = @ + 1]

\* Reset leaves nextExpiry alone: it stays a lower bound.
Reset(k) ==
    /\ attempts[k] # NoEntry
    /\ attempts' = [attempts EXCEPT ![k] = NoEntry]
    /\ passed' = [passed EXCEPT ![k] = 0]
    /\ verdict' = [key |-> k, answer |-> "reset"]
    /\ UNCHANGED <<now, nextExpiry>>

\* Count sweeps too, and answers the strikes that are left.
Count(k) ==
    /\ Keep
    /\ passed' = Forget(Swept)
    /\ verdict' = [key |-> k, answer |-> "count"]
    /\ UNCHANGED now

Clock == now < MaxTime /\ now' = now + 1 /\ UNCHANGED <<attempts, nextExpiry, verdict, passed>>

Next == (\E k \in Keys : Allow(k) \/ Reset(k) \/ Count(k)) \/ Clock

Spec == Init /\ [][Next]_vars

TypeOK ==
    /\ now \in Nat \ {0}
    /\ attempts \in [Keys -> [strikes : Nat, expiresAt : Nat]]
    /\ nextExpiry \in Nat
    /\ passed \in [Keys -> Nat]

-----------------------------------------------------------------------------
\* The sweep is never late: whenever the map holds an entry, nextExpiry is
\* set and no later than any entry's expiry (the comment on nextExpiry, which
\* Reset and Allow maintain without looking at the other entries).
SweepBound ==
    \A k \in Keys : attempts[k] # NoEntry => nextExpiry # 0 /\ nextExpiry <= attempts[k].expiresAt

\* A lock is the key's own: a key is refused only inside its own open window,
\* and while the window lasts a flood of other keys never gives a locked key
\* its budget back; only its own Reset does (Allow after evictExpiredLocked,
\* and its comment on failing closed).
LocksAreTheKeysOwn ==
    [][\A k \in Keys :
          /\ verdict' = [key |-> k, answer |-> "locked"] /\ now' = now => attempts'[k].expiresAt > now
          /\ attempts[k].strikes >= Limit /\ attempts[k].expiresAt > now
               => attempts'[k] = attempts[k] \/ verdict' = [key |-> k, answer |-> "reset"]]_vars

\* No key is admitted more than Limit times in one window.
BudgetHolds == \A k \in Keys : passed[k] <= Limit
=============================================================================
