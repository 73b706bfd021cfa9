----------------------------- MODULE MCRemoteCache -----------------------------
(***************************************************************************)
(* Three loads of RemoteCache, one chosen in the initial state:            *)
(*   full      two keys in a cache and a load gate of one, with a fault    *)
(*             (the cfg's constants);                                      *)
(*   rotating  one key whose upstream rotates, and chooses the lifetime;   *)
(*   hangup    callers of one flight, one of which hangs up, with a fault  *)
(*             and under fairness.                                         *)
(***************************************************************************)
EXTENDS RemoteCache

CONSTANT k1

VARIABLE load

Rotating == INSTANCE RemoteCache WITH
    Keys <- {k1}, Advertised <- {0, 3}, MaxInflight <- 2,
    MaxTime <- 3, MaxRotations <- 1, MaxFaults <- 0

Hangup == INSTANCE RemoteCache WITH
    Keys <- {k1}, MaxInflight <- 2, MaxTime <- 1, MaxCancels <- 1

LoadsInit ==
    \/ load = "full" /\ Init
    \/ load = "rotating" /\ Rotating!Init
    \/ load = "hangup" /\ Hangup!Init

LoadsNext ==
    /\ UNCHANGED load
    /\ \/ load = "full" /\ Next
       \/ load = "rotating" /\ Rotating!Next
       \/ load = "hangup" /\ Hangup!Next

allVars == <<vars, load>>

\* A started flight and a started call keep running.
LoadsFairness ==
    /\ \A kind \in Kinds : WF_allVars(load = "hangup" /\ Hangup!FlightStep(k1, kind) /\ UNCHANGED load)
    /\ \A c \in Callers :
         WF_allVars(load = "hangup" /\ (Hangup!TryForced(c) \/ Hangup!Join(c) \/ Hangup!ClearForced(c)) /\ UNCHANGED load)

LoadsSpec == LoadsInit /\ [][LoadsNext]_allVars /\ LoadsFairness

-----------------------------------------------------------------------------
(* Properties; RemoteCache says what each is about. *)

\* Recency list, map, markers and load slots agree, at the cache's limit and
\* at the gate's (put, LoadGate.Acquire).
FullBooksBalance == load = "full" => BooksBalance

\* A rotation is followed without extra loads: no answer is a version replaced
\* a TTL and a fetch ago (putPositive), and no load goes out for a key that
\* stayed fresh (LoadTTL's re-check).
RotationIsFollowed == load = "rotating" => Rotating!AnswersAreRecent /\ Rotating!LoadsAreNeeded

\* A caller that keeps waiting is answered, whoever else of its flight hangs
\* up (await, detach).
WaitersAnswered ==
    \A c \in Callers : (load = "hangup" /\ callers[c].at = "waiting") ~> callers[c].at # "waiting"
=============================================================================
