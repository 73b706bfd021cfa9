-------------------------- MODULE RemoteCache --------------------------
(***************************************************************************)
(* The bounded cache of remote documents (internal/remotecache) as the JWKS *)
(* fetcher drives it (internal/rpjwks/fetcher.go): Fetch loads through one  *)
(* single flight, FetchFresh forces a refresh through another, and both     *)
(* store what they read when their flight lands.  A document is its version *)
(* number; the remote side rotates it.  Parsing, ETags and the HTTP gates   *)
(* are abstracted: a read returns the current version or fails.             *)
(***************************************************************************)
EXTENDS Integers, FiniteSets, SequencesExt

CONSTANTS Keys,           \* jwks_uri values
          Callers,        \* requests that need a key set
          TTL,            \* Config.TTL
          NegativeTTL,    \* Config.NegativeTTL
          ForcedInterval, \* ForcedRefreshInterval
          Advertised,     \* lifetimes an upstream may advertise; 0 is none
          MaxEntries,     \* Config.MaxEntries
          MaxInflight,    \* the load gate's limit
          FetchTimeout,   \* the fetcher's own deadline
          MaxTime, MaxRotations, MaxFaults, MaxCancels   \* bounds

VARIABLES cache,     \* the fetcher's cache: map and recency order
          forced,    \* the cache of forced-refresh markers
          flights,   \* the two single flights of each key
          callers,   \* where each caller is
          inflight,  \* load slots taken
          remote,    \* the version each upstream serves
          until,     \* when each earlier version was replaced
          now,
          faults, cancels,
          needed,    \* history: not fresh at some time since a load last landed
          oldest,    \* history: how long ago the most outdated answer was replaced
          clobbered  \* history: a failed refresh replaced a usable value

vars == <<cache, forced, flights, callers, inflight, remote, until, now,
          faults, cancels, needed, oldest, clobbered>>

None == [expiry |-> -1, value |-> -1, negative |-> FALSE]
NoFlight == [stage |-> "none", stale |-> -1, got |-> -1, ttl |-> 0, age |-> 0]
Idle == [at |-> "idle"]
Kinds == {"load", "refresh"}
Versions == 0 .. MaxRotations
EmptyFor(keys) == [map |-> [k \in keys |-> None], order |-> <<>>]

CacheOK(C) ==
  /\ \A k \in Keys : C.map[k].expiry \in -1 .. MaxTime + TTL + ForcedInterval
  /\ \A k \in Keys : C.map[k].value \in Versions \union {-1}
  /\ Len(C.order) <= MaxEntries

TypeOK ==
  /\ CacheOK(cache) /\ CacheOK(forced)
  /\ \A f \in Keys \X Kinds :
       /\ flights[f].stage \in {"none", "begin", "missed", "ready", "fetch", "read", "failed"}
       /\ flights[f].stale \in Versions \union {-1}
       /\ flights[f].got \in Versions \union {-1}
       /\ flights[f].age \in 0 .. FetchTimeout
  /\ \A c \in Callers :
       callers[c].at \in {"idle", "probed", "join", "waiting", "overloaded"}
  /\ inflight \in 0 .. MaxInflight
  /\ now \in 0 .. MaxTime

Init ==
  /\ cache = EmptyFor(Keys) /\ forced = EmptyFor(Keys)
  /\ flights = [f \in Keys \X Kinds |-> NoFlight]
  /\ callers = [c \in Callers |-> Idle]
  /\ inflight = 0
  /\ remote = [k \in Keys |-> 0]
  /\ until = [k \in Keys |-> [v \in 0 .. MaxRotations |-> 0]]
  /\ now = 0 /\ faults = 0 /\ cancels = 0
  /\ needed = [k \in Keys |-> TRUE]
  /\ oldest = 0
  /\ clobbered = FALSE

-----------------------------------------------------------------------------
\* Operations on one cache, each under its mutex.
FreshIn(C, k) == now < C.map[k].expiry
Without(order, k) == SelectSeq(order, LAMBDA j : j # k)
TouchIn(C, k) == [C EXCEPT !.order = <<k>> \o Without(@, k)]
DropIn(C, k) == [map |-> [C.map EXCEPT ![k] = None], order |-> Without(C.order, k)]

\* Expired entries and the old one go, the least recent ones make room.
PutIn(C, k, e) ==
  LET live == SelectSeq(C.order, LAMBDA j : j # k /\ FreshIn(C, j))
      kept == SubSeq(live, 1, IF Len(live) < MaxEntries THEN Len(live) ELSE MaxEntries - 1)
  IN  [map |-> [j \in Keys |-> IF j = k THEN e
                               ELSE IF j \in ToSet(kept) THEN C.map[j] ELSE None],
       order |-> <<k>> \o kept]

\* Mutant: an upstream may extend its own life in the cache.
PositiveUnclamped(v, ttl) ==
  [expiry |-> now + (IF ttl = 0 THEN TTL ELSE ttl), value |-> v, negative |-> FALSE]

\* An advertised lifetime can only shorten the configured one.
Positive(v, ttl) ==
  [expiry |-> now + (IF ttl = 0 \/ ttl > TTL THEN TTL ELSE ttl),
   value |-> v, negative |-> FALSE]

Negative(stale) ==
  [expiry |-> now + NegativeTTL, value |-> stale, negative |-> TRUE]

-----------------------------------------------------------------------------
\* How long ago version v of key k was replaced.
Outdated(k, v) == IF v = remote[k] THEN 0 ELSE now - until[k][v]

Served(k, v) ==
  oldest' = IF v >= 0 /\ Outdated(k, v) > oldest THEN Outdated(k, v) ELSE oldest

\* A load is needed again once its key was seen not fresh; a load that lands
\* a fresh entry for key k is what makes it unneeded.
Needs(landed) ==
  needed' = [k \in Keys |-> now' >= cache'.map[k].expiry \/ (needed[k] /\ k \notin landed)]

Faulty ==
  /\ faults < MaxFaults
  /\ faults' = faults + 1

Waiting(k, kind) ==
  {c \in Callers : callers[c].at = "waiting" /\ callers[c].key = k /\ callers[c].kind = kind}

\* A flight ends: everyone collapsed onto it gets its result.
Answer(k, kind, to) ==
  /\ flights' = [flights EXCEPT ![<<k, kind>>] = NoFlight]
  /\ callers' = [c \in Callers |-> IF c \in Waiting(k, kind) THEN to ELSE callers[c]]

Advance(k, kind, to) == flights' = [flights EXCEPT ![<<k, kind>>] = to]

-----------------------------------------------------------------------------
\* Fetch: the first probe answers from a fresh entry, positive or negative.
Fetch(c, k) ==
  /\ callers[c].at = "idle"
  /\ \/ /\ FreshIn(cache, k)
        /\ cache' = TouchIn(cache, k)
        /\ Served(k, IF cache.map[k].negative THEN -1 ELSE cache.map[k].value)
        /\ UNCHANGED callers
     \/ /\ ~FreshIn(cache, k)
        /\ callers' = [callers EXCEPT ![c] = [at |-> "join", key |-> k, kind |-> "load"]]
        /\ UNCHANGED <<cache, oldest>>
  /\ UNCHANGED <<forced, flights, inflight, remote, until, now, faults,
                 cancels, needed, clobbered>>

\* FetchFresh: a fresh positive entry is protected by the throttle.
FetchFresh(c, k) ==
  /\ callers[c].at = "idle"
  /\ callers' = [callers EXCEPT ![c] =
       IF FreshIn(cache, k) /\ ~cache.map[k].negative
       THEN [at |-> "probed", key |-> k, value |-> cache.map[k].value]
       ELSE [at |-> "join", key |-> k, kind |-> "refresh"]]
  /\ UNCHANGED <<cache, forced, flights, inflight, remote, until, now,
                 faults, cancels, needed, oldest, clobbered>>

\* tryForced: a marker in force answers from the probe, else it is set.
TryForced(c) ==
  /\ callers[c].at = "probed"
  /\ LET k == callers[c].key IN
     \/ /\ FreshIn(forced, k)
        /\ forced' = TouchIn(forced, k)
        /\ Served(k, callers[c].value)
        /\ callers' = [callers EXCEPT ![c] = Idle]
     \/ /\ ~FreshIn(forced, k)
        /\ forced' = PutIn(DropIn(forced, k), k,
                       [expiry |-> now + ForcedInterval, value |-> -1, negative |-> FALSE])
        /\ callers' = [callers EXCEPT ![c] = [at |-> "join", key |-> k, kind |-> "refresh"]]
        /\ UNCHANGED oldest
  /\ UNCHANGED <<cache, flights, inflight, remote, until, now, faults,
                 cancels, needed, clobbered>>

\* DoChan: start the flight, or wait on the one in progress.
Join(c) ==
  /\ callers[c].at = "join"
  /\ callers' = [callers EXCEPT ![c].at = "waiting"]
  /\ LET f == <<callers[c].key, callers[c].kind>> IN
     flights' = IF flights[f].stage = "none"
                THEN [flights EXCEPT ![f].stage = "begin"] ELSE flights
  /\ UNCHANGED <<cache, forced, inflight, remote, until, now, faults,
                 cancels, needed, oldest, clobbered>>

\* Mutant: the loader runs under the context of a caller that hangs up.
GiveUpStops(c) ==
  /\ callers[c].at = "waiting"
  /\ cancels < MaxCancels
  /\ cancels' = cancels + 1
  /\ callers' = [callers EXCEPT ![c] = Idle]
  /\ flights' = [flights EXCEPT ![<<callers[c].key, callers[c].kind>>] = NoFlight]
  /\ inflight' = IF flights[<<callers[c].key, callers[c].kind>>].stage = "fetch"
                 THEN inflight - 1 ELSE inflight
  /\ UNCHANGED <<cache, forced, remote, until, now, faults, needed, oldest, clobbered>>

\* await: a caller whose context ends abandons only its own wait.
GiveUp(c) ==
  /\ callers[c].at = "waiting"
  /\ cancels < MaxCancels
  /\ cancels' = cancels + 1
  /\ callers' = [callers EXCEPT ![c] = Idle]
  /\ UNCHANGED <<cache, forced, flights, inflight, remote, until, now,
                 faults, needed, oldest, clobbered>>

\* clearForced: a refresh refused for capacity gives its marker back.
ClearForced(c) ==
  /\ callers[c].at = "overloaded"
  /\ forced' = DropIn(forced, callers[c].key)
  /\ callers' = [callers EXCEPT ![c] = Idle]
  /\ UNCHANGED <<cache, flights, inflight, remote, until, now, faults,
                 cancels, needed, oldest, clobbered>>

-----------------------------------------------------------------------------
\* The load flight looks again before it loads.
Recheck(k) ==
  /\ flights[<<k, "load">>].stage = "begin"
  /\ \/ /\ FreshIn(cache, k)
        /\ cache' = TouchIn(cache, k)
        /\ Served(k, IF cache.map[k].negative THEN -1 ELSE cache.map[k].value)
        /\ Answer(k, "load", Idle)
     \/ /\ ~FreshIn(cache, k)
        /\ Advance(k, "load", [flights[<<k, "load">>] EXCEPT !.stage = "missed"])
        /\ UNCHANGED <<cache, callers, oldest>>
  /\ UNCHANGED <<forced, inflight, remote, until, now, faults, cancels,
                 needed, clobbered>>

\* removeExpired: the expired entry goes, its value is kept for the loader.
TakeStale(k) ==
  /\ flights[<<k, "load">>].stage = "missed"
  /\ LET gone == ~FreshIn(cache, k) IN
     /\ cache' = IF gone THEN DropIn(cache, k) ELSE cache
     /\ Advance(k, "load", [NoFlight EXCEPT !.stage = "ready",
                              !.stale = IF gone THEN cache.map[k].value ELSE -1])
  /\ UNCHANGED <<callers, forced, inflight, remote, until, now, faults,
                 cancels, oldest, clobbered>>
  /\ Needs({})

\* peek: the refresh flight reads what is stored and removes nothing.
Peek(k) ==
  /\ flights[<<k, "refresh">>].stage = "begin"
  /\ Advance(k, "refresh", [NoFlight EXCEPT !.stage = "ready",
                              !.stale = cache.map[k].value])
  /\ UNCHANGED <<cache, callers, forced, inflight, remote, until, now,
                 faults, cancels, needed, oldest, clobbered>>

\* The load gate never blocks.  A refusal, here or at the ceiling other
\* resolvers share, is not cached.
Acquire(k, kind) ==
  /\ flights[<<k, kind>>].stage = "ready"
  /\ \/ /\ inflight < MaxInflight
        /\ inflight' = inflight + 1
        /\ Advance(k, kind, [flights[<<k, kind>>] EXCEPT !.stage = "fetch"])
        /\ UNCHANGED <<callers, faults>>
     \/ /\ \/ inflight = MaxInflight /\ UNCHANGED faults
           \/ Faulty
        /\ Answer(k, kind, IF kind = "refresh" THEN [at |-> "overloaded", key |-> k] ELSE Idle)
        /\ UNCHANGED inflight
  /\ UNCHANGED <<cache, forced, remote, until, now, cancels, needed,
                 oldest, clobbered>>

\* The response is read and the slot returned; nothing is stored yet.
Read(k, kind) ==
  /\ flights[<<k, kind>>].stage = "fetch"
  /\ inflight' = inflight - 1
  /\ \/ /\ \E ttl \in Advertised :
             Advance(k, kind, [flights[<<k, kind>>] EXCEPT
                                 !.stage = "read", !.got = remote[k], !.ttl = ttl])
        /\ UNCHANGED faults
     \/ /\ Faulty
        /\ Advance(k, kind, [flights[<<k, kind>>] EXCEPT !.stage = "failed"])
  /\ UNCHANGED <<cache, callers, forced, remote, until, now, cancels, needed,
                 oldest, clobbered>>

\* Mutant: the slot of a fetch that ran out of time is kept.
TimeOutKeepsSlot(k, kind) ==
  /\ flights[<<k, kind>>].stage = "fetch"
  /\ flights[<<k, kind>>].age = FetchTimeout
  /\ Answer(k, kind, Idle)
  /\ UNCHANGED <<cache, forced, inflight, remote, until, now, faults, cancels,
                 needed, oldest, clobbered>>

\* The fetcher's deadline: an error that is never cached.
TimeOut(k, kind) ==
  /\ flights[<<k, kind>>].stage = "fetch"
  /\ flights[<<k, kind>>].age = FetchTimeout
  /\ inflight' = inflight - 1
  /\ Answer(k, kind, Idle)
  /\ UNCHANGED <<cache, forced, remote, until, now, faults, cancels,
                 needed, oldest, clobbered>>

\* The flight stores what it read and answers.
LandValue(k, kind) ==
  /\ flights[<<k, kind>>].stage = "read"
  /\ LET f == flights[<<k, kind>>] IN
     /\ cache' = PutIn(cache, k, Positive(f.got, f.ttl))
     /\ Served(k, IF Waiting(k, kind) = {} THEN -1 ELSE f.got)
  /\ Answer(k, kind, Idle)
  /\ UNCHANGED <<forced, inflight, remote, until, now, faults, cancels, clobbered>>
  /\ Needs(IF kind = "load" THEN {k} ELSE {})

\* A failed load stores the failure and keeps the stale value behind it; a
\* failed refresh does so only if its peek found no value.
LandFailure(k, kind) ==
  /\ flights[<<k, kind>>].stage = "failed"
  /\ LET stale == flights[<<k, kind>>].stale
         puts == kind = "load" \/ stale = -1
     IN  /\ cache' = IF puts THEN PutIn(cache, k, Negative(stale)) ELSE cache
         /\ clobbered' = (clobbered \/ (puts /\ kind = "refresh" /\ cache.map[k].value >= 0))
  /\ Answer(k, kind, Idle)
  /\ UNCHANGED <<forced, inflight, remote, until, now, faults, cancels, oldest>>
  /\ Needs(IF kind = "load" THEN {k} ELSE {})

-----------------------------------------------------------------------------
\* The remote side publishes its next version.
Rotate(k) ==
  /\ remote[k] < MaxRotations
  /\ remote' = [remote EXCEPT ![k] = @ + 1]
  /\ until' = [until EXCEPT ![k][remote[k]] = now]
  /\ UNCHANGED <<cache, forced, flights, callers, inflight, now, faults,
                 cancels, needed, oldest, clobbered>>

Fetching == {f \in Keys \X Kinds : flights[f].stage \in {"fetch", "read", "failed"}}

\* A flight ends within the fetcher's deadline; code between two blocking
\* calls takes no time.
Tick ==
  /\ now < MaxTime
  /\ \A f \in Fetching : flights[f].age < FetchTimeout
  /\ \A c \in Callers : callers[c].at # "probed"
  /\ now' = now + 1
  /\ flights' = [f \in Keys \X Kinds |->
                   IF f \in Fetching THEN [flights[f] EXCEPT !.age = @ + 1] ELSE flights[f]]
  /\ UNCHANGED <<cache, forced, callers, inflight, remote, until, faults,
                 cancels, oldest, clobbered>>
  /\ Needs({})

FlightStep(k, kind) ==
  \/ kind = "load" /\ (Recheck(k) \/ TakeStale(k))
  \/ kind = "refresh" /\ Peek(k)
  \/ Acquire(k, kind)
  \/ Read(k, kind)
  \/ TimeOut(k, kind)
  \/ LandValue(k, kind)
  \/ LandFailure(k, kind)

Next ==
  \/ \E c \in Callers :
       \/ \E k \in Keys : Fetch(c, k) \/ FetchFresh(c, k)
       \/ TryForced(c) \/ Join(c) \/ GiveUp(c) \/ ClearForced(c)
  \/ \E k \in Keys, kind \in Kinds : FlightStep(k, kind)
  \/ \E k \in Keys : Rotate(k)
  \/ Tick

Spec == Init /\ [][Next]_vars

-----------------------------------------------------------------------------
\* No answer is a version replaced TTL plus one fetch ago or more, although
\* two flights of one key may land in either order, an older read may replace
\* a newer one, and the upstream chooses the lifetime (putPositive's clamp).
AnswersAreRecent == oldest < TTL + FetchTimeout

\* A load goes out only for a key that was not fresh at some moment since the
\* last load landed: callers that missed before that landing are answered
\* from it (the re-check in LoadTTL).
LoadsAreNeeded ==
  \A k \in Keys : flights[<<k, "load">>].stage \in {"ready", "fetch", "read", "failed"}
                    => needed[k]

\* The recency list names each entry once and never outgrows the cache, and
\* a load slot is taken exactly while a fetch is out (put, LoadGate.Acquire).
BooksBalance ==
  /\ \A C \in {cache, forced} :
       /\ IsInjective(C.order)
       /\ ToSet(C.order) = {k \in Keys : C.map[k] # None}
       /\ Len(C.order) <= MaxEntries
  /\ inflight = Cardinality({f \in Keys \X Kinds : flights[f].stage = "fetch"})

\* A failed refresh never takes away a value: "Only a key that holds no
\* usable value takes a negative entry" (RefreshTTL); false when a load lands
\* between the refresh's peek and its failure.
RefreshKeepsValue == ~clobbered
=============================================================================
