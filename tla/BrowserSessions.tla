---------------------------- MODULE BrowserSessions ----------------------------
(***************************************************************************)
(* The session rows of one browser and RP-initiated logout.  A session id  *)
(* is "entry" or "sibling", the accounts signed in when the model starts,  *)
(* or the authorization attempt whose stable id it is.  A row carries the  *)
(* number of touches it has seen for its timestamps.  The browser sends    *)
(* one cookie, which names the current session.                            *)
(***************************************************************************)
EXTENDS Integers, FiniteSets

CONSTANTS
    Attempts,     \* authorization attempts
    Logouts,      \* end_session requests
    MaxTouches,   \* distinct times a row can be touched at
    MaxLapses,    \* bound on rows that expire
    MaxFaults     \* bound on failing store calls and abandoned requests

VARIABLES
    sessions,   \* session id -> row
    cookie,     \* the session the browser's cookie names, or None
    logouts,    \* the end_session requests
    lapses, faults,
    creations   \* history: session id -> times its row was created

sessionVars == <<sessions, cookie, logouts, lapses, faults, creations>>

None == "none"
Group == "g0"
Users == {"u1", "u2"}
SessionIds == DOMAIN sessions
NoRow == [live |-> FALSE, user |-> None, group |-> None, touched |-> 0]
Row(user, group) == [live |-> TRUE, user |-> user, group |-> group, touched |-> 0]

IdleLogout == [pc |-> "idle", cookie |-> None, group |-> None, left |-> {}, snap |-> {}, made |-> <<>>, failed |-> FALSE]

SessionsInit ==
    /\ sessions \in {[s \in {"entry", "sibling"} \union Attempts |->
                                           IF s \in signedIn THEN Row(IF s = "entry" THEN "u1" ELSE "u2", Group)
                                           ELSE NoRow] : signedIn \in {{}, {"entry"}, {"entry", "sibling"}}}
    /\ cookie = IF sessions["entry"].live THEN "entry" ELSE None
    /\ logouts = [l \in Logouts |-> IdleLogout]
    /\ lapses = 0 /\ faults = 0
    /\ creations = [s \in SessionIds |-> IF sessions[s].live THEN 1 ELSE 0]

-----------------------------------------------------------------------------
(* The store and the manager *)

Live(s) == s # None /\ sessions[s].live

\* Resolve: the session a cookie names, if it is live.
Resolved(c) == IF Live(c) THEN c ELSE None

\* Touch of a live row; touches past the bound carry the same time.
Touched(s) == [sessions EXCEPT ![s].touched = IF @ < MaxTouches THEN @ + 1 ELSE @]
Dropped(s) == [sessions EXCEPT ![s] = NoRow]
ListByChooserGroup(g) == {s \in SessionIds : sessions[s].live /\ sessions[s].group = g}

\* Save is an upsert.
SaveSession(s, row) ==
    /\ sessions' = [sessions EXCEPT ![s] = row]
    /\ creations' = [creations EXCEPT ![s] = IF sessions[s].live THEN @ ELSE @ + 1]

\* An idle or absolute lifetime ends.
Lapse(s) ==
    /\ lapses < MaxLapses /\ Live(s)
    /\ lapses' = lapses + 1
    /\ sessions' = Dropped(s)
    /\ UNCHANGED <<cookie, logouts, faults, creations>>

-----------------------------------------------------------------------------
(* end_session *)

SetLogout(l, q) == logouts' = [logouts EXCEPT ![l] = q]

\* readSessionLookup: a request of a browser without a live session has
\* nothing to end and clears the cookie.
LogoutLookup(l) ==
    /\ logouts[l].pc = "idle"
    /\ \/ /\ Resolved(cookie) = None
          /\ SetLogout(l, [IdleLogout EXCEPT !.pc = "answer"])
       \/ /\ Resolved(cookie) # None
          /\ \E scope \in {"all", "current"} :
                SetLogout(l, [IdleLogout EXCEPT !.pc = scope, !.cookie = cookie,
                                            !.group = sessions[cookie].group])
    /\ UNCHANGED <<sessions, cookie, lapses, faults, creations>>

\* SnapshotGroup; when it fails, the active row alone is deleted and the
\* logout is not reported as complete.
LogoutSnapshot(l) ==
    LET q == logouts[l]
        rows == ListByChooserGroup(q.group)
    IN
    /\ q.pc = "all"
    /\ \/ SetLogout(l, [q EXCEPT !.pc = "delete", !.left = rows, !.snap = rows, !.made = creations]) /\ UNCHANGED faults
       \/ /\ faults < MaxFaults /\ faults' = faults + 1
          /\ SetLogout(l, [q EXCEPT !.pc = "delete", !.left = {q.cookie}, !.failed = TRUE])
    /\ UNCHANGED <<sessions, cookie, lapses, creations>>

\* Mutant: a row that cannot be deleted is not reported.
LogoutDeleteSilent(l) ==
    /\ logouts[l].pc = "delete"
    /\ \E s \in logouts[l].left :
          /\ \/ sessions' = Dropped(s) /\ UNCHANGED faults
             \/ faults < MaxFaults /\ faults' = faults + 1 /\ UNCHANGED sessions
          /\ SetLogout(l, [logouts[l] EXCEPT !.left = @ \ {s}])
    /\ UNCHANGED <<cookie, lapses, creations>>

\* LogoutAllSnapshot: exactly the captured rows, one after the other; a row
\* that cannot be deleted does not keep the others.
LogoutDelete(l) ==
    /\ logouts[l].pc = "delete"
    /\ \E s \in logouts[l].left :
          \/ /\ sessions' = Dropped(s)
             /\ SetLogout(l, [logouts[l] EXCEPT !.left = @ \ {s}])
             /\ UNCHANGED faults
          \/ /\ faults < MaxFaults /\ faults' = faults + 1
             /\ SetLogout(l, [logouts[l] EXCEPT !.left = @ \ {s}, !.failed = TRUE])
             /\ UNCHANGED sessions
    /\ UNCHANGED <<cookie, lapses, creations>>

LogoutDeleted(l) ==
    /\ logouts[l].pc = "delete" /\ logouts[l].left = {}
    /\ SetLogout(l, [logouts[l] EXCEPT !.pc = "answer"])
    /\ UNCHANGED <<sessions, cookie, lapses, faults, creations>>

\* Remove of the current session, then the list of its siblings.
LogoutRemove(l) ==
    LET q == logouts[l] IN
    /\ q.pc = "current"
    /\ \/ /\ sessions' = Dropped(q.cookie)
          /\ SetLogout(l, [q EXCEPT !.pc = "rebind"])
          /\ UNCHANGED faults
       \/ /\ faults < MaxFaults /\ faults' = faults + 1
          /\ SetLogout(l, [q EXCEPT !.pc = "answer", !.failed = TRUE])
          /\ UNCHANGED sessions
    /\ UNCHANGED <<cookie, lapses, creations>>

\* The cookie goes to the most recently active sibling, here any of them.
LogoutRebind(l) ==
    LET rest == ListByChooserGroup(logouts[l].group) IN
    /\ logouts[l].pc = "rebind"
    /\ \/ rest = {} /\ cookie' = None
       \/ \E s \in rest : cookie' = s
    /\ SetLogout(l, IdleLogout)
    /\ UNCHANGED <<sessions, lapses, faults, creations>>

\* The cookie is cleared, unless a row may have survived.
LogoutAnswer(l) ==
    /\ logouts[l].pc = "answer"
    /\ cookie' = IF logouts[l].failed THEN cookie ELSE None
    /\ SetLogout(l, IdleLogout)
    /\ UNCHANGED <<sessions, lapses, faults, creations>>

LogoutStep(l) ==
    \/ LogoutSnapshot(l) \/ LogoutDelete(l) \/ LogoutDeleted(l)
    \/ LogoutRemove(l) \/ LogoutRebind(l) \/ LogoutAnswer(l)

SessionNext == (\E l \in Logouts : LogoutLookup(l) \/ LogoutStep(l)) \/ \E s \in SessionIds : Lapse(s)
=============================================================================
