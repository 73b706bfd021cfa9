----------------------------- MODULE Authorization -----------------------------
(***************************************************************************)
(* Authorization attempts of one browser: the interaction record and its   *)
(* compare-and-swap transitions, the completion intent that a concurrent   *)
(* or later request resumes, the transaction that mints the code, and the  *)
(* session the attempt leaves behind, next to silent mints and logout.     *)
(* An attempt's id stands for its interaction, its stable code and its     *)
(* stable session.  Sign-in itself is the outcome of a step, not modelled. *)
(***************************************************************************)
EXTENDS BrowserSessions, FiniteSetsExt

CONSTANTS
    Requests,            \* requests of the browser in flight
    Pars,                \* pushed authorization requests
    Chains,              \* how a ceremony may know its user, below
    Managing,            \* whether requests name a managed grant
    MaxCommitAttempts,
    MaxSteps             \* bound on the prompts of an attempt

VARIABLES
    attempts,   \* attempt -> its request, interaction record and intent
    codes,      \* attempt -> "none", "live", or "lapsed" until the row is swept
    parUsed,    \* consumed pushed requests
    managed,    \* whether the grant a managed attempt names still exists
    req,        \* the requests
    mints,      \* history: attempt -> codes minted
    sweeps,     \* history: attempt -> codes lapsed and swept
    audits,     \* history: attempt -> completion audits
    answers     \* history: attempt -> terminal answers given to the browser

vars == <<sessionVars, attempts, codes, parUsed, managed, req, mints, sweeps, audits, answers>>

\* How a ceremony knows its user: it runs factors, on their own, in addition
\* to the session the request came with or to the one the chooser picked, or to
\* add an account; or it runs none and stands on one of those sessions.
ASSUME ChainsAssumption == Chains \subseteq {"login", "stepUp", "entry", "pick", "pickLogin", "add"}
Fresh(chain) == chain \in {"login", "stepUp", "pickLogin", "add"}
Backed(chain) == chain \in {"stepUp", "entry", "pick"}
Picked(chain) == chain \in {"pick", "pickLogin"}

NoIntent == [mode |-> None, session |-> None, prev |-> None, row |-> NoRow]
NoAttempt == [st |-> "unused", chain |-> None, user |-> None, group |-> None, par |-> None, managed |-> FALSE,
              version |-> 0, intent |-> NoIntent]
IdleReq == [pc |-> "idle", a |-> None, cookie |-> None, snap |-> NoAttempt, row |-> NoRow, tries |-> 0]

Init ==
    /\ SessionsInit
    /\ attempts = [a \in Attempts |-> NoAttempt]
    /\ codes = [a \in Attempts |-> "none"]
    /\ parUsed = {} /\ managed = TRUE
    /\ req = [r \in Requests |-> IdleReq]
    /\ mints = [a \in Attempts |-> 0]
    /\ sweeps = [a \in Attempts |-> 0]
    /\ audits = [a \in Attempts |-> 0]
    /\ answers = [a \in Attempts |-> {}]

historyVars == <<mints, sweeps, audits, answers>>
storeVars == <<attempts, codes, parUsed, managed>>

Set(r, q) == req' = [req EXCEPT ![r] = q]
To(r, pc) == Set(r, [req[r] EXCEPT !.pc = pc])
Done(r) == Set(r, IdleReq)
Answer(r, what) ==
    /\ Done(r)
    /\ answers' = [answers EXCEPT ![req[r].a] = @ \union {what}]

Found(a) == attempts[a].st \in {"open", "intent"}
Unchanged(a, snap) == Found(a) /\ attempts[a].version = snap.version

-----------------------------------------------------------------------------
(* GET /authorize *)

\* resolvePARIfNeeded, resolveSession and the decision: the attempt becomes an
\* interaction, or is minted silently for the session it came with.
Authorize(r, a) ==
    LET active == Resolved(cookie)
        new == [NoAttempt EXCEPT !.group = IF active = None THEN None ELSE sessions[active].group]
    IN
    /\ req[r].pc = "idle" /\ attempts[a].st = "unused"
    /\ \E par \in (Pars \ parUsed) \union {None} :
          \/ /\ \E chain \in Chains, user \in Users, gm \in Managing :
                   /\ chain # "login" => active # None
                   /\ chain \in {"stepUp", "entry"} => user = sessions[active].user
                   /\ Picked(chain) => "sibling" \in ListByChooserGroup(new.group) /\ user = sessions["sibling"].user
                   /\ attempts' = [attempts EXCEPT ![a] = [new EXCEPT !.st = "open", !.chain = chain, !.user = user,
                                                               !.par = par, !.managed = gm]]
             /\ UNCHANGED req
          \/ /\ active # None
             /\ attempts' = [attempts EXCEPT ![a] = [new EXCEPT !.st = "silent", !.par = par]]
             /\ Set(r, [IdleReq EXCEPT !.pc = "silent", !.a = a, !.cookie = cookie])
    /\ sessions' = IF active = None THEN sessions ELSE Touched(active)
    /\ cookie' = active
    /\ UNCHANGED <<logouts, lapses, faults, creations, codes, parUsed, managed, historyVars>>

\* The transaction: grant, pushed request, code.
Spendable(a) == attempts[a].par \notin parUsed /\ (attempts[a].managed => managed)
Mints(a) == Spendable(a) /\ codes[a] = "none"
MintCode(a) ==
    /\ codes' = [codes EXCEPT ![a] = "live"]
    /\ parUsed' = parUsed \union ({attempts[a].par} \ {None})
    /\ mints' = [mints EXCEPT ![a] = @ + 1]

\* commitSilentAuthorization with the session resolved at the start.
SilentMint(r) ==
    LET a == req[r].a IN
    /\ req[r].pc = "silent"
    /\ \/ Mints(a) /\ MintCode(a) /\ Answer(r, "success")
       \/ ~Mints(a) /\ Answer(r, "denied") /\ UNCHANGED <<codes, parUsed, mints>>
    /\ UNCHANGED <<sessionVars, attempts, managed, sweeps, audits>>

-----------------------------------------------------------------------------
(* /interaction/{uid} *)

\* loadInteraction: an intent is resumed, otherwise the tick decides; a
\* DELETE cancels.
Load(r, a) ==
    LET q == [IdleReq EXCEPT !.a = a, !.cookie = cookie, !.snap = attempts[a]] IN
    /\ req[r].pc = "idle"
    /\ \/ attempts[a].st = "intent" /\ Set(r, [q EXCEPT !.pc = "refresh"])
       \/ attempts[a].st = "open" /\ attempts[a].version < MaxSteps /\ Set(r, [q EXCEPT !.pc = "prompt"])
       \/ attempts[a].st = "open" /\ \E pc \in {"terminal", "cancel"} : Set(r, [q EXCEPT !.pc = pc])
    /\ UNCHANGED <<sessionVars, storeVars, historyVars>>

\* A conditional write that lost: the record is gone, or it is read again.
Lost(r) ==
    /\ ~Unchanged(req[r].a, req[r].snap)
    /\ IF Found(req[r].a) THEN To(r, "reload") ELSE Done(r)
    /\ UNCHANGED <<attempts, answers>>

\* The winner's intent is resumed; anything else is a conflict or gone.
Reload(r) ==
    LET a == req[r].a IN
    /\ req[r].pc = "reload"
    /\ \/ attempts[a].st = "intent" /\ Set(r, [req[r] EXCEPT !.pc = "refresh", !.snap = attempts[a]])
       \/ attempts[a].st # "intent" /\ Done(r)
    /\ UNCHANGED <<sessionVars, storeVars, historyVars>>

\* persistAuthnState, after a prompt or a failed factor.
PersistStep(r) ==
    LET q == req[r] IN
    /\ q.pc = "prompt"
    /\ \/ /\ Unchanged(q.a, q.snap)
          /\ attempts' = [attempts EXCEPT ![q.a].version = @ + 1]
          /\ Done(r) /\ UNCHANGED answers
       \/ Lost(r)
    /\ UNCHANGED <<sessionVars, codes, parUsed, managed, mints, sweeps, audits>>

\* Mutant: the record is deleted whatever it has become.
ClaimAnyway(r, what) ==
    LET q == req[r] IN
    /\ \/ /\ Found(q.a)
          /\ attempts' = [attempts EXCEPT ![q.a].st = "gone"]
          /\ Answer(r, what)
       \/ ~Found(q.a) /\ Done(r) /\ UNCHANGED <<attempts, answers>>
    /\ UNCHANGED <<sessionVars, codes, parUsed, managed, mints, sweeps, audits>>

\* claimTerminalInteraction and the DELETE handler.
Claim(r, what) ==
    LET q == req[r] IN
    /\ \/ /\ Unchanged(q.a, q.snap)
          /\ attempts' = [attempts EXCEPT ![q.a].st = "gone"]
          /\ Answer(r, what)
       \/ Lost(r)
    /\ UNCHANGED <<sessionVars, codes, parUsed, managed, mints, sweeps, audits>>

Cancel(r) == req[r].pc = "cancel" /\ Claim(r, "aborted")
Refuse(r) == req[r].pc = "refuse" /\ Claim(r, "refused")

\* validateTerminalAuthorization: a chain that stands on a session needs it.
Terminal(r) ==
    LET q == req[r]
        b == IF Picked(q.snap.chain) THEN "sibling" ELSE q.cookie
        serves == Live(b) /\ sessions[b].user = q.snap.user
    IN
    /\ q.pc = "terminal"
    /\ To(r, IF Backed(q.snap.chain) => serves THEN "plan" ELSE "refuse")
    /\ UNCHANGED <<sessionVars, storeVars, historyVars>>

\* PlanEstablishment: reads only.
Plan(r) ==
    LET q == req[r]
        chain == q.snap.chain
        user == q.snap.user
        active == Resolved(q.cookie)
        same == active # None /\ sessions[active].user = user
        from(base, keep) ==
            IF Fresh(chain)
            THEN [mode |-> "rotate", session |-> q.a, prev |-> base, row |-> Row(user, sessions[base].group)]
            ELSE [mode |-> keep, session |-> base, prev |-> None, row |-> sessions[base]]
        created(mode, group) == [mode |-> mode, session |-> q.a, prev |-> None, row |-> Row(user, group)]
        planned(intent) == Set(r, [q EXCEPT !.pc = "intent", !.snap.intent = intent])
    IN
    /\ q.pc = "plan"
    /\ \/ same /\ planned(from(active, "reuse"))
       \/ ~same /\ Picked(chain) /\ Live("sibling") /\ planned(from("sibling", "switch"))
       \/ ~same /\ Picked(chain) /\ ~Live("sibling") /\ Done(r)
       \/ ~same /\ chain = "add" /\ planned(created("add_account", q.snap.group))
       \/ ~same /\ ~Picked(chain) /\ chain # "add" /\ planned(created("issue", q.a))
    /\ UNCHANGED <<sessionVars, storeVars, historyVars>>

\* persistCompletionIntent: the winner's intent is the attempt's.
PersistIntent(r) ==
    LET q == req[r]
        won == [attempts[q.a] EXCEPT !.st = "intent", !.version = @ + 1, !.intent = q.snap.intent]
    IN
    /\ q.pc = "intent"
    /\ \/ /\ Unchanged(q.a, q.snap)
          /\ attempts' = [attempts EXCEPT ![q.a] = won]
          /\ Set(r, [q EXCEPT !.pc = "refresh", !.snap = won])
          /\ UNCHANGED answers
       \/ Lost(r)
    /\ UNCHANGED <<sessionVars, codes, parUsed, managed, mints, sweeps, audits>>

-----------------------------------------------------------------------------
(* resumeInteractionCompletion *)

\* refreshCompletionSession: reuse touches the session of the request's own
\* cookie, switch the selected one; a request without a cookie goes on.
Refresh(r) ==
    LET q == req[r]
        i == q.snap.intent
        s == CASE i.mode = "reuse" -> q.cookie [] i.mode = "switch" -> i.session [] OTHER -> None
    IN
    /\ q.pc = "refresh"
    /\ \/ /\ s = None
          /\ Set(r, [q EXCEPT !.pc = "find", !.row = i.row])
          /\ UNCHANGED <<sessions, answers>>
       \/ /\ Live(s)
          /\ sessions' = Touched(s)
          /\ Set(r, [q EXCEPT !.pc = "find", !.row = Touched(s)[s]])
          /\ UNCHANGED answers
       \/ /\ s # None /\ ~Live(s)
          /\ Answer(r, "sessionGone") /\ UNCHANGED sessions
    /\ UNCHANGED <<cookie, logouts, lapses, faults, creations, storeVars, mints, sweeps, audits>>

FindCode(r) ==
    /\ req[r].pc = "find"
    /\ To(r, IF codes[req[r].a] = "live" THEN "establish" ELSE "tx")
    /\ UNCHANGED <<sessionVars, storeVars, historyVars>>

\* Mutant: the pushed request is not consumed with the code.
TransactUnspent(r) ==
    LET q == req[r] IN
    /\ q.pc = "tx"
    /\ IF codes[q.a] = "none" THEN MintCode(q.a) ELSE UNCHANGED <<codes, parUsed, mints>>
    /\ To(r, IF codes[q.a] = "lapsed" THEN "deny" ELSE "establish")
    /\ UNCHANGED <<sessionVars, attempts, managed, sweeps, audits, answers>>

\* attemptDurableCompletion: one transaction.  A conflicting commit is tried
\* again; after any other failure the code of another request serves, a spent
\* pushed request or a lost grant is denied, and an expired code in the way is
\* an error.
Transact(r) ==
    LET q == req[r] IN
    /\ q.pc = "tx"
    /\ \/ Mints(q.a) /\ MintCode(q.a) /\ To(r, "establish") /\ UNCHANGED faults
       \/ /\ Mints(q.a) /\ faults < MaxFaults /\ faults' = faults + 1
          /\ IF q.tries + 1 < MaxCommitAttempts THEN Set(r, [q EXCEPT !.pc = "find", !.tries = @ + 1]) ELSE Done(r)
          /\ UNCHANGED <<codes, parUsed, mints>>
       \/ /\ ~Mints(q.a)
          /\ CASE codes[q.a] = "live" -> To(r, "establish")
               [] codes[q.a] # "live" /\ Spendable(q.a) -> Done(r)
               [] OTHER -> To(r, "deny")
          /\ UNCHANGED <<codes, parUsed, mints, faults>>
    /\ UNCHANGED <<sessions, cookie, logouts, lapses, creations, attempts, managed, sweeps, audits, answers>>

\* The pushed request is spent or the managed grant gone: the anchor goes too.
Deny(r) ==
    LET q == req[r] IN
    /\ q.pc = "deny"
    /\ attempts' = IF Unchanged(q.a, q.snap) THEN [attempts EXCEPT ![q.a].st = "gone"] ELSE attempts
    /\ Answer(r, "denied")
    /\ UNCHANGED <<sessionVars, codes, parUsed, managed, mints, sweeps, audits>>

\* Establish: reuse has nothing to write; otherwise the stable row is looked up.
Establish(r) ==
    LET q == req[r]
        i == q.snap.intent
        found == Live(i.session)
        exact == found /\ sessions[i.session] = q.row
    IN
    /\ q.pc = "establish"
    /\ \/ i.mode = "reuse" /\ To(r, "anchor")
       \/ i.mode # "reuse" /\ exact /\ To(r, IF i.mode = "rotate" THEN "dropPrevious" ELSE "anchor")
       \/ i.mode \in {"issue", "rotate", "add_account"} /\ ~found /\ To(r, "save")
       \/ i.mode # "reuse" /\ ~exact /\ (found \/ i.mode = "switch") /\ Done(r)
    /\ UNCHANGED <<sessionVars, storeVars, historyVars>>

\* Mutant: the previous session is dropped before its replacement is saved.
SaveStableAfter(r) ==
    LET i == req[r].snap.intent IN
    /\ req[r].pc = "save"
    /\ IF i.mode = "rotate" /\ Live(i.prev)
       THEN sessions' = Dropped(i.prev) /\ UNCHANGED <<creations, req>>
       ELSE SaveSession(i.session, i.row) /\ To(r, "anchor")
    /\ UNCHANGED <<cookie, logouts, lapses, faults, storeVars, historyVars>>

SaveStable(r) ==
    LET i == req[r].snap.intent IN
    /\ req[r].pc = "save"
    /\ SaveSession(i.session, i.row)
    /\ To(r, IF i.mode = "rotate" THEN "dropPrevious" ELSE "anchor")
    /\ UNCHANGED <<cookie, logouts, lapses, faults, storeVars, historyVars>>

DropPrevious(r) ==
    /\ req[r].pc = "dropPrevious"
    /\ sessions' = Dropped(req[r].snap.intent.prev)
    /\ To(r, "anchor")
    /\ UNCHANGED <<cookie, logouts, lapses, faults, creations, storeVars, historyVars>>

\* deleteCompletionAnchor: who deletes it audits; everyone answers the code.
Finish(r) ==
    LET q == req[r] IN
    /\ q.pc = "anchor"
    /\ \/ /\ Unchanged(q.a, q.snap)
          /\ attempts' = [attempts EXCEPT ![q.a].st = "gone"]
          /\ audits' = [audits EXCEPT ![q.a] = @ + 1]
       \/ ~Unchanged(q.a, q.snap) /\ UNCHANGED <<attempts, audits>>
    /\ cookie' = IF q.snap.intent.mode = "reuse" THEN cookie ELSE q.snap.intent.session
    /\ Answer(r, "success")
    /\ UNCHANGED <<sessions, logouts, lapses, faults, creations, codes, parUsed, managed, mints, sweeps>>

-----------------------------------------------------------------------------
(* The environment *)

\* A store call fails or the client goes away: the request ends unanswered.
Abandon(r) ==
    /\ req[r].pc # "idle" /\ faults < MaxFaults
    /\ faults' = faults + 1 /\ Done(r)
    /\ UNCHANGED <<sessions, cookie, logouts, lapses, creations, storeVars, historyVars>>

\* A code or an interaction outlives its lifetime; a later save sweeps the
\* code's row.
CodeLapse(a) ==
    /\ codes[a] = "live" /\ lapses < MaxLapses /\ lapses' = lapses + 1
    /\ codes' = [codes EXCEPT ![a] = "lapsed"]
    /\ UNCHANGED <<sessions, cookie, logouts, faults, creations, attempts, parUsed, managed, req, historyVars>>

CodeSweep(a) ==
    /\ codes[a] = "lapsed"
    /\ codes' = [codes EXCEPT ![a] = "none"]
    /\ sweeps' = [sweeps EXCEPT ![a] = @ + 1]
    /\ UNCHANGED <<sessionVars, attempts, parUsed, managed, req, mints, audits, answers>>

InteractionLapse(a) ==
    /\ Found(a) /\ lapses < MaxLapses /\ lapses' = lapses + 1
    /\ attempts' = [attempts EXCEPT ![a].st = "lapsed"]
    /\ UNCHANGED <<sessions, cookie, logouts, faults, creations, codes, parUsed, managed, req, historyVars>>

\* The grant a managed attempt names is revoked through grant management.
RevokeManaged ==
    /\ TRUE \in Managing /\ managed /\ managed' = FALSE
    /\ UNCHANGED <<sessionVars, attempts, codes, parUsed, req, historyVars>>

RequestStep(r) ==
    \/ SilentMint(r) \/ PersistStep(r) \/ Reload(r) \/ Cancel(r) \/ Refuse(r) \/ Terminal(r) \/ Plan(r) \/ PersistIntent(r)
    \/ Refresh(r) \/ FindCode(r) \/ Transact(r) \/ Deny(r) \/ Establish(r) \/ SaveStable(r) \/ DropPrevious(r)
    \/ Finish(r)

Next ==
    \/ \E r \in Requests, a \in Attempts : Authorize(r, a) \/ Load(r, a)
    \/ \E r \in Requests : RequestStep(r) \/ Abandon(r)
    \/ \E a \in Attempts : CodeLapse(a) \/ CodeSweep(a) \/ InteractionLapse(a)
    \/ RevokeManaged
    \/ SessionNext /\ UNCHANGED <<storeVars, req, historyVars>>

Spec == Init /\ [][Next]_vars

-----------------------------------------------------------------------------
(* What the endpoint promises *)

\* The variables hold what the handlers can put there.
TypeOK ==
    /\ \A s \in SessionIds : /\ sessions[s].user \in Users \union {None}
                             /\ sessions[s].group \in Attempts \union {Group, None}
                             /\ sessions[s].touched \in 0..MaxTouches
                             /\ sessions[s].live <=> sessions[s].user # None
    /\ cookie \in SessionIds \union {None}
    /\ \A a \in Attempts : attempts[a].version \in 0..(MaxSteps + 1) /\ codes[a] \in {"none", "live", "lapsed"}
    /\ \A r \in Requests : req[r].tries < MaxCommitAttempts /\ (req[r].pc = "idle" <=> req[r].a = None)

\* One pushed request yields one code, however many tabs opened it and
\* however often its completion is retried; and an attempt never holds a
\* second code while its first has not expired.
OneResult ==
    /\ \A p \in Pars : MapThenSumSet(LAMBDA a : mints[a], {a \in Attempts : attempts[a].par = p}) <= 1
    /\ \A a \in Attempts : mints[a] <= 1 + sweeps[a]

\* An attempt the browser was told is cancelled or refused never yields a
\* code, whatever request was completing it at the same time.
CancelledStaysCancelled ==
    \A a \in Attempts : answers[a] \cap {"aborted", "refused"} # {} => mints[a] = 0

\* The completion audit is written once, by whoever removes the anchor; an
\* attempt that was answered with its live code has its audit.
AuditedOnce ==
    \A a \in Attempts :
       /\ audits[a] <= 1
       /\ ("success" \in answers[a] /\ attempts[a].st = "gone" /\ codes[a] = "live" /\ sweeps[a] = 0) => audits[a] = 1

\* Every request of a completion persists the same intent: what a later
\* request resumes is what the code was minted for.
OneIntent ==
    \A r1, r2 \in Requests :
       LET resumed(r) == req[r].pc \in {"refresh", "find", "tx", "establish", "save", "dropPrevious", "anchor"} IN
       (resumed(r1) /\ resumed(r2) /\ req[r1].a = req[r2].a) => req[r1].snap = req[r2].snap

\* Completing an authorization never signs a user out: while no row expires,
\* the last session of a user goes only with a logout, or after a logout took
\* the replacement, because rotation saves the replacement before it drops the
\* previous session.
CompletionKeepsUsers ==
    [][ \A u \in Users :
          (\E s \in SessionIds : sessions[s].live /\ sessions[s].user = u)
          => \/ (\E s \in SessionIds : sessions[s].live /\ sessions[s].user = u)'
             \/ lapses' > 0 \/ logouts' # logouts
             \/ DOMAIN logouts # {} /\ \E s \in SessionIds : creations[s] > 0 /\ ~sessions[s].live ]_vars

\* A logout that reports success has ended every session it captured; one
\* that is there again was created since.
LogoutLeavesNone ==
    \A l \in Logouts :
       (logouts[l].pc = "answer" /\ ~logouts[l].failed)
       => \A s \in logouts[l].snap : sessions[s].live => creations[s] > logouts[l].made[s]

\* A session under a stable id is created once (sessions.Establish); false
\* when a logout deletes it before the completion is resumed.
CreatedOnce == \A a \in Attempts : creations[a] <= 1

\* A completed record that was answered with a permanent refusal is not left
\* behind (failTerminalInteraction); false when the session an intent stands
\* on ends before the intent is resumed.
NoReplayableRefusal ==
    \A a \in Attempts : "sessionGone" \in answers[a] => attempts[a].st # "intent"

\* A request that has started is never stuck: whatever the others did to the
\* record meanwhile, its handler has a next step or an answer.
NoneStuck == \A r \in Requests : req[r].pc # "idle" => ENABLED RequestStep(r)
=============================================================================
