---------------------------- MODULE MCAuthorization ----------------------------
(***************************************************************************)
(* Three scenes of Authorization, one chosen in the initial state:         *)
(*   race     two requests of one interaction that prompt, cancel,         *)
(*            complete and resume, with faults, an expiry and a managed    *)
(*            grant (the cfg's constants);                                 *)
(*   tabs     one pushed request opened in two tabs;                       *)
(*   signOut  a logout next to completing requests of every ceremony.      *)
(* The requests of the browser are alike.                                  *)
(***************************************************************************)
EXTENDS Authorization, TLC

CONSTANTS a1, a2, l1

VARIABLE scene

Tabs == INSTANCE Authorization WITH
    Attempts <- {a1, a2}, Chains <- {"login"}, Managing <- {FALSE},
    MaxSteps <- 0, MaxLapses <- 0, MaxFaults <- 0

SignOut == INSTANCE Authorization WITH
    Logouts <- {l1}, Pars <- {}, Managing <- {FALSE}, MaxSteps <- 0, MaxLapses <- 0, MaxFaults <- 1,
    Chains <- {"login", "stepUp", "entry", "pick", "pickLogin", "add"}

ScenesInit ==
    \/ scene = "race" /\ Init
    \/ scene = "tabs" /\ Tabs!Init
    \/ scene = "signOut" /\ SignOut!Init

ScenesNext ==
    /\ UNCHANGED scene
    /\ \/ scene = "race" /\ Next
       \/ scene = "tabs" /\ Tabs!Next
       \/ scene = "signOut" /\ SignOut!Next

ScenesSpec == ScenesInit /\ [][ScenesNext]_<<vars, scene>>

RequestSymmetry == Permutations(Requests)

-----------------------------------------------------------------------------
(* Properties; Authorization says what each is about. *)

\* An answer is final: a cancelled or refused attempt never yields a code, the
\* completion audit is written once, by whoever removes the anchor, and no
\* handler is left without a next step by what the others did.
AnswersAreFinal == scene = "race" => CancelledStaysCancelled /\ AuditedOnce /\ NoneStuck

\* One completion yields one code: its requests resume the same intent, one
\* pushed request yields one code in one tab or two, and no attempt holds a
\* second code while its first has not expired.
OneCode ==
    /\ OneIntent
    /\ scene = "race" => OneResult
    /\ scene = "tabs" => Tabs!OneResult

\* A logout that reports success has ended every session it captured.
SignedOut == scene = "signOut" => SignOut!LogoutLeavesNone
=============================================================================
