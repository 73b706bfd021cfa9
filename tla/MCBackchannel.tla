----------------------------- MODULE MCBackchannel -----------------------------
(***************************************************************************)
(* Two cases of BackchannelLogout, one chosen in the initial state: a      *)
(* logout next to a client deletion, with a fault and under fairness (the  *)
(* cfg's constants), and two logouts that compete for one slot.            *)
(***************************************************************************)
EXTENDS BackchannelLogout

VARIABLE case

Logouts == INSTANCE BackchannelLogout WITH Deletions <- {}, MaxFaults <- 0

CasesInit == case \in {"deletion", "logouts"} /\ Init

CasesNext ==
    /\ UNCHANGED case
    /\ \/ case = "deletion" /\ Next
       \/ case = "logouts" /\ Logouts!Next

allVars == <<vars, case>>

\* As FairSpec, in the first case.
CasesFairness ==
    /\ \A n \in Notices : /\ WF_allVars(case = "deletion" /\ FanOut(n) /\ UNCHANGED case)
                          /\ WF_allVars(case = "deletion" /\ BudgetElapses(n) /\ UNCHANGED case)
    /\ \A d \in Drainers : WF_allVars(case = "deletion" /\ DrainReturns(d) /\ UNCHANGED case)

CasesSpec == CasesInit /\ [][CasesNext]_allVars /\ CasesFairness

-----------------------------------------------------------------------------
\* A fan-out that was started ends, however its receivers behave, and a
\* Drain ends once no fan-out is left (Notify, NotifyClientDeleted, Drain).
StartedEnds ==
    /\ \A n \in Notices : (case = "deletion" /\ stage[n] = "listing") ~> stage[n] = "done"
    /\ \A d \in Drainers : (case = "deletion" /\ drain[d] = "waiting") ~> drain[d] # "waiting"
=============================================================================
