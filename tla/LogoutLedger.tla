------------------------- MODULE LogoutLedger -------------------------
(***************************************************************************)
(* What a back-channel logout fan-out promises, without saying how: a      *)
(* notice is either shed as a whole, or it is given a bounded audience,    *)
(* every member of that audience is given one verdict that never changes,  *)
(* and only then is the notice closed (internal/backchannel/coordinator.go *)
(* 482-517, Notify 344-363).  BackchannelLogout implements it.             *)
(***************************************************************************)
CONSTANTS Notices,      \* the fan-outs the endpoints ask for
          Receivers,    \* relying parties (or, for a deleted client, subjects)
          Audiences     \* the sets of receivers one notice may answer for

VARIABLES status,       \* "open", "told", "closed", "shed"
          audience,     \* the receivers a notice answers for
          verdict       \* what the audit trail says of each receiver

ledger == <<status, audience, verdict>>

Verdicts == {"skipped", "unresolved", "delivered", "failed"}

LedgerInit ==
  /\ status = [n \in Notices |-> "open"]
  /\ audience = [n \in Notices |-> {}]
  /\ verdict = [n \in Notices |-> [c \in Receivers |-> "none"]]

\* A notice refused at the in-flight cap names no receiver at all.
Shed(n) ==
  /\ status[n] = "open"
  /\ status' = [status EXCEPT ![n] = "shed"]
  /\ UNCHANGED <<audience, verdict>>

\* The audience is fixed once, and is one of those allowed.
Tell(n) ==
  /\ status[n] = "open"
  /\ \E page \in Audiences : audience' = [audience EXCEPT ![n] = page]
  /\ status' = [status EXCEPT ![n] = "told"]
  /\ UNCHANGED verdict

Judge(n, c) ==
  /\ status[n] = "told"
  /\ c \in audience[n]
  /\ verdict[n][c] = "none"
  /\ \E v \in Verdicts : verdict' = [verdict EXCEPT ![n][c] = v]
  /\ UNCHANGED <<status, audience>>

\* Closing is for notices whose whole audience has a verdict; the audience
\* of a notice whose page could not be read is empty.
Close(n) ==
  /\ status[n] \in {"open", "told"}
  /\ \A c \in audience[n] : verdict[n][c] # "none"
  /\ status' = [status EXCEPT ![n] = "closed"]
  /\ UNCHANGED <<audience, verdict>>

LedgerNext ==
  \E n \in Notices :
    \/ Shed(n)
    \/ Tell(n)
    \/ \E c \in Receivers : Judge(n, c)
    \/ Close(n)

LedgerSpec == LedgerInit /\ [][LedgerNext]_ledger
=============================================================================
