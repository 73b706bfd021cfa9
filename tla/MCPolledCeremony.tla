--------------------------- MODULE MCPolledCeremony ---------------------------
(***************************************************************************)
(* The settings PolledCeremony is checked in.  Opaque tokens under the     *)
(* registry strategy, where the closure record comes after the sweep, and  *)
(* JWTs under tombstones, with two polls, a teardown and a fault; three    *)
(* polls alone for the ladder; one poll against two teardowns.             *)
(***************************************************************************)
EXTENDS PolledCeremony

CONSTANTS p1, p2, p3

Set(kind, opaque, strategy, polls, faultBudget, teardownBudget) ==
    [kind |-> kind, opaque |-> opaque, strategy |-> strategy, polls |-> polls,
     faults |-> faultBudget, teardowns |-> teardownBudget]

CheckedSettings ==
    {Set("device", TRUE,  "registry",  {p1, p2},     1, 1),
     Set("ciba",   TRUE,  "registry",  {p1, p2},     1, 1),
     Set("device", FALSE, "tombstone", {p1, p2},     1, 1),
     Set("device", FALSE, "tombstone", {p1},         1, 2),
     Set("device", TRUE,  "registry",  {p1, p2, p3}, 0, 0)}
=============================================================================
