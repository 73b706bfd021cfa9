----------------------------- MODULE MCTokenService -----------------------------
(***************************************************************************)
(* Instances of TokenService for TLC.  Identifiers are numbered and drawn  *)
(* in order: renaming the identifiers of any behaviour in the order they   *)
(* are drawn gives one of these, and no property tells names apart.        *)
(* Requests are interchangeable, and the safety runs quotient by them.     *)
(***************************************************************************)
EXTENDS TokenService, TLC

OneRootChain == [t \in {1} |-> 1]
TwoRootsChain == [t \in {1, 2} |-> t]

DrawInOrder ==
    /\ refreshes' = 1 .. Cardinality(refreshes')
    /\ accessTokens' = 1 .. Cardinality(accessTokens')
    /\ {accessChain'[a] : a \in accessTokens'} \cup {chainOf'[t] : t \in refreshes'} \in
           {1 .. n : n \in 0 .. Cardinality(Chains)}

\* A bound where all requests together with a fault are too many: a fault
\* leaves one of them out.
FaultSparesOne == faults = 0 \/ \E r \in Requests : pc[r] = "idle"

Symmetry == Permutations(Requests)
=============================================================================
