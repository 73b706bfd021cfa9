---------------------------- MODULE MCTokenVariants ----------------------------
(***************************************************************************)
(* Three deployments of TokenService checked together; the initial state   *)
(* chooses one.  "opaque" is the one of the cfg's constants.  "jwt" issues *)
(* JWTs to bearer clients under the tombstone strategy.  "kept" does not   *)
(* rotate refresh tokens, redeems codes, and retires JWTs through the      *)
(* registry.                                                               *)
(***************************************************************************)
EXTENDS MCTokenService

CONSTANT KeptCodes   \* the codes of the third deployment

VARIABLE deployment

Jwt == INSTANCE TokenService WITH Opaque <- FALSE, Constrained <- FALSE

Kept == INSTANCE TokenService WITH
    Rotation <- FALSE, Opaque <- FALSE, Strategy <- "jti_registry", Codes <- KeptCodes,
    Roots <- {1}, RootChain <- OneRootChain, JoinedRoots <- {}, MaxTime <- 2

VariantsInit ==
    \/ deployment = "opaque" /\ Init
    \/ deployment = "jwt" /\ Jwt!Init
    \/ deployment = "kept" /\ Kept!Init

VariantsNext ==
    /\ UNCHANGED deployment
    /\ \/ deployment = "opaque" /\ Next
       \/ deployment = "jwt" /\ Jwt!Next
       \/ deployment = "kept" /\ Kept!Next

VariantsSpec == VariantsInit /\ [][VariantsNext]_<<vars, deployment>>

\* An access token that a complete teardown covers is dead, however its request
\* interleaved with the rungs: issued by the cutoff under the tombstone
\* strategy, issued before the teardown read its clock under the registry one,
\* where a teardown with a failed rung never counts as complete (Revoker.Run).
TornAccessIsDead ==
    /\ deployment = "jwt" => Jwt!IssuedByCutoffDead
    /\ deployment = "kept" => Kept!SweptByCutoff
=============================================================================
