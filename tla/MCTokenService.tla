---------------------------- MODULE MCTokenService ----------------------------
(***************************************************************************)
(* Instances of TokenService for TLC. Requests are interchangeable in the  *)
(* runs without a liveness property.                                       *)
(***************************************************************************)
EXTENDS TokenService, TLC
CONSTANTS t1, t2
Symmetry == Permutations({t1, t2})
===============================================================================
