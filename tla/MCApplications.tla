---------------------------- MODULE MCApplications ----------------------------
(***************************************************************************)
(* An instance of Applications for TLC: one request and two operations of  *)
(* the developer. Create and two more changes fit, so that two operations  *)
(* overlap and one's trigger may find the other's flag set.                *)
(***************************************************************************)
EXTENDS Applications, TLC
CONSTANTS r1, o1, o2

MCSymmetry == Permutations(Operations)

\* Bound: the third version of the row comes in the first hour and without a crash before,
\* where the operations meet; with two of them a crash and all the hours may come.
MCBound == row.n = MaxVersion => now = 0 /\ crashes = 0
===============================================================================
