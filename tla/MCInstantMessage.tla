-------------------------- MODULE MCInstantMessage --------------------------
(* Instances of InstantMessage for TLC. *)
EXTENDS InstantMessage, TLC

CONSTANTS c1, c2, f1, f2

Symmetry == Permutations(Handlers)

\* Every message for one client.
ToOne == [m \in 1..NumMsgs |-> c1]
\* Messages 1, 3, ... for c1 and 2, 4, ... for c2.
Alternating == [m \in 1..NumMsgs |-> IF m % 2 = 1 THEN c1 ELSE c2]
=============================================================================
