--------------------------- MODULE MCClientSession ---------------------------
(* Instances of ClientSession for TLC. *)
EXTENDS ClientSession, TLC

CONSTANTS n1, n2, c1, t1, t2, h1, h2, h3

\* Processes, requests and challenges are interchangeable.
Symmetry == Permutations(Nodes) \cup Permutations(Tasks) \cup Permutations(Challenges)
=============================================================================
