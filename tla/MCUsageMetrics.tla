---------------------------- MODULE MCUsageMetrics ----------------------------
(***************************************************************************)
(* Instances of UsageMetrics for TLC.                                      *)
(***************************************************************************)
EXTENDS UsageMetrics, TLC
CONSTANTS k1, t1, t2, f1, f2
MCQuota == [k \in Keys |-> 1]
\* A request is admitted, or meets a limit per minute of nothing.
MCPerMinute == [k \in Keys |-> {0, 1}]
Symmetry == Permutations(Tasks) \cup Permutations(Flushers)
===============================================================================
