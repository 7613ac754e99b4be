-------------------------- MODULE MCIntegrityService --------------------------
(***************************************************************************)
(* Instances of IntegrityService for TLC: small limits, so that two        *)
(* verifications at once reach and pass them.                              *)
(***************************************************************************)
EXTENDS IntegrityService
CONSTANTS t1, t2
MCBrowserLimits == <<"request">>
MCLimit == [k \in Counters |-> IF k \in {"failed", "iot"} THEN 2 ELSE 1]
MCCeiling == [k \in Counters |-> IF k = "failed" THEN 5 ELSE MCLimit[k] + 1]
===============================================================================
