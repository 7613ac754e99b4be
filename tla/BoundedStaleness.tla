--------------------------- MODULE BoundedStaleness ---------------------------
(***************************************************************************)
(* What a cache in front of a row promises: every answer is a version of   *)
(* the row that was current at most Slack hours ago. How answers are       *)
(* found, what is kept where and what removes it is not said.              *)
(* Applications implements it.                                             *)
(***************************************************************************)
EXTENDS Integers

CONSTANTS
    Readers,   \* who asks for the row
    Slack,     \* hours that an answer may be behind
    NoAnswer

VARIABLES
    hour,      \* the hour
    version,   \* the number of the current version, from 0
    ended,     \* when each version before it was replaced
    answer     \* the version each reader was answered with, or NoAnswer

vars == <<hour, version, ended, answer>>

Init == hour = 0 /\ version = 0 /\ ended = <<>> /\ answer = [r \in Readers |-> NoAnswer]

Recent(v) == v = version \/ (v \in DOMAIN ended /\ hour - ended[v] <= Slack)

HourEnds == hour' = hour + 1 /\ UNCHANGED <<version, ended, answer>>

Replace ==
    /\ version' = version + 1
    /\ ended' = [v \in 0..version |-> IF v = version THEN hour ELSE ended[v]]
    /\ UNCHANGED <<hour, answer>>

Answer(r) ==
    /\ \E v \in 0..version : Recent(v) /\ answer' = [answer EXCEPT ![r] = v]
    /\ UNCHANGED <<hour, version, ended>>

\* Answers are given back, one or all at once.
Withdraw ==
    /\ \E R \in SUBSET Readers : answer' = [r \in Readers |-> IF r \in R THEN NoAnswer ELSE answer[r]]
    /\ UNCHANGED <<hour, version, ended>>

Next == HourEnds \/ Replace \/ (\E r \in Readers : Answer(r)) \/ Withdraw

Spec == Init /\ [][Next]_vars
===============================================================================
