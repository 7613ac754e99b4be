------------------------------ MODULE SessionStore ------------------------------
(***************************************************************************)
(* What a session service that runs as several processes promises: whose a *)
(* session is, who may be given it, that its end is an end, and which      *)
(* processes may still take it for valid afterwards. How a process         *)
(* remembers what it was told, and how it learns of an end, is not said.   *)
(* ClientSession implements it.                                            *)
(***************************************************************************)
CONSTANTS
    Processes,
    Sessions,
    Clients,
    Nobody        \* the owner of a session that was not made yet

VARIABLES
    owner,        \* the client each session was made for
    given,        \* sessions that their client received
    ended,        \* sessions that were revoked
    trusted,      \* sessions that each process takes, or is about to take, for valid
    active,       \* clients that may log in
    leaving       \* clients that asked to be deactivated

vars == <<owner, given, ended, trusted, active, leaving>>

Init ==
    /\ owner = [j \in Sessions |-> Nobody]
    /\ given = {} /\ ended = {}
    /\ trusted = [p \in Processes |-> {}]
    /\ active = Clients /\ leaving = {}

Make(j, c) ==
    /\ owner[j] = Nobody /\ owner' = [owner EXCEPT ![j] = c]
    /\ UNCHANGED <<given, ended, trusted, active, leaving>>

\* Nobody receives a session that has ended already.
Give(j) ==
    /\ owner[j] # Nobody /\ j \notin ended /\ given' = given \cup {j}
    /\ UNCHANGED <<owner, ended, trusted, active, leaving>>

End(j) ==
    /\ owner[j] # Nobody /\ ended' = ended \cup {j}
    /\ UNCHANGED <<owner, given, trusted, active, leaving>>

\* A process begins to trust a session at a moment at which the session has not ended;
\* it may go on afterwards.
Trust(p, j) ==
    /\ j \in given \ ended
    /\ trusted' = [trusted EXCEPT ![p] = @ \cup {j}]
    /\ UNCHANGED <<owner, given, ended, active, leaving>>

Distrust(p) ==
    /\ \E S \in SUBSET trusted[p] : trusted' = [trusted EXCEPT ![p] = S]
    /\ UNCHANGED <<owner, given, ended, active, leaving>>

\* A client asks to be deactivated with a session of its own that is trusted by
\* the process it asks, or has not ended.
Ask(c) ==
    /\ \E j \in given : owner[j] = c /\ (j \notin ended \/ \E p \in Processes : j \in trusted[p])
    /\ leaving' = leaving \cup {c}
    /\ UNCHANGED <<owner, given, ended, trusted, active>>

Leave(c) ==
    /\ c \in leaving /\ active' = active \ {c}
    /\ UNCHANGED <<owner, given, ended, trusted, leaving>>

Next ==
    \/ \E j \in Sessions : Give(j) \/ End(j)
    \/ \E j \in Sessions, c \in Clients : Make(j, c)
    \/ \E p \in Processes, j \in Sessions : Trust(p, j)
    \/ \E p \in Processes : Distrust(p)
    \/ \E c \in Clients : Ask(c) \/ Leave(c)

Spec == Init /\ [][Next]_vars

--------------------------------------------------------------------------------
(***************************************************************************)
(* What follows for every implementation                                   *)
(***************************************************************************)
\* An end is an end: a process that refuses a session which has ended, and has no older
\* answer under way, never takes it for valid again.
Refused == \A p \in Processes, j \in ended : j \notin trusted[p] => j \notin trusted'[p]
RefusedForGood == [][Refused]_vars

\* A session keeps the client it was made for, and one that ended before its client
\* received it is never received.
Kept == /\ \A j \in Sessions : owner[j] # Nobody => owner'[j] = owner[j]
        /\ ended \cap (given' \ given) = {}
SessionsAreKept == [][Kept]_vars

\* Only sessions that a client received are taken for valid.
TrustedWereGiven == \A p \in Processes : trusted[p] \subseteq given

\* Whoever is deactivated asked for it, with a session of its own.
LeaversAsked == /\ Clients \ active \subseteq leaving
                /\ \A c \in leaving : \E j \in given : owner[j] = c
================================================================================
