----------------------------- MODULE MessageLedger -----------------------------
(***************************************************************************)
(* What a message service promises its senders and recipients: what the    *)
(* sender is told, once and for all; what is kept for the database; what   *)
(* was delivered, and what reached a client. How a message is cached,      *)
(* queued, listed, flushed and deleted is not said. InstantMessage         *)
(* implements it.                                                          *)
(***************************************************************************)
CONSTANTS
    Messages,
    Accidents     \* kinds of failure that may cost what is kept

VARIABLES
    answer,       \* what the sender of each message knows
    kept,         \* messages in the database or on their way to it
    delivered,    \* messages taken for delivery
    returned,     \* messages some client received
    accidents     \* the accidents so far

vars == <<answer, kept, delivered, returned, accidents>>

\* A message is "new" until it may be seen, then "out"; its sender learns that it
\* was accepted or refused, or cannot know.
Answers == {"new", "out", "accepted", "refused", "failed"}

Init ==
    /\ answer = [m \in Messages |-> "new"]
    /\ kept = {} /\ delivered = {} /\ returned = {} /\ accidents = {}

Becomes(m, from, to) == answer[m] \in from /\ answer' = [answer EXCEPT ![m] = to]

Release(m) == Becomes(m, {"new"}, "out") /\ UNCHANGED <<kept, delivered, returned, accidents>>
Refuse(m) == Becomes(m, {"new"}, "refused") /\ UNCHANGED <<kept, delivered, returned, accidents>>
Fail(m) == Becomes(m, {"new", "out"}, "failed") /\ UNCHANGED <<kept, delivered, returned, accidents>>

\* Nothing is accepted that is not kept at that moment.
Accept(m) ==
    /\ Becomes(m, {"out"}, "accepted")
    /\ kept' = kept \cup {m}
    /\ UNCHANGED <<delivered, returned, accidents>>

\* A message may be kept although its sender was told that it failed.
KeepLate(m) ==
    /\ answer[m] = "failed" /\ kept' = kept \cup {m}
    /\ UNCHANGED <<answer, delivered, returned, accidents>>

Deliver(m) ==
    /\ answer[m] \in {"out", "accepted", "failed"}
    /\ delivered' = delivered \cup {m}
    /\ UNCHANGED <<answer, kept, returned, accidents>>

Return ==
    /\ \E R \in SUBSET delivered : returned' = returned \cup R
    /\ UNCHANGED <<answer, kept, delivered, accidents>>

\* Only what was delivered is let go; it is never kept again.
LetGo ==
    /\ \E D \in SUBSET delivered : kept' = kept \ D
    /\ UNCHANGED <<answer, delivered, returned, accidents>>

\* An accident costs any part of what is kept; senders that wait for an answer may
\* never get one, and what they sent may be kept all the same.
Accident(k) ==
    /\ k \notin accidents /\ accidents' = accidents \cup {k}
    /\ \E L \in SUBSET {m \in Messages : answer[m] \in {"new", "out"}} :
          answer' = [m \in Messages |-> IF m \in L THEN "failed" ELSE answer[m]]
    /\ kept' \subseteq kept \cup {m \in Messages : answer'[m] = "failed"}
    /\ UNCHANGED <<delivered, returned>>

Next ==
    \/ \E m \in Messages : Release(m) \/ Refuse(m) \/ Fail(m) \/ Accept(m) \/ KeepLate(m) \/ Deliver(m)
    \/ Return \/ LetGo
    \/ \E k \in Accidents : Accident(k)

Spec == Init /\ [][Next]_vars

--------------------------------------------------------------------------------
(***************************************************************************)
(* What follows for every implementation                                   *)
(***************************************************************************)
\* A message whose sender was refused is neither kept nor delivered.
RefusedIsNowhere == \A m \in Messages : answer[m] = "refused" => m \notin kept \cup delivered

\* Until an accident, whoever was told "accepted" has the message kept or delivered.
AcceptedIsSafe ==
    accidents = {} => \A m \in Messages : answer[m] = "accepted" => m \in kept \cup delivered

\* No client receives what was not counted as delivered.
ReturnedIsDelivered == returned \subseteq delivered

\* An answer is final.
Final == \A m \in Messages : answer[m] \in {"accepted", "refused", "failed"} => answer'[m] = answer[m]
AnswersAreFinal == [][Final]_vars

\* An accepted message that was let go does not come back.
Gone == \A m \in Messages : answer[m] = "accepted" /\ m \notin kept => m \notin kept'
GoneForGood == [][Gone]_vars
================================================================================
