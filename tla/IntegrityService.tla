--------------------------- MODULE IntegrityService ---------------------------
(***************************************************************************)
(* The control of IntegrityService::verify_integrity                       *)
(* (src/vaultless-core/src/models/app_model/integrity/service.rs) for one  *)
(* application and one identity, a client at its login or an address at a  *)
(* registration: the lockout after failed verifications, the verdict of    *)
(* the platform's verifier, and the hourly limits. Each of them is a Redis *)
(* counter that INCR creates and a second command, EXPIRE, gives its hour. *)
(*                                                                         *)
(* A step is what one verification does between two awaits. The verifiers  *)
(* appear by their verdict only. Usage tracking, whose counts refuse       *)
(* nothing, and the binding of browsers to an origin, which no handler     *)
(* fills in, are left out; so are applications that allow                  *)
(* unauthenticated clients or refuse the platform, which touch no counter. *)
(***************************************************************************)
EXTENDS Integers, Sequences, FiniteSets

CONSTANTS
    Tasks,          \* verifications that may run at once
    Platforms,      \* the platforms clients attest from
    BrowserLimits,  \* the limits a browser meets first: "request", "registration"
    Limit,          \* the configured limit of each counter
    Faults,         \* the kinds of failure that may happen
    MaxFaults,      \* bound on the kinds of failure in one behaviour
    Ceiling         \* bound: the value at which each counter is no longer followed

(***************************************************************************)
(* "failed" counts the failed verifications of the identity; a platform    *)
(* counts those that succeeded on it.                                      *)
(***************************************************************************)
PlatformNames == {"ios", "android", "iot", "browser"}
BrowserCounters == {"request", "registration"}
Counters == {"failed"} \cup BrowserCounters \cup Platforms

\* redis: a command fails, or its answer is lost; crash: see Crash.
FaultKinds == {"redis", "crash"}

ASSUME PlatformsAssumption == Platforms \subseteq PlatformNames
ASSUME BrowserLimitsAssumption == BrowserLimits \in Seq(BrowserCounters)
ASSUME LimitAssumption == Limit \in [Counters -> Nat]
\* So that the bound makes no count look like the first, or like one within the limit.
ASSUME CeilingAssumption ==
    Ceiling \in [Counters -> Nat] /\ \A k \in Counters : Ceiling[k] > 1 /\ Ceiling[k] > Limit[k]
ASSUME TasksAssumption == IsFiniteSet(Tasks) /\ Tasks # {}
ASSUME FaultsAssumption == Faults \subseteq FaultKinds /\ MaxFaults \in Nat

VARIABLES
    count,     \* the value of each counter, 0 when it has no key
    timed,     \* the counters whose key has a TTL
    task,      \* what each verification does
    \* history
    passed,    \* verifications passed on each platform since its counter began
    unread,    \* how often a failure to read the lockout counter was taken for 0
    orphaned,  \* counters whose EXPIRE failed or never came
    failed     \* the kinds of failure so far

redis == <<count, timed>>
ghosts == <<passed, unread, orphaned>>
vars == <<redis, task, ghosts, failed>>

NoPlatform == "none"
TaskStates == {"idle", "verify", "count", "expire"}
Idle == [pc |-> "idle", platform |-> NoPlatform, todo |-> <<>>]

\* The counters that a verification still meets.
Todos == Seq(Counters)

\* The type invariant: counters, verifications and what they still have to count.
TypeOK ==
    /\ count \in [Counters -> Nat] /\ timed \subseteq Counters
    /\ task \in [Tasks -> [pc : TaskStates, platform : Platforms \cup {NoPlatform}, todo : Todos]]
    /\ passed \in [Platforms -> Nat] /\ unread \in Nat /\ orphaned \subseteq Counters
    /\ failed \subseteq FaultKinds

Init ==
    /\ count = [k \in Counters |-> 0] /\ timed = {}
    /\ task = [t \in Tasks |-> Idle]
    /\ passed = [p \in Platforms |-> 0] /\ unread = 0 /\ orphaned = {}
    /\ failed = {}

\* A failure: in one behaviour each kind happens at most once, and at most
\* MaxFaults kinds do.
Fault(kind) == /\ kind \in Faults \ failed
               /\ Cardinality(failed) < MaxFaults
               /\ failed' = failed \cup {kind}
NoFault == UNCHANGED failed

End(t) == task' = [task EXCEPT ![t] = Idle]
Go(t, pc, p, todo) == task' = [task EXCEPT ![t] = [pc |-> pc, platform |-> p, todo |-> todo]]

-----------------------------------------------------------------------------
(***************************************************************************)
(* The lockout                                                             *)
(***************************************************************************)
\* Mutant: the lockout is not looked at.
VerifyUnchecked(t, p) ==
    /\ task[t].pc = "idle" /\ NoFault
    /\ Go(t, "verify", p, <<>>)
    /\ UNCHANGED <<redis, ghosts>>

\* check_client_lockout: a locked identity is refused before the verifier runs;
\* and leaves no trace; a GET that fails counts as no failures (unwrap_or(0)).
Verify(t, p) ==
    /\ task[t].pc = "idle"
    /\ \/ NoFault /\ count["failed"] < Limit["failed"] /\ UNCHANGED unread
       \/ Fault("redis") /\ unread' = unread + 1
    /\ Go(t, "verify", p, <<>>)
    /\ UNCHANGED <<redis, passed, orphaned>>

-----------------------------------------------------------------------------
(***************************************************************************)
(* The verdict                                                             *)
(***************************************************************************)
Gates(p) == IF p = "browser" THEN Append(BrowserLimits, p) ELSE <<p>>

\* Trusted, and the limits come; low trust, and the failure is tracked, which a
\* browser's verdict never asks for; or an error, which is not tracked at all.
Verdict(t) ==
    LET p == task[t].platform
    IN  /\ task[t].pc = "verify"
        /\ \/ Go(t, "count", p, Gates(p))
           \/ p # "browser" /\ Go(t, "count", p, <<"failed">>)
           \/ End(t)
        /\ NoFault /\ UNCHANGED <<redis, ghosts>>

-----------------------------------------------------------------------------
(***************************************************************************)
(* Counting: check_integrity_rate_limit, track_failed_integrity and the    *)
(* limits of browsers are one INCR, an EXPIRE if that made the key, and a  *)
(* comparison                                                              *)
(***************************************************************************)
\* Mutant: counts down.
BumpDown(k) == count[k] - 1
Bump(k) == IF count[k] < Ceiling[k] THEN count[k] + 1 ELSE count[k]

\* Mutant: after each limit the verifier runs again.
DecideAgain(t, k, n) ==
    LET p == task[t].platform
        rest == Tail(task[t].todo)
        refused == k = "failed" \/ n > Limit[k]
    IN  /\ IF refused \/ rest = <<>> THEN End(t) ELSE Go(t, "verify", p, <<>>)
        /\ passed' = IF ~refused /\ rest = <<>> THEN [passed EXCEPT ![p] = @ + 1] ELSE passed

\* Mutant: the limit is compared with the count before this one.
DecideLate(t, k, n) ==
    LET p == task[t].platform
        rest == Tail(task[t].todo)
        refused == k = "failed" \/ n - 1 > Limit[k]
    IN  /\ IF refused \/ rest = <<>> THEN End(t) ELSE Go(t, "count", p, rest)
        /\ passed' = IF ~refused /\ rest = <<>> THEN [passed EXCEPT ![p] = @ + 1] ELSE passed

\* What follows the count n of counter k: a tracked failure is refused either
\* way, a count above the limit is refused, and the last counter passes.
Decide(t, k, n) ==
    LET p == task[t].platform
        rest == Tail(task[t].todo)
        refused == k = "failed" \/ n > Limit[k]
    IN  /\ IF refused \/ rest = <<>> THEN End(t) ELSE Go(t, "count", p, rest)
        /\ passed' = IF ~refused /\ rest = <<>> THEN [passed EXCEPT ![p] = @ + 1] ELSE passed

\* Mutant: the command that gives the key its hour never comes.
CountUntimed(t) ==
    LET k == Head(task[t].todo)
    IN  /\ task[t].pc = "count" /\ NoFault
        /\ count' = [count EXCEPT ![k] = Bump(k)]
        /\ Decide(t, k, count'[k])
        /\ UNCHANGED <<timed, unread, orphaned>>

\* INCR. A call that fails may have counted, and made a key without a TTL.
Count(t) ==
    LET k == Head(task[t].todo)
    IN  /\ task[t].pc = "count"
        /\ \/ /\ NoFault /\ count' = [count EXCEPT ![k] = Bump(k)]
              /\ IF count'[k] = 1
                 THEN Go(t, "expire", task[t].platform, task[t].todo) /\ UNCHANGED passed
                 ELSE Decide(t, k, count'[k])
              /\ UNCHANGED orphaned
           \/ /\ Fault("redis") /\ count' \in {count, [count EXCEPT ![k] = Bump(k)]}
              /\ orphaned' = IF count'[k] = 1 /\ count[k] = 0 THEN orphaned \cup {k} ELSE orphaned
              /\ End(t) /\ UNCHANGED passed
        /\ UNCHANGED <<timed, unread>>

\* Mutant: the limit is checked before the key gets its hour.
SetTtlAfterLimit(t) ==
    LET k == Head(task[t].todo)
    IN  /\ task[t].pc = "expire" /\ NoFault
        /\ timed' = IF k = "failed" \/ 1 > Limit[k] THEN timed ELSE timed \cup {k}
        /\ Decide(t, k, 1)
        /\ UNCHANGED <<count, unread, orphaned>>

\* EXPIRE, by the one that counted 1, and the comparison with that 1.
SetTtl(t) ==
    LET k == Head(task[t].todo)
    IN  /\ task[t].pc = "expire"
        /\ \/ NoFault /\ timed' = timed \cup {k} /\ Decide(t, k, 1) /\ UNCHANGED orphaned
           \/ /\ Fault("redis") /\ timed' \in {timed, timed \cup {k}}
              /\ orphaned' = IF k \in timed' THEN orphaned ELSE orphaned \cup {k}
              /\ End(t) /\ UNCHANGED passed
        /\ UNCHANGED <<count, unread>>

-----------------------------------------------------------------------------
(***************************************************************************)
(* Time and crashes                                                        *)
(***************************************************************************)
\* RATE_LIMIT_WINDOW_SECONDS after its first count, the counter is gone.
WindowEnds(k) ==
    /\ k \in timed
    /\ count' = [count EXCEPT ![k] = 0] /\ timed' = timed \ {k}
    /\ passed' = IF k \in Platforms THEN [passed EXCEPT ![k] = 0] ELSE passed
    /\ NoFault /\ UNCHANGED <<task, unread, orphaned>>

Expiring(k) == \E t \in Tasks : task[t].pc = "expire" /\ Head(task[t].todo) = k

\* The process dies with its verifications, or drops one whose client is gone.
Crash ==
    /\ Fault("crash")
    /\ \E dropped \in SUBSET Tasks :
          /\ task' = [t \in Tasks |-> IF t \in dropped THEN Idle ELSE task[t]]
          /\ orphaned' = orphaned \cup
                {k \in Counters : \E t \in dropped : task[t].pc = "expire" /\ Head(task[t].todo) = k}
    /\ UNCHANGED <<redis, passed, unread>>

TaskNext(t) == Verdict(t) \/ Count(t) \/ SetTtl(t)

Next ==
    \/ \E t \in Tasks : (\E p \in Platforms : Verify(t, p)) \/ TaskNext(t)
    \/ \E k \in Counters : WindowEnds(k)
    \/ Crash

\* Verifications run, and Redis drops a key when its time has come.
Fairness == /\ \A t \in Tasks : WF_vars(TaskNext(t))
            /\ \A k \in Counters : WF_vars(WindowEnds(k))

Spec == Init /\ [][Next]_vars /\ Fairness

-----------------------------------------------------------------------------
(***************************************************************************)
(* Properties                                                              *)
(***************************************************************************)
\* The lockout is checked before the verifier runs and counted after it: those
\* that were let through together may overshoot the limit, but each by one, so
\* at most one for every other verification that runs, and one for each time
\* the counter could not be read.
FailuresAreBounded == count["failed"] <= Limit["failed"] + Cardinality(Tasks) - 1 + unread

\* Between two ends of its window, a platform passes no more verifications than
\* its limit, however they interleave.
PassesAreBounded == \A p \in Platforms : passed[p] <= Limit[p]

\* A counter that is not about to get its TTL has one, unless the command that
\* sets it failed or died: none is left behind by an interleaving.
CountersAreTimed ==
    \A k \in Counters : count[k] > 0 => k \in timed \/ Expiring(k) \/ k \in orphaned

\* So "temporarily locked" is true, as long as EXPIRE followed the first failure.
Locked == count["failed"] > 0 /\ count["failed"] >= Limit["failed"]
LockoutEnds == Locked ~> (~Locked \/ "failed" \in orphaned)

\* Every verification ends.
VerificationsEnd == \A t \in Tasks : task[t].pc # "idle" ~> task[t].pc = "idle"
=============================================================================
