------------------------ MODULE IntegrityServiceProofs ------------------------
(***************************************************************************)
(* Safety of IntegrityService for any set of verifications that run at     *)
(* once, any platforms and limits, and any choice of failures.             *)
(***************************************************************************)
EXTENDS IntegrityService, FiniteSetTheorems, SequenceTheorems, TLAPS

(***************************************************************************)
(* The inductive invariant                                                 *)
(***************************************************************************)
\* What a verification still has to count: its tracked failure, or limits, of
\* which the platform's own comes last.
Todo(t) == task[t].todo
Gate == Counters \ {"failed"}
Remaining(s, p) ==
    /\ s # <<>>
    /\ \/ s = <<"failed">>
       \/ s \in Seq(Gate) /\ s[Len(s)] = p
TodoInv ==
    \A t \in Tasks :
        /\ task[t].pc # "idle" => task[t].platform \in Platforms
        /\ task[t].pc \in {"count", "expire"} => Remaining(Todo(t), task[t].platform)

\* The verifications that may still add to the failures of the identity.
Pending == {t \in Tasks : \/ task[t].pc = "verify"
                          \/ task[t].pc = "count" /\ Todo(t) = <<"failed">>}
PendingInv ==
    count["failed"] + Cardinality(Pending) <= Limit["failed"] + Cardinality(Tasks) - 1 + unread

\* One verification at most is about to set the TTL of a counter, which then
\* counts at least 1 and has none yet.
About(t, k) == task[t].pc = "expire" /\ Head(Todo(t)) = k
TimedInv ==
    \A k \in Counters :
        /\ k \in timed => count[k] > 0 /\ ~Expiring(k)
        /\ Expiring(k) => count[k] > 0
        /\ \A t, u \in Tasks : About(t, k) /\ About(u, k) => t = u

\* What a platform passed was counted, and a count that is yet to be compared
\* with the limit has not passed.
Undecided(p) == IF Expiring(p) THEN 1 ELSE 0
PassInv ==
    \A p \in Platforms : /\ passed[p] + Undecided(p) <= count[p]
                         /\ IF Limit[p] = 0 THEN passed[p] = 0 ELSE passed[p] + Undecided(p) <= Limit[p]

SafetyInv == TypeOK /\ TodoInv /\ PendingInv /\ TimedInv /\ CountersAreTimed /\ PassInv

(***************************************************************************)
(* Lemmas                                                                  *)
(***************************************************************************)
LEMMA NamesAreCounters == "failed" \in Counters /\ Platforms \subseteq Gate /\ BrowserCounters \subseteq Gate
BY PlatformsAssumption DEF Counters, Gate, PlatformNames, BrowserCounters

LEMMA LimitsAreNat == \A k \in Counters : Limit[k] \in Nat /\ Ceiling[k] \in Nat /\ Limit[k] < Ceiling[k] /\ 1 < Ceiling[k]
BY LimitAssumption, CeilingAssumption

\* The limits of a platform, and the failure of a verification on it.
LEMMA GatesType ==
    ASSUME NEW p \in Platforms
    PROVE  Remaining(Gates(p), p) /\ Remaining(<<"failed">>, p)
<1>1. BrowserLimits \in Seq(Gate)
    BY BrowserLimitsAssumption, NamesAreCounters, SeqMonotonic
<1>2. p \in Gate
    BY NamesAreCounters
<1>3. /\ Append(BrowserLimits, p) \in Seq(Gate) /\ Append(BrowserLimits, p) # <<>>
      /\ Append(BrowserLimits, p)[Len(Append(BrowserLimits, p))] = p
    BY <1>1, <1>2, AppendProperties
<1>4. <<p>> \in Seq(Gate) /\ <<p>> # <<>> /\ <<p>>[Len(<<p>>)] = p
    BY <1>2
<1>5. Remaining(Gates(p), p)
    <2>1. CASE p = "browser"
        BY <2>1, <1>3 DEF Gates, Remaining
    <2>2. CASE p # "browser"
        BY <2>2, <1>4 DEF Gates, Remaining
    <2> QED
        BY <2>1, <2>2
<1>6. Remaining(<<"failed">>, p)
    <2>1. <<"failed">> # <<>>
        OBVIOUS
    <2> QED
        BY <2>1 DEF Remaining
<1> QED
    BY <1>5, <1>6

\* The counter that comes next, and what comes after it.
LEMMA HeadType ==
    ASSUME NEW p, NEW s, Remaining(s, p)
    PROVE  /\ s \in Seq(Counters) /\ Head(s) \in Counters
           /\ Head(s) = "failed" => s = <<"failed">>
           /\ s = <<"failed">> => Head(s) = "failed"
           /\ Head(s) # "failed" /\ Tail(s) = <<>> => Head(s) = p
           /\ Head(s) # "failed" /\ Tail(s) # <<>> => Remaining(Tail(s), p) /\ Tail(s) # <<"failed">>
<1>1. "failed" \in Counters /\ Gate \subseteq Counters /\ "failed" \notin Gate
    BY NamesAreCounters DEF Gate
<1>2. CASE s = <<"failed">>
    BY <1>1, <1>2
<1>3. CASE s \in Seq(Gate) /\ s # <<>> /\ s[Len(s)] = p
    <2>1. /\ Head(s) \in Gate /\ Head(s) = s[1] /\ Tail(s) \in Seq(Gate)
          /\ Len(Tail(s)) = Len(s) - 1 /\ Len(s) \in Nat
          /\ \A i \in 1..Len(Tail(s)) : Tail(s)[i] = s[i + 1]
        BY <1>3, HeadTailProperties
    <2>2. s \in Seq(Counters)
        BY <1>1, <1>3, SeqMonotonic
    <2>3. Tail(s) = <<>> => Head(s) = p
        BY <1>3, <2>1
    <2>4. Tail(s) # <<>> => Len(Tail(s)) > 0 /\ Tail(s)[Len(Tail(s))] = p
        BY <1>3, <2>1
    <2>5. Tail(s) # <<"failed">>
        <3>1. <<"failed">> \notin Seq(Gate)
            <4>1. /\ <<"failed">>[1] = "failed" /\ Len(<<"failed">>) = 1
                OBVIOUS
            <4>2. \A x \in Seq(Gate) : Len(x) = 1 => x[1] \in Gate
                BY ElementOfSeq
            <4> QED
                BY <1>1, <4>1, <4>2
        <3> QED
            BY <2>1, <3>1
    <2> QED
        BY <1>1, <1>3, <2>1, <2>2, <2>3, <2>4, <2>5 DEF Remaining
<1> QED
    BY <1>2, <1>3 DEF Remaining

\* A count moves up by one or stays, and leaves 0.
LEMMA BumpType ==
    ASSUME TypeOK, NEW k \in Counters
    PROVE  /\ Bump(k) \in Nat /\ Bump(k) >= count[k] /\ Bump(k) <= count[k] + 1
           /\ count[k] = 0 => Bump(k) = 1
           /\ Bump(k) <= Limit[k] => Bump(k) = count[k] + 1
BY LimitsAreNat DEF TypeOK, Bump

\* What follows a comparison: the verification ends or meets its next limit,
\* and passes only with its platform's count within the limit.
LEMMA DecideEffect ==
    ASSUME TypeOK, TodoInv, NEW t \in Tasks, task[t].pc \in {"count", "expire"}, NEW n,
           Decide(t, Head(Todo(t)), n)
    PROVE  LET k == Head(Todo(t))
               p == task[t].platform
               next == [pc |-> "count", platform |-> p, todo |-> Tail(Todo(t))]
           IN  /\ \/ task' = [task EXCEPT ![t] = Idle]
                  \/ /\ task' = [task EXCEPT ![t] = next]
                     /\ Remaining(Tail(Todo(t)), p) /\ Tail(Todo(t)) # <<"failed">>
               /\ \/ passed' = passed
                  \/ k = p /\ ~(n > Limit[p]) /\ passed' = [passed EXCEPT ![p] = @ + 1]
<1>1. Remaining(Todo(t), task[t].platform)
    BY DEF TodoInv
<1> QED
    BY <1>1, HeadType DEF Decide, End, Go, Todo

\* One verification moves on to a state of the right type.
MoveOk(next) ==
    /\ next \in [pc : TaskStates, platform : Platforms \cup {NoPlatform}, todo : Todos]
    /\ next.pc # "idle" => next.platform \in Platforms
    /\ next.pc \in {"count", "expire"} => Remaining(next.todo, next.platform)

LEMMA Moves ==
    ASSUME TypeOK, TodoInv, NEW t \in Tasks, NEW next, MoveOk(next), task' = [task EXCEPT ![t] = next]
    PROVE  /\ task' \in [Tasks -> [pc : TaskStates, platform : Platforms \cup {NoPlatform}, todo : Todos]]
           /\ TodoInv'
           /\ task'[t] = next /\ \A u \in Tasks \ {t} : task'[u] = task[u]
<1>1. /\ task' \in [Tasks -> [pc : TaskStates, platform : Platforms \cup {NoPlatform}, todo : Todos]]
      /\ task'[t] = next /\ \A u \in Tasks \ {t} : task'[u] = task[u]
    BY DEF TypeOK, MoveOk
<1>2. TodoInv'
    BY <1>1 DEF TodoInv, MoveOk, Todo
<1> QED
    BY <1>1, <1>2

LEMMA IdleOk == MoveOk(Idle)
<1>1. <<>> \in Seq(Counters)
    OBVIOUS
<1> QED
    BY <1>1 DEF MoveOk, Idle, TaskStates, Todos

\* A crash or a request that is dropped ends verifications and moves none.
LEMMA CrashMoves ==
    ASSUME TypeOK, NEW dropped \in SUBSET Tasks,
           task' = [t \in Tasks |-> IF t \in dropped THEN Idle ELSE task[t]]
    PROVE  /\ \A t \in Tasks : task'[t] = IF t \in dropped THEN Idle ELSE task[t]
           /\ \A t \in dropped : task'[t].pc = "idle"
           /\ \A t \in Tasks : task'[t].pc # "idle" => t \notin dropped /\ task'[t] = task[t]
BY DEF Idle

LEMMA VerifyOk ==
    ASSUME NEW p \in Platforms
    PROVE  MoveOk([pc |-> "verify", platform |-> p, todo |-> <<>>])
<1>1. <<>> \in Seq(Counters)
    OBVIOUS
<1> QED
    BY <1>1 DEF MoveOk, TaskStates, Todos

LEMMA CountsOk ==
    ASSUME NEW p \in Platforms, NEW s, Remaining(s, p), NEW pc \in {"count", "expire"}
    PROVE  MoveOk([pc |-> pc, platform |-> p, todo |-> s])
<1>1. s \in Seq(Counters)
    BY HeadType
<1> QED
    BY <1>1 DEF MoveOk, TaskStates, Todos

\* The tasks that Count and SetTtl act on.
LEMMA Counting ==
    ASSUME TypeOK, TodoInv, NEW t \in Tasks, task[t].pc \in {"count", "expire"}
    PROVE  /\ Remaining(Todo(t), task[t].platform)
           /\ task[t].platform \in Platforms /\ task[t].platform \in Gate
           /\ Head(Todo(t)) \in Counters
           /\ Head(Todo(t)) = "failed" <=> Todo(t) = <<"failed">>
<1>1. Remaining(Todo(t), task[t].platform) /\ task[t].platform \in Platforms
    BY DEF TodoInv
<1>2. task[t].platform \in Gate
    BY <1>1, NamesAreCounters
<1>3. Head(Todo(t)) \in Counters
    BY <1>1, HeadType
<1>4. Head(Todo(t)) = "failed" => Todo(t) = <<"failed">>
    BY <1>1, HeadType
<1>5. Todo(t) = <<"failed">> => Head(Todo(t)) = "failed"
    BY <1>1, HeadType
<1> QED
    BY <1>1, <1>2, <1>3, <1>4, <1>5

(***************************************************************************)
(* Types                                                                   *)
(***************************************************************************)
LEMMA TypeInit == Init => TypeOK /\ TodoInv
<1>1. <<>> \in Seq(Counters)
    OBVIOUS
<1> QED
    BY <1>1 DEF Init, TypeOK, TodoInv, Idle, TaskStates, Todos, NoPlatform

\* The states a comparison leads to are typed.
LEMMA DecideOk ==
    ASSUME TypeOK, TodoInv, NEW t \in Tasks, task[t].pc \in {"count", "expire"}, NEW n,
           Decide(t, Head(Todo(t)), n)
    PROVE  /\ \E next : /\ MoveOk(next) /\ task' = [task EXCEPT ![t] = next]
                        /\ next.pc \in {"idle", "count"} /\ next.todo # <<"failed">>
           /\ passed' \in [Platforms -> Nat]
<1> DEFINE p == task[t].platform
           next == [pc |-> "count", platform |-> p, todo |-> Tail(Todo(t))]
<1>1. p \in Platforms
    BY Counting
<1>2. passed' \in [Platforms -> Nat]
    <2>1. passed' = passed \/ passed' = [passed EXCEPT ![p] = @ + 1]
        BY DecideEffect
    <2>2. passed \in [Platforms -> Nat]
        BY DEF TypeOK
    <2> QED
        BY <1>1, <2>1, <2>2
<1>3. CASE task' = [task EXCEPT ![t] = Idle]
    <2>1. Idle.pc = "idle" /\ Idle.todo # <<"failed">>
        BY DEF Idle
    <2> QED
        BY <1>2, <1>3, <2>1, IdleOk
<1>4. CASE /\ task' = [task EXCEPT ![t] = next]
           /\ Remaining(Tail(Todo(t)), p) /\ Tail(Todo(t)) # <<"failed">>
    <2>1. MoveOk(next)
        BY <1>1, <1>4, CountsOk
    <2>2. next.pc = "count" /\ next.todo # <<"failed">>
        BY <1>4
    <2> HIDE DEF next
    <2> QED
        BY <1>2, <1>4, <2>1, <2>2
<1> QED
    BY <1>3, <1>4, DecideEffect

\* What Count does: the first count of a counter, a later one, or a failure.
FirstCount(t, k) ==
    /\ count[k] = 0 /\ count' = [count EXCEPT ![k] = 1]
    /\ task' = [task EXCEPT ![t] = [pc |-> "expire", platform |-> task[t].platform, todo |-> Todo(t)]]
    /\ passed' = passed /\ orphaned' = orphaned /\ unread' = unread /\ timed' = timed
LaterCount(t, k) ==
    /\ count[k] > 0 /\ count' = [count EXCEPT ![k] = Bump(k)] /\ Decide(t, k, Bump(k))
    /\ orphaned' = orphaned /\ unread' = unread /\ timed' = timed
FailedCount(t, k) ==
    /\ count' \in {count, [count EXCEPT ![k] = Bump(k)]}
    /\ orphaned' = IF count'[k] = 1 /\ count[k] = 0 THEN orphaned \cup {k} ELSE orphaned
    /\ task' = [task EXCEPT ![t] = Idle]
    /\ passed' = passed /\ unread' = unread /\ timed' = timed

LEMMA CountEffect ==
    ASSUME TypeOK, TodoInv, NEW t \in Tasks, Count(t)
    PROVE  LET k == Head(Todo(t))
           IN  /\ task[t].pc = "count" /\ k \in Counters
               /\ FirstCount(t, k) \/ LaterCount(t, k) \/ FailedCount(t, k)
               /\ failed' \subseteq FaultKinds
<1> DEFINE k == Head(Todo(t))
<1>1. task[t].pc = "count"
    BY DEF Count
<1>2. k \in Counters
    BY <1>1, Counting
<1>3. /\ Bump(k) \in Nat /\ Bump(k) >= count[k] /\ (count[k] = 0 => Bump(k) = 1)
      /\ (count[k] > 0 => Bump(k) # 1) /\ count[k] \in Nat
    <2>1. /\ Bump(k) \in Nat /\ Bump(k) >= count[k] /\ Bump(k) <= count[k] + 1
          /\ (count[k] = 0 => Bump(k) = 1) /\ (Bump(k) <= Limit[k] => Bump(k) = count[k] + 1)
        BY <1>2, BumpType
    <2> QED
        BY <1>2, <2>1, LimitsAreNat DEF TypeOK, Bump
<1>4. failed' \subseteq FaultKinds
    BY FaultsAssumption DEF Count, NoFault, Fault, TypeOK
<1>5. count \in [Counters -> Nat] /\ unread' = unread /\ timed' = timed
    BY DEF TypeOK, Count
<1>6. CASE /\ NoFault /\ count' = [count EXCEPT ![k] = Bump(k)]
           /\ IF count'[k] = 1
              THEN Go(t, "expire", task[t].platform, Todo(t)) /\ UNCHANGED passed
              ELSE Decide(t, k, count'[k])
           /\ UNCHANGED orphaned
    <2>1. count'[k] = Bump(k)
        BY <1>2, <1>5, <1>6
    <2>2. CASE count[k] = 0
        <3>1. Bump(k) = 1
            BY <1>3, <2>2
        <3>2. Go(t, "expire", task[t].platform, Todo(t)) /\ passed' = passed /\ orphaned' = orphaned
            BY <1>6, <2>1, <3>1, Zenon
        <3>3. count' = [count EXCEPT ![k] = 1]
            BY <1>6, <3>1, Zenon
        <3> QED
            BY <1>1, <1>2, <1>4, <1>5, <2>2, <3>2, <3>3, Zenon DEF FirstCount, Go
    <2>3. CASE count[k] > 0
        <3>1. Bump(k) # 1
            BY <1>3, <2>3
        <3>2. Decide(t, k, Bump(k)) /\ orphaned' = orphaned
            BY <1>6, <2>1, <3>1, Zenon
        <3> QED
            BY <1>1, <1>2, <1>4, <1>5, <1>6, <2>3, <3>2, Zenon DEF LaterCount
    <2>4. count[k] = 0 \/ count[k] > 0
        BY <1>3
    <2> QED
        BY <1>1, <1>2, <1>4, <2>2, <2>3, <2>4
<1>7. CASE /\ count' \in {count, [count EXCEPT ![k] = Bump(k)]}
           /\ orphaned' = IF count'[k] = 1 /\ count[k] = 0 THEN orphaned \cup {k} ELSE orphaned
           /\ End(t) /\ UNCHANGED passed
    BY <1>1, <1>2, <1>4, <1>5, <1>7 DEF FailedCount, End
<1> QED
    BY <1>6, <1>7 DEF Count, Todo

\* What SetTtl does: it sets the TTL, or fails to.
SetIt(t, k) ==
    /\ timed' = timed \cup {k} /\ Decide(t, k, 1) /\ orphaned' = orphaned
    /\ count' = count /\ unread' = unread
FailedSet(t, k) ==
    /\ timed' \in {timed, timed \cup {k}}
    /\ orphaned' = IF k \in timed' THEN orphaned ELSE orphaned \cup {k}
    /\ task' = [task EXCEPT ![t] = Idle]
    /\ passed' = passed /\ count' = count /\ unread' = unread

LEMMA SetTtlEffect ==
    ASSUME TypeOK, TodoInv, NEW t \in Tasks, SetTtl(t)
    PROVE  LET k == Head(Todo(t))
           IN  /\ task[t].pc = "expire" /\ k \in Counters
               /\ SetIt(t, k) \/ FailedSet(t, k)
               /\ failed' \subseteq FaultKinds
<1> DEFINE k == Head(Todo(t))
<1>1. task[t].pc = "expire"
    BY DEF SetTtl
<1>2. k \in Counters
    BY <1>1, Counting
<1>3. failed' \subseteq FaultKinds
    BY FaultsAssumption DEF SetTtl, NoFault, Fault, TypeOK
<1>4. SetIt(t, k) \/ FailedSet(t, k)
    BY DEF SetTtl, SetIt, FailedSet, End, Todo
<1> QED
    BY <1>1, <1>2, <1>3, <1>4

\* Types and what is left to count are preserved by every step.
LEMMA TypeStep == TypeOK /\ TodoInv /\ [Next]_vars => TypeOK' /\ TodoInv'
<1> SUFFICES ASSUME TypeOK, TodoInv, [Next]_vars
             PROVE  TypeOK' /\ TodoInv'
    OBVIOUS
<1> DEFINE TaskType == [Tasks -> [pc : TaskStates, platform : Platforms \cup {NoPlatform}, todo : Todos]]
<1>0. /\ count \in [Counters -> Nat] /\ timed \subseteq Counters
      /\ passed \in [Platforms -> Nat] /\ unread \in Nat /\ orphaned \subseteq Counters
      /\ failed \subseteq FaultKinds
    BY DEF TypeOK
<1>1. ASSUME NEW t \in Tasks, NEW p \in Platforms, Verify(t, p)
      PROVE  TypeOK' /\ TodoInv'
    <2>1. task' \in TaskType /\ TodoInv'
        BY <1>1, VerifyOk, Moves DEF Verify, Go
    <2>2. unread' \in Nat /\ failed' \subseteq FaultKinds
        BY <1>0, <1>1, FaultsAssumption DEF Verify, NoFault, Fault
    <2>3. count' = count /\ timed' = timed /\ passed' = passed /\ orphaned' = orphaned
        BY <1>1 DEF Verify, redis
    <2> QED
        BY <1>0, <2>1, <2>2, <2>3 DEF TypeOK
<1>2. ASSUME NEW t \in Tasks, Verdict(t)
      PROVE  TypeOK' /\ TodoInv'
    <2>1. task[t].pc = "verify" /\ task[t].platform \in Platforms
        BY <1>2 DEF Verdict, TodoInv
    <2>2. \E next : MoveOk(next) /\ task' = [task EXCEPT ![t] = next]
        BY <1>2, <2>1, GatesType, CountsOk, IdleOk DEF Verdict, Go, End
    <2>3. task' \in TaskType /\ TodoInv'
        BY <2>2, Moves
    <2>4. /\ count' = count /\ timed' = timed /\ passed' = passed
          /\ orphaned' = orphaned /\ unread' = unread /\ failed' = failed
        BY <1>2 DEF Verdict, redis, ghosts, NoFault
    <2> QED
        BY <1>0, <2>3, <2>4 DEF TypeOK
<1>3. ASSUME NEW t \in Tasks, Count(t)
      PROVE  TypeOK' /\ TodoInv'
    <2> DEFINE k == Head(Todo(t))
    <2>1. /\ task[t].pc = "count" /\ k \in Counters /\ failed' \subseteq FaultKinds
          /\ Remaining(Todo(t), task[t].platform) /\ task[t].platform \in Platforms
          /\ FirstCount(t, k) \/ LaterCount(t, k) \/ FailedCount(t, k)
        BY <1>3, CountEffect, Counting
    <2>2. Bump(k) \in Nat
        BY <2>1, BumpType
    <2>3. CASE FirstCount(t, k)
        <3>1. task' \in TaskType /\ TodoInv'
            BY <2>1, <2>3, CountsOk, Moves DEF FirstCount
        <3> HIDE DEF k
        <3> QED
            BY <1>0, <2>1, <2>3, <3>1 DEF FirstCount, TypeOK
    <2>4. CASE LaterCount(t, k)
        <3>1. /\ task' \in TaskType /\ TodoInv' /\ passed' \in [Platforms -> Nat]
            BY <2>1, <2>4, DecideOk, Moves DEF LaterCount
        <3> HIDE DEF k
        <3> QED
            BY <1>0, <2>1, <2>2, <2>4, <3>1 DEF LaterCount, TypeOK
    <2>5. CASE FailedCount(t, k)
        <3>1. task' \in TaskType /\ TodoInv'
            BY <2>5, IdleOk, Moves DEF FailedCount
        <3> HIDE DEF k
        <3> QED
            BY <1>0, <2>1, <2>2, <2>5, <3>1 DEF FailedCount, TypeOK
    <2> QED
        BY <2>1, <2>3, <2>4, <2>5
<1>4. ASSUME NEW t \in Tasks, SetTtl(t)
      PROVE  TypeOK' /\ TodoInv'
    <2> DEFINE k == Head(Todo(t))
    <2>1. /\ task[t].pc = "expire" /\ k \in Counters /\ failed' \subseteq FaultKinds
          /\ SetIt(t, k) \/ FailedSet(t, k)
        BY <1>4, SetTtlEffect
    <2>2. CASE SetIt(t, k)
        <3>1. /\ task' \in TaskType /\ TodoInv' /\ passed' \in [Platforms -> Nat]
            BY <2>1, <2>2, DecideOk, Moves DEF SetIt
        <3> HIDE DEF k
        <3> QED
            BY <1>0, <2>1, <2>2, <3>1 DEF SetIt, TypeOK
    <2>3. CASE FailedSet(t, k)
        <3>1. task' \in TaskType /\ TodoInv'
            BY <2>3, IdleOk, Moves DEF FailedSet
        <3> HIDE DEF k
        <3> QED
            BY <1>0, <2>1, <2>3, <3>1 DEF FailedSet, TypeOK
    <2> QED
        BY <2>1, <2>2, <2>3
<1>5. ASSUME NEW k \in Counters, WindowEnds(k)
      PROVE  TypeOK' /\ TodoInv'
    <2>1. /\ count' \in [Counters -> Nat] /\ timed' \subseteq Counters /\ passed' \in [Platforms -> Nat]
          /\ task' = task /\ unread' = unread /\ orphaned' = orphaned /\ failed' = failed
        BY <1>0, <1>5 DEF WindowEnds, NoFault
    <2> QED
        BY <2>1 DEF TypeOK, TodoInv, Todo
<1>6. ASSUME Crash
      PROVE  TypeOK' /\ TodoInv'
    <2>0. PICK dropped \in SUBSET Tasks :
             /\ task' = [t \in Tasks |-> IF t \in dropped THEN Idle ELSE task[t]]
             /\ orphaned' = orphaned \cup
                   {k \in Counters : \E t \in dropped : task[t].pc = "expire" /\ Head(task[t].todo) = k}
        BY <1>6 DEF Crash
    <2>a. /\ \A t \in Tasks : task'[t] = IF t \in dropped THEN Idle ELSE task[t]
          /\ \A t \in dropped : task'[t].pc = "idle"
          /\ \A t \in Tasks : task'[t].pc # "idle" => t \notin dropped /\ task'[t] = task[t]
        BY <1>0, <2>0, CrashMoves
    <2>3. task' \in TaskType
        BY <1>0, <2>0, IdleOk DEF TypeOK, MoveOk
    <2>1. task' \in TaskType /\ TodoInv'
        BY <1>0, <2>a, <2>3 DEF TodoInv, Todo, Idle
    <2>2. /\ count' = count /\ timed' = timed /\ passed' = passed /\ unread' = unread
          /\ orphaned' \subseteq Counters /\ failed' \subseteq FaultKinds
        BY <1>0, <1>6, <2>0, FaultsAssumption DEF Crash, redis, Fault, TypeOK
    <2> QED
        BY <1>0, <2>1, <2>2 DEF TypeOK
<1>7. CASE UNCHANGED vars
    BY <1>7 DEF vars, redis, ghosts, TypeOK, TodoInv, Todo
<1> QED
    BY <1>1, <1>2, <1>3, <1>4, <1>5, <1>6, <1>7 DEF Next, TaskNext

(***************************************************************************)
(* The lockout                                                             *)
(***************************************************************************)
LEMMA PendingFinite ==
    /\ IsFiniteSet(Tasks) /\ Cardinality(Tasks) \in Nat /\ Cardinality(Tasks) > 0
    /\ IsFiniteSet(Pending) /\ Cardinality(Pending) \in Nat /\ Cardinality(Pending) <= Cardinality(Tasks)
    /\ IsFiniteSet(Pending') /\ Cardinality(Pending') \in Nat /\ Cardinality(Pending') <= Cardinality(Tasks)
<1>1. IsFiniteSet(Tasks) /\ Cardinality(Tasks) \in Nat /\ Cardinality(Tasks) # 0
    BY TasksAssumption, FS_CardinalityType, FS_EmptySet
<1>2. Pending \subseteq Tasks /\ Pending' \subseteq Tasks
    BY DEF Pending
<1> QED
    BY <1>1, <1>2, FS_Subset, FS_CardinalityType

LEMMA PendingInit == Init => PendingInv
<1> SUFFICES ASSUME Init PROVE PendingInv
    OBVIOUS
<1>1. Pending = {}
    BY DEF Init, Pending, Idle
<1>2. Cardinality(Pending) = 0
    BY <1>1, FS_EmptySet
<1>3. count["failed"] = 0 /\ unread = 0 /\ Limit["failed"] \in Nat
    BY NamesAreCounters, LimitsAreNat DEF Init
<1> QED
    BY <1>2, <1>3, PendingFinite DEF PendingInv

\* A step that lets no one through and counts no failure.
LEMMA PendingQuiet ==
    ASSUME TypeOK, TypeOK', PendingInv, Pending' \subseteq Pending,
           count'["failed"] <= count["failed"], unread' = unread
    PROVE  PendingInv'
<1>1. Cardinality(Pending') <= Cardinality(Pending)
    BY PendingFinite, FS_Subset
<1>2. /\ count["failed"] \in Nat /\ count'["failed"] \in Nat /\ unread \in Nat /\ Limit["failed"] \in Nat
    BY NamesAreCounters, LimitsAreNat DEF TypeOK
<1> QED
    BY <1>1, <1>2, PendingFinite DEF PendingInv

\* Who counts a failure was let through, and no longer is.
LEMMA PendingCounted ==
    ASSUME TypeOK, TypeOK', TodoInv, PendingInv, NEW t \in Tasks, Count(t)
    PROVE  PendingInv'
<1> DEFINE k == Head(Todo(t))
<1>1. /\ task[t].pc = "count" /\ k \in Counters
      /\ FirstCount(t, k) \/ LaterCount(t, k) \/ FailedCount(t, k)
    BY CountEffect
<1>2. k = "failed" => t \in Pending
    BY <1>1, Counting DEF Pending
<1>3. /\ Bump(k) \in Nat /\ Bump(k) <= count[k] + 1 /\ count \in [Counters -> Nat]
      /\ count[k] = 0 => Bump(k) = 1
    BY <1>1, BumpType DEF TypeOK
<1>4. \E next : /\ MoveOk(next) /\ task' = [task EXCEPT ![t] = next]
                /\ next.pc \in {"idle", "count", "expire"}
                /\ next.pc = "count" => next.todo # <<"failed">>
    <2>1. CASE FirstCount(t, k)
        <3> DEFINE next == [pc |-> "expire", platform |-> task[t].platform, todo |-> Todo(t)]
        <3>1. MoveOk(next)
            BY <1>1, Counting, CountsOk
        <3>2. task' = [task EXCEPT ![t] = next] /\ next.pc = "expire"
            BY <2>1 DEF FirstCount
        <3> HIDE DEF next
        <3> QED
            BY <3>1, <3>2
    <2>2. CASE LaterCount(t, k)
        BY <1>1, <2>2, DecideOk DEF LaterCount
    <2>3. CASE FailedCount(t, k)
        <3>1. Idle.pc = "idle"
            BY DEF Idle
        <3> QED
            BY <2>3, <3>1, IdleOk DEF FailedCount
    <2> QED
        BY <1>1, <2>1, <2>2, <2>3
<1>5. Pending' \subseteq Pending \ {t}
    BY <1>4, Moves DEF Pending, Todo
<1>6. /\ unread' = unread
      /\ k # "failed" => count'["failed"] = count["failed"]
      /\ count'["failed"] <= count["failed"] + 1
    <2> HIDE DEF k
    <2>1. unread' = unread /\ count' \in {count, [count EXCEPT ![k] = Bump(k)]}
        BY <1>1, <1>3 DEF FirstCount, LaterCount, FailedCount
    <2> QED
        BY <1>1, <1>3, <2>1, NamesAreCounters
<1>7. CASE k # "failed"
    <2>1. count["failed"] \in Nat
        BY <1>3, NamesAreCounters
    <2> QED
        BY <1>5, <1>6, <1>7, <2>1, PendingQuiet
<1>8. CASE k = "failed"
    <2>1. Cardinality(Pending') <= Cardinality(Pending \ {t})
        BY <1>5, PendingFinite, FS_Subset, FS_RemoveElement
    <2>2. Cardinality(Pending \ {t}) = Cardinality(Pending) - 1
        BY <1>2, <1>8, PendingFinite, FS_RemoveElement
    <2>3. /\ count["failed"] \in Nat /\ count'["failed"] \in Nat /\ unread \in Nat /\ Limit["failed"] \in Nat
        BY NamesAreCounters, LimitsAreNat DEF TypeOK
    <2> QED
        BY <1>6, <2>1, <2>2, <2>3, PendingFinite DEF PendingInv
<1> QED
    BY <1>7, <1>8

\* Who is let through finds less failures than the limit, or could not read them.
LEMMA PendingLetIn ==
    ASSUME TypeOK, TypeOK', TodoInv, PendingInv, NEW t \in Tasks, NEW p \in Platforms, Verify(t, p)
    PROVE  PendingInv'
<1>1. count' = count /\ unread \in Nat /\ count["failed"] \in Nat /\ Limit["failed"] \in Nat
    BY NamesAreCounters, LimitsAreNat DEF Verify, redis, TypeOK
<1>2. CASE count["failed"] < Limit["failed"] /\ unread' = unread
    BY <1>1, <1>2, PendingFinite DEF PendingInv
<1>3. CASE unread' = unread + 1
    <2>1. Pending' \subseteq Pending \cup {t}
        <3> DEFINE next == [pc |-> "verify", platform |-> p, todo |-> <<>>]
        <3>1. \A u \in Tasks \ {t} : task'[u] = task[u]
            BY VerifyOk, Moves DEF Verify, Go
        <3> QED
            BY <3>1 DEF Pending, Todo
    <2>2. /\ IsFiniteSet(Pending \cup {t}) /\ Cardinality(Pending \cup {t}) \in Nat
          /\ Cardinality(Pending \cup {t}) <= Cardinality(Pending) + 1
        <3>1. /\ IsFiniteSet(Pending \cup {t})
              /\ Cardinality(Pending \cup {t})
                    = IF t \in Pending THEN Cardinality(Pending) ELSE Cardinality(Pending) + 1
            BY PendingFinite, FS_AddElement, Zenon
        <3> QED
            BY <3>1, PendingFinite
    <2>3. Cardinality(Pending') <= Cardinality(Pending \cup {t})
        BY <2>1, <2>2, FS_Subset
    <2> QED
        BY <1>1, <1>3, <2>2, <2>3, PendingFinite DEF PendingInv
<1> QED
    BY <1>2, <1>3 DEF Verify

LEMMA PendingStep == TypeOK /\ TypeOK' /\ TodoInv /\ PendingInv /\ [Next]_vars => PendingInv'
<1> SUFFICES ASSUME TypeOK, TypeOK', TodoInv, PendingInv, [Next]_vars
             PROVE  PendingInv'
    OBVIOUS
<1>0. count["failed"] \in Nat /\ "failed" \in Counters /\ count \in [Counters -> Nat]
    BY NamesAreCounters DEF TypeOK
<1>1. ASSUME NEW t \in Tasks, Verdict(t)
      PROVE  PendingInv'
    <2>1. t \in Pending /\ task[t].pc = "verify" /\ count' = count /\ unread' = unread
        BY <1>1 DEF Verdict, Pending, redis, ghosts
    <2>2. \A u \in Tasks \ {t} : task'[u] = task[u]
        BY <1>1 DEF Verdict, Go, End, TypeOK
    <2>3. Pending' \subseteq Pending
        BY <2>1, <2>2 DEF Pending, Todo
    <2> QED
        BY <1>0, <2>1, <2>3, PendingQuiet
<1>2. ASSUME NEW t \in Tasks, SetTtl(t)
      PROVE  PendingInv'
    <2> DEFINE k == Head(Todo(t))
    <2>1. /\ task[t].pc = "expire" /\ k \in Counters
          /\ SetIt(t, k) \/ FailedSet(t, k)
        BY <1>2, SetTtlEffect
    <2>2. count' = count /\ unread' = unread
        BY <1>2 DEF SetTtl
    <2>3. \E next : /\ MoveOk(next) /\ task' = [task EXCEPT ![t] = next]
                    /\ next.pc \in {"idle", "count"} /\ next.todo # <<"failed">>
        <3>1. CASE SetIt(t, k)
            <4>1. Decide(t, Head(Todo(t)), 1) /\ task[t].pc \in {"count", "expire"}
                BY <2>1, <3>1 DEF SetIt
            <4> QED
                BY <4>1, DecideOk
        <3>2. CASE FailedSet(t, k)
            <4>1. Idle.pc = "idle" /\ Idle.todo # <<"failed">>
                BY DEF Idle
            <4> QED
                BY <3>2, <4>1, IdleOk DEF FailedSet
        <3> QED
            BY <2>1, <3>1, <3>2
    <2>4. Pending' \subseteq Pending
        BY <2>3, Moves DEF Pending, Todo
    <2> QED
        BY <1>0, <2>2, <2>4, PendingQuiet
<1>3. ASSUME NEW k \in Counters, WindowEnds(k)
      PROVE  PendingInv'
    <2>1. /\ Pending' = Pending /\ unread' = unread /\ count'["failed"] <= count["failed"]
        BY <1>0, <1>3 DEF WindowEnds, Pending, Todo
    <2> QED
        BY <2>1, PendingQuiet
<1>4. ASSUME Crash
      PROVE  PendingInv'
    <2>0. PICK dropped \in SUBSET Tasks :
             /\ task' = [t \in Tasks |-> IF t \in dropped THEN Idle ELSE task[t]]
             /\ orphaned' = orphaned \cup
                   {k \in Counters : \E t \in dropped : task[t].pc = "expire" /\ Head(task[t].todo) = k}
        BY <1>4 DEF Crash
    <2>a. /\ \A t \in Tasks : task'[t] = IF t \in dropped THEN Idle ELSE task[t]
          /\ \A t \in dropped : task'[t].pc = "idle"
          /\ \A t \in Tasks : task'[t].pc # "idle" => t \notin dropped /\ task'[t] = task[t]
        BY <1>0, <2>0, CrashMoves
    <2>1. Pending' \subseteq Pending /\ unread' = unread /\ count' = count
        BY <1>4, <2>a DEF Crash, Pending, Todo, redis
    <2> QED
        BY <1>0, <2>1, PendingQuiet
<1>5. CASE UNCHANGED vars
    <2>1. Pending' = Pending /\ unread' = unread /\ count' = count
        BY <1>5 DEF vars, redis, ghosts, Pending, Todo
    <2> QED
        BY <1>0, <2>1, PendingQuiet
<1> QED
    BY <1>1, <1>2, <1>3, <1>4, <1>5, PendingCounted, PendingLetIn DEF Next, TaskNext

(***************************************************************************)
(* The hours of the counters                                               *)
(***************************************************************************)
\* A verification moves, and had no TTL to set and has none.
LEMMA AboutKept ==
    ASSUME TypeOK, TodoInv, NEW t \in Tasks, task[t].pc # "expire",
           NEW next, MoveOk(next), next.pc # "expire", task' = [task EXCEPT ![t] = next]
    PROVE  \A j \in Counters : /\ \A u \in Tasks : About(u, j)' <=> About(u, j)
                               /\ Expiring(j)' <=> Expiring(j)
<1>1. task'[t] = next /\ \A u \in Tasks \ {t} : task'[u] = task[u]
    BY Moves
<1>2. \A j \in Counters, u \in Tasks : About(u, j)' <=> About(u, j)
    BY <1>1 DEF About, Todo
<1> QED
    BY <1>2 DEF Expiring, About, Todo

\* A verification is about to set a TTL.
LEMMA AboutNew ==
    ASSUME TypeOK, TodoInv, NEW t \in Tasks, task[t].pc = "count",
           NEW next, MoveOk(next), next.pc = "expire", next.todo = Todo(t), task' = [task EXCEPT ![t] = next]
    PROVE  LET k == Head(Todo(t))
           IN  \A j \in Counters : /\ \A u \in Tasks : About(u, j)' <=> About(u, j) \/ (u = t /\ j = k)
                                   /\ Expiring(j)' <=> Expiring(j) \/ j = k
<1> DEFINE k == Head(Todo(t))
<1>1. task'[t] = next /\ \A u \in Tasks \ {t} : task'[u] = task[u]
    BY Moves
<1>2. \A j \in Counters, u \in Tasks : About(u, j)' <=> About(u, j) \/ (u = t /\ j = k)
    BY <1>1 DEF About, Todo
<1> QED
    BY <1>2 DEF Expiring, About, Todo

\* A verification was the one about to set a TTL, and no longer is.
LEMMA AboutGone ==
    ASSUME TypeOK, TodoInv, TimedInv, NEW t \in Tasks, task[t].pc = "expire",
           NEW next, MoveOk(next), next.pc # "expire", task' = [task EXCEPT ![t] = next]
    PROVE  LET k == Head(Todo(t))
           IN  /\ Expiring(k) /\ k \in Counters
               /\ \A j \in Counters : /\ \A u \in Tasks : About(u, j)' <=> About(u, j) /\ j # k
                                      /\ Expiring(j)' <=> Expiring(j) /\ j # k
<1> DEFINE k == Head(Todo(t))
<1>1. task'[t] = next /\ \A u \in Tasks \ {t} : task'[u] = task[u]
    BY Moves
<1>2. About(t, k) /\ k \in Counters /\ \A u \in Tasks : About(u, k) => u = t
    BY Counting DEF About, TimedInv
<1>3. \A j \in Counters, u \in Tasks : About(u, j)' <=> About(u, j) /\ j # k
    BY <1>1, <1>2 DEF About, Todo
<1> QED
    BY <1>2, <1>3 DEF Expiring, About, Todo

\* What comes after a comparison or a failure has no TTL to set.
LEMMA DecideMoves ==
    ASSUME TypeOK, TodoInv, NEW t \in Tasks, task[t].pc \in {"count", "expire"}, NEW n,
           Decide(t, Head(Todo(t)), n) \/ task' = [task EXCEPT ![t] = Idle]
    PROVE  \E next : MoveOk(next) /\ next.pc # "expire" /\ task' = [task EXCEPT ![t] = next]
<1>1. Idle.pc # "expire"
    BY DEF Idle
<1> QED
    BY <1>1, DecideOk, IdleOk

\* What comes after the verdict has no TTL to set either.
LEMMA VerdictMoves ==
    ASSUME TypeOK, TodoInv, NEW t \in Tasks, Verdict(t)
    PROVE  /\ task[t].pc # "expire"
           /\ \E next : MoveOk(next) /\ next.pc # "expire" /\ task' = [task EXCEPT ![t] = next]
<1>1. task[t].pc = "verify" /\ task[t].platform \in Platforms
    BY DEF Verdict, TodoInv
<1>2. Idle.pc # "expire"
    BY DEF Idle
<1> QED
    BY <1>1, <1>2, GatesType, CountsOk, IdleOk DEF Verdict, Go, End

HoursInv == TimedInv /\ CountersAreTimed

\* A step that sets no TTL and moves no count away from 0.
LEMMA HoursQuiet ==
    ASSUME TypeOK, TypeOK', HoursInv, timed' = timed, orphaned \subseteq orphaned',
           \A j \in Counters : /\ count'[j] >= count[j]
                               /\ count'[j] > 0 => count[j] > 0 \/ j \in orphaned'
                               /\ \A u \in Tasks : About(u, j)' <=> About(u, j)
                               /\ Expiring(j)' <=> Expiring(j)
    PROVE  HoursInv'
<1>1. \A j \in Counters : count[j] \in Nat /\ count'[j] \in Nat
    BY DEF TypeOK
<1>2. TimedInv'
    BY <1>1 DEF HoursInv, TimedInv
<1>3. CountersAreTimed'
    BY <1>1 DEF HoursInv, CountersAreTimed
<1> QED
    BY <1>2, <1>3 DEF HoursInv

LEMMA HoursInit == Init => HoursInv
BY DEF Init, HoursInv, TimedInv, CountersAreTimed, Expiring, About, Idle

LEMMA HoursCounted ==
    ASSUME TypeOK, TypeOK', TodoInv, HoursInv, NEW t \in Tasks, Count(t)
    PROVE  HoursInv'
<1> DEFINE k == Head(Todo(t))
<1>1. /\ task[t].pc = "count" /\ k \in Counters
      /\ FirstCount(t, k) \/ LaterCount(t, k) \/ FailedCount(t, k)
    BY CountEffect
<1>2. /\ Bump(k) \in Nat /\ Bump(k) >= count[k] /\ (count[k] = 0 => Bump(k) = 1)
      /\ count \in [Counters -> Nat] /\ \A j \in Counters : count[j] \in Nat
    BY <1>1, BumpType DEF TypeOK
<1>3. CASE FirstCount(t, k)
    <2> DEFINE next == [pc |-> "expire", platform |-> task[t].platform, todo |-> Todo(t)]
    <2>1. MoveOk(next) /\ task' = [task EXCEPT ![t] = next]
        BY <1>1, <1>3, Counting, CountsOk DEF FirstCount
    <2>2. next.pc = "expire" /\ next.todo = Todo(t)
        OBVIOUS
    <2>3. \A j \in Counters : /\ \A u \in Tasks : About(u, j)' <=> About(u, j) \/ (u = t /\ j = k)
                              /\ Expiring(j)' <=> Expiring(j) \/ j = k
        <3> HIDE DEF next
        <3> QED
            BY <1>1, <2>1, <2>2, AboutNew
    <2> HIDE DEF k
    <2>4. k \notin timed /\ ~Expiring(k) /\ \A u \in Tasks : ~About(u, k)
        <3>1. count[k] = 0
            BY <1>3 DEF FirstCount
        <3>2. k \notin timed /\ ~Expiring(k)
            BY <1>1, <3>1 DEF HoursInv, TimedInv
        <3> QED
            BY <3>2 DEF Expiring, About, Todo
    <2>5. /\ count'[k] = 1 /\ (\A j \in Counters \ {k} : count'[j] = count[j])
          /\ timed' = timed /\ orphaned' = orphaned
        BY <1>1, <1>2, <1>3 DEF FirstCount
    <2>6. TimedInv'
        BY <1>2, <2>3, <2>4, <2>5 DEF HoursInv, TimedInv
    <2>7. CountersAreTimed'
        BY <1>2, <2>3, <2>4, <2>5 DEF HoursInv, CountersAreTimed
    <2> QED
        BY <2>6, <2>7 DEF HoursInv
<1>4. CASE LaterCount(t, k) \/ FailedCount(t, k)
    <2>1. \A j \in Counters : /\ \A u \in Tasks : About(u, j)' <=> About(u, j)
                              /\ Expiring(j)' <=> Expiring(j)
        BY <1>1, <1>4, DecideMoves, AboutKept DEF LaterCount, FailedCount
    <2> HIDE DEF k
    <2>2. timed' = timed /\ orphaned \subseteq orphaned'
        BY <1>4 DEF LaterCount, FailedCount
    <2>3. \A j \in Counters : count'[j] >= count[j] /\ (count'[j] > 0 => count[j] > 0 \/ j \in orphaned')
        <3>1. CASE LaterCount(t, k)
            BY <1>1, <1>2, <3>1 DEF LaterCount
        <3>2. CASE FailedCount(t, k)
            BY <1>1, <1>2, <3>2 DEF FailedCount
        <3> QED
            BY <1>4, <3>1, <3>2
    <2> QED
        BY <2>1, <2>2, <2>3, HoursQuiet
<1> QED
    BY <1>1, <1>3, <1>4

LEMMA HoursSet ==
    ASSUME TypeOK, TypeOK', TodoInv, HoursInv, NEW t \in Tasks, SetTtl(t)
    PROVE  HoursInv'
<1> DEFINE k == Head(Todo(t))
<1>1. /\ task[t].pc = "expire" /\ k \in Counters
      /\ SetIt(t, k) \/ FailedSet(t, k)
    BY SetTtlEffect
<1>2. /\ Expiring(k)
      /\ \A j \in Counters : /\ \A u \in Tasks : About(u, j)' <=> About(u, j) /\ j # k
                             /\ Expiring(j)' <=> Expiring(j) /\ j # k
    <2>1. Decide(t, Head(Todo(t)), 1) \/ task' = [task EXCEPT ![t] = Idle]
        BY <1>1 DEF SetIt, FailedSet
    <2>2. PICK next : MoveOk(next) /\ next.pc # "expire" /\ task' = [task EXCEPT ![t] = next]
        BY <1>1, <2>1, DecideMoves
    <2> QED
        BY <1>1, <2>2, AboutGone DEF HoursInv
<1> HIDE DEF k
<1>3. /\ count' = count /\ timed \subseteq timed' /\ timed' \subseteq timed \cup {k}
      /\ orphaned \subseteq orphaned' /\ (k \in timed' \/ k \in orphaned')
    BY <1>1 DEF SetIt, FailedSet
<1>4. \A j \in Counters : count[j] \in Nat
    BY DEF TypeOK
<1>5. TimedInv'
    BY <1>1, <1>2, <1>3, <1>4 DEF HoursInv, TimedInv
<1>6. CountersAreTimed'
    BY <1>1, <1>2, <1>3, <1>4 DEF HoursInv, CountersAreTimed
<1> QED
    BY <1>5, <1>6 DEF HoursInv

LEMMA HoursStep == TypeOK /\ TypeOK' /\ TodoInv /\ HoursInv /\ [Next]_vars => HoursInv'
<1> SUFFICES ASSUME TypeOK, TypeOK', TodoInv, HoursInv, [Next]_vars
             PROVE  HoursInv'
    OBVIOUS
<1>0. \A j \in Counters : count[j] \in Nat
    BY DEF TypeOK
<1>1. ASSUME NEW t \in Tasks, NEW p \in Platforms, Verify(t, p)
      PROVE  HoursInv'
    <2> DEFINE next == [pc |-> "verify", platform |-> p, todo |-> <<>>]
    <2>1. MoveOk(next) /\ next.pc # "expire" /\ task' = [task EXCEPT ![t] = next] /\ task[t].pc = "idle"
        BY <1>1, VerifyOk DEF Verify, Go
    <2> HIDE DEF next
    <2>2. \A j \in Counters : /\ \A u \in Tasks : About(u, j)' <=> About(u, j)
                              /\ Expiring(j)' <=> Expiring(j)
        BY <2>1, AboutKept
    <2>3. count' = count /\ timed' = timed /\ orphaned' = orphaned
        BY <1>1 DEF Verify, redis
    <2> QED
        BY <1>0, <2>2, <2>3, HoursQuiet
<1>2. ASSUME NEW t \in Tasks, Verdict(t)
      PROVE  HoursInv'
    <2>1. \A j \in Counters : /\ \A u \in Tasks : About(u, j)' <=> About(u, j)
                              /\ Expiring(j)' <=> Expiring(j)
        BY <1>2, VerdictMoves, AboutKept
    <2>2. count' = count /\ timed' = timed /\ orphaned' = orphaned
        BY <1>2 DEF Verdict, redis, ghosts
    <2> QED
        BY <1>0, <2>1, <2>2, HoursQuiet
<1>3. ASSUME NEW k \in Counters, WindowEnds(k)
      PROVE  HoursInv'
    <2>1. /\ k \in timed /\ timed' = timed \ {k} /\ task' = task /\ orphaned' = orphaned
          /\ count'[k] = 0 /\ \A j \in Counters \ {k} : count'[j] = count[j]
        BY <1>3 DEF WindowEnds, TypeOK
    <2>2. \A j \in Counters : /\ \A u \in Tasks : About(u, j)' <=> About(u, j)
                              /\ Expiring(j)' <=> Expiring(j)
        BY <2>1 DEF About, Expiring, Todo
    <2>3. TimedInv'
        BY <1>0, <2>1, <2>2 DEF HoursInv, TimedInv
    <2>4. CountersAreTimed'
        BY <1>0, <2>1, <2>2 DEF HoursInv, CountersAreTimed
    <2> QED
        BY <2>3, <2>4 DEF HoursInv
<1>4. ASSUME Crash
      PROVE  HoursInv'
    <2>0. PICK dropped \in SUBSET Tasks :
             /\ task' = [t \in Tasks |-> IF t \in dropped THEN Idle ELSE task[t]]
             /\ orphaned' = orphaned \cup
                   {k \in Counters : \E t \in dropped : task[t].pc = "expire" /\ Head(task[t].todo) = k}
        BY <1>4 DEF Crash
    <2>a. /\ \A t \in Tasks : task'[t] = IF t \in dropped THEN Idle ELSE task[t]
          /\ \A t \in dropped : task'[t].pc = "idle"
          /\ \A t \in Tasks : task'[t].pc # "idle" => t \notin dropped /\ task'[t] = task[t]
        BY <1>0, <2>0, CrashMoves
    <2>1. count' = count /\ timed' = timed
        BY <1>4 DEF Crash, redis
    <2>2. \A j \in Counters : \A u \in Tasks : About(u, j)' => About(u, j) /\ u \notin dropped
        BY <2>a DEF About, Todo
    <2>3. \A j \in Counters : Expiring(j)' => Expiring(j)
        BY <2>a DEF Expiring
    <2>4. TimedInv'
        BY <1>0, <2>1, <2>2, <2>3 DEF HoursInv, TimedInv
    <2>5. \A j \in Counters : Expiring(j) => Expiring(j)' \/ j \in orphaned'
        BY <2>0, <2>a DEF Expiring
    <2>6. CountersAreTimed'
        BY <1>0, <2>0, <2>1, <2>5 DEF HoursInv, CountersAreTimed
    <2> QED
        BY <2>4, <2>6 DEF HoursInv
<1>5. CASE UNCHANGED vars
    <2>1. /\ count' = count /\ timed' = timed /\ orphaned' = orphaned /\ task' = task
        BY <1>5 DEF vars, redis, ghosts
    <2>2. \A j \in Counters : /\ \A u \in Tasks : About(u, j)' <=> About(u, j)
                              /\ Expiring(j)' <=> Expiring(j)
        BY <2>1 DEF About, Expiring, Todo
    <2> QED
        BY <1>0, <2>1, <2>2, HoursQuiet
<1> QED
    BY <1>1, <1>2, <1>3, <1>4, <1>5, HoursCounted, HoursSet DEF Next, TaskNext

(***************************************************************************)
(* The hourly limits                                                       *)
(***************************************************************************)
LEMMA PassInit == Init => PassInv
<1> SUFFICES ASSUME Init PROVE PassInv
    OBVIOUS
<1>1. \A p \in Platforms : p \in Counters /\ Limit[p] \in Nat
    BY NamesAreCounters, LimitsAreNat DEF Gate
<1>2. \A p \in Platforms : passed[p] = 0 /\ count[p] = 0 /\ Undecided(p) = 0
    BY <1>1 DEF Init, Undecided, Expiring, Idle
<1> QED
    BY <1>1, <1>2 DEF PassInv

\* The numbers of a platform.
LEMMA PassTypes ==
    ASSUME TypeOK, TypeOK', NEW p \in Platforms
    PROVE  /\ p \in Counters /\ Limit[p] \in Nat /\ count[p] \in Nat /\ count'[p] \in Nat
           /\ passed[p] \in Nat /\ passed'[p] \in Nat
           /\ Undecided(p) \in 0..1 /\ Undecided(p)' \in 0..1
<1>1. p \in Counters /\ Limit[p] \in Nat
    BY NamesAreCounters, LimitsAreNat DEF Gate
<1> QED
    BY <1>1 DEF TypeOK, Undecided

\* Nothing passes, nothing is left undecided that was not, and nothing is uncounted.
LEMMA PassQuiet ==
    ASSUME TypeOK, TypeOK', PassInv,
           \A p \in Platforms : /\ passed'[p] = passed[p] /\ count'[p] >= count[p]
                                /\ Undecided(p)' <= Undecided(p)
    PROVE  PassInv'
<1>1. ASSUME NEW p \in Platforms
      PROVE  /\ passed'[p] + Undecided(p)' <= count'[p]
             /\ IF Limit[p] = 0 THEN passed'[p] = 0 ELSE passed'[p] + Undecided(p)' <= Limit[p]
    BY PassTypes DEF PassInv
<1> QED
    BY <1>1 DEF PassInv

LEMMA PassCounted ==
    ASSUME TypeOK, TypeOK', TodoInv, HoursInv, PassInv, NEW t \in Tasks, Count(t)
    PROVE  PassInv'
<1> DEFINE k == Head(Todo(t))
<1>1. /\ task[t].pc = "count" /\ k \in Counters
      /\ FirstCount(t, k) \/ LaterCount(t, k) \/ FailedCount(t, k)
    BY CountEffect
<1>2. /\ Bump(k) \in Nat /\ Bump(k) >= count[k] /\ (count[k] = 0 => Bump(k) = 1)
      /\ (Bump(k) <= Limit[k] => Bump(k) = count[k] + 1)
      /\ count \in [Counters -> Nat] /\ passed \in [Platforms -> Nat] /\ Platforms \subseteq Counters
    BY <1>1, BumpType, NamesAreCounters DEF TypeOK, Gate
<1>3. CASE FirstCount(t, k)
    <2> DEFINE next == [pc |-> "expire", platform |-> task[t].platform, todo |-> Todo(t)]
    <2>1. MoveOk(next) /\ task' = [task EXCEPT ![t] = next]
        BY <1>1, <1>3, Counting, CountsOk DEF FirstCount
    <2>2. next.pc = "expire" /\ next.todo = Todo(t)
        OBVIOUS
    <2>3. \A j \in Counters : Expiring(j)' <=> Expiring(j) \/ j = k
        <3> HIDE DEF next
        <3> QED
            BY <1>1, <2>1, <2>2, AboutNew
    <2> HIDE DEF k
    <2>4. count[k] = 0 /\ count'[k] = 1 /\ passed' = passed /\ \A j \in Counters \ {k} : count'[j] = count[j]
        BY <1>1, <1>2, <1>3 DEF FirstCount
    <2>5. ASSUME NEW p \in Platforms
          PROVE  /\ passed'[p] + Undecided(p)' <= count'[p]
                 /\ IF Limit[p] = 0 THEN passed'[p] = 0 ELSE passed'[p] + Undecided(p)' <= Limit[p]
        <3>1. CASE p = k
            <4>1. passed[p] = 0
                BY <2>4, <3>1, PassTypes DEF PassInv
            <4> QED
                BY <2>4, <3>1, <4>1, PassTypes
        <3>2. CASE p # k
            <4>1. Undecided(p)' = Undecided(p)
                BY <1>2, <2>3, <3>2 DEF Undecided
            <4> QED
                BY <1>2, <2>4, <3>2, <4>1 DEF PassInv
        <3> QED
            BY <3>1, <3>2
    <2> QED
        BY <2>5 DEF PassInv
<1>4. CASE LaterCount(t, k) \/ FailedCount(t, k)
    <2>1. \A j \in Counters : Expiring(j)' <=> Expiring(j)
        BY <1>1, <1>4, DecideMoves, AboutKept DEF LaterCount, FailedCount
    <2>2. \A p \in Platforms : Undecided(p)' = Undecided(p)
        BY <1>2, <2>1 DEF Undecided
    <2>3. CASE passed' = passed
        <3> HIDE DEF k
        <3>1. \A p \in Platforms : count'[p] >= count[p]
            BY <1>1, <1>2, <1>4 DEF LaterCount, FailedCount
        <3> QED
            BY <2>2, <2>3, <3>1, PassTypes, PassQuiet
    <2>4. CASE LaterCount(t, k) /\ passed' # passed
        <3>1. k \in Platforms /\ ~(Bump(k) > Limit[k]) /\ passed' = [passed EXCEPT ![k] = @ + 1]
            BY <1>1, <2>4, DecideEffect, Counting DEF LaterCount
        <3> HIDE DEF k
        <3>2. /\ count'[k] = Bump(k) /\ count[k] > 0 /\ Bump(k) = count[k] + 1
              /\ \A j \in Counters \ {k} : count'[j] = count[j]
              /\ passed'[k] = passed[k] + 1 /\ \A p \in Platforms \ {k} : passed'[p] = passed[p]
            BY <1>1, <1>2, <2>4, <3>1, LimitsAreNat DEF LaterCount
        <3>3. ASSUME NEW p \in Platforms
              PROVE  /\ passed'[p] + Undecided(p)' <= count'[p]
                     /\ IF Limit[p] = 0 THEN passed'[p] = 0 ELSE passed'[p] + Undecided(p)' <= Limit[p]
            <4>1. CASE p = k
                BY <2>2, <3>1, <3>2, <4>1, PassTypes DEF PassInv
            <4>2. CASE p # k
                BY <1>2, <2>2, <3>2, <4>2 DEF PassInv
            <4> QED
                BY <4>1, <4>2
        <3> QED
            BY <3>3 DEF PassInv
    <2> QED
        BY <1>4, <2>3, <2>4 DEF FailedCount
<1> QED
    BY <1>1, <1>3, <1>4

LEMMA PassSet ==
    ASSUME TypeOK, TypeOK', TodoInv, HoursInv, PassInv, NEW t \in Tasks, SetTtl(t)
    PROVE  PassInv'
<1> DEFINE k == Head(Todo(t))
<1>1. /\ task[t].pc = "expire" /\ k \in Counters
      /\ SetIt(t, k) \/ FailedSet(t, k)
    BY SetTtlEffect
<1>2. count' = count /\ passed \in [Platforms -> Nat]
    BY <1>1 DEF SetIt, FailedSet, TypeOK
<1>3. Expiring(k) /\ \A j \in Counters : Expiring(j)' <=> Expiring(j) /\ j # k
    <2>1. Decide(t, Head(Todo(t)), 1) \/ task' = [task EXCEPT ![t] = Idle]
        BY <1>1 DEF SetIt, FailedSet
    <2>2. PICK next : MoveOk(next) /\ next.pc # "expire" /\ task' = [task EXCEPT ![t] = next]
        BY <1>1, <2>1, DecideMoves
    <2> QED
        BY <1>1, <2>2, AboutGone DEF HoursInv
<1>4. \A p \in Platforms : /\ p = k => Undecided(p) = 1 /\ Undecided(p)' = 0
                           /\ p # k => Undecided(p)' = Undecided(p)
    <2>1. \A p \in Platforms : p \in Counters
        BY NamesAreCounters DEF Gate
    <2> HIDE DEF k
    <2> QED
        BY <1>3, <2>1 DEF Undecided
<1>5. CASE passed' = passed
    <2> HIDE DEF k
    <2>1. \A p \in Platforms : Undecided(p)' <= Undecided(p) /\ count'[p] >= count[p]
        BY <1>2, <1>4, PassTypes
    <2> QED
        BY <1>5, <2>1, PassQuiet
<1>6. CASE SetIt(t, k) /\ passed' # passed
    <2>1. k \in Platforms /\ ~(1 > Limit[k]) /\ passed' = [passed EXCEPT ![k] = @ + 1]
        <3>1. Decide(t, Head(Todo(t)), 1) /\ task[t].pc \in {"count", "expire"}
            BY <1>1, <1>6 DEF SetIt
        <3> QED
            BY <1>6, <3>1, DecideEffect, Counting
    <2> HIDE DEF k
    <2>2. ASSUME NEW p \in Platforms
          PROVE  /\ passed'[p] + Undecided(p)' <= count'[p]
                 /\ IF Limit[p] = 0 THEN passed'[p] = 0 ELSE passed'[p] + Undecided(p)' <= Limit[p]
        <3>1. CASE p = k
            BY <1>2, <1>4, <2>1, <3>1, PassTypes DEF PassInv
        <3>2. CASE p # k
            BY <1>2, <1>4, <2>1, <3>2 DEF PassInv
        <3> QED
            BY <3>1, <3>2
    <2> QED
        BY <2>2 DEF PassInv
<1> QED
    BY <1>1, <1>5, <1>6 DEF FailedSet

LEMMA PassStep == TypeOK /\ TypeOK' /\ TodoInv /\ HoursInv /\ PassInv /\ [Next]_vars => PassInv'
<1> SUFFICES ASSUME TypeOK, TypeOK', TodoInv, HoursInv, PassInv, [Next]_vars
             PROVE  PassInv'
    OBVIOUS
<1>0. \A p \in Platforms : p \in Counters
    BY NamesAreCounters DEF Gate
<1>1. ASSUME count' = count, passed' = passed, \A j \in Counters : Expiring(j)' => Expiring(j)
      PROVE  PassInv'
    <2>1. \A p \in Platforms : Undecided(p)' <= Undecided(p)
        BY <1>0, <1>1 DEF Undecided
    <2> QED
        BY <1>1, <2>1, PassTypes, PassQuiet
<1>2. ASSUME NEW t \in Tasks, NEW p \in Platforms, Verify(t, p)
      PROVE  PassInv'
    <2> DEFINE next == [pc |-> "verify", platform |-> p, todo |-> <<>>]
    <2>1. MoveOk(next) /\ next.pc # "expire" /\ task' = [task EXCEPT ![t] = next] /\ task[t].pc = "idle"
        BY <1>2, VerifyOk DEF Verify, Go
    <2> HIDE DEF next
    <2>2. \A j \in Counters : Expiring(j)' => Expiring(j)
        BY <2>1, AboutKept
    <2> QED
        BY <1>1, <1>2, <2>2 DEF Verify, redis
<1>3. ASSUME NEW t \in Tasks, Verdict(t)
      PROVE  PassInv'
    <2>2. \A j \in Counters : Expiring(j)' => Expiring(j)
        BY <1>3, VerdictMoves, AboutKept
    <2> QED
        BY <1>1, <1>3, <2>2 DEF Verdict, redis, ghosts
<1>4. ASSUME NEW k \in Counters, WindowEnds(k)
      PROVE  PassInv'
    <2>1. \A j \in Counters : Expiring(j)' <=> Expiring(j)
        BY <1>4 DEF WindowEnds, Expiring
    <2>2. ~Expiring(k)
        BY <1>4 DEF WindowEnds, HoursInv, TimedInv
    <2>3. ASSUME NEW p \in Platforms
          PROVE  /\ passed'[p] + Undecided(p)' <= count'[p]
                 /\ IF Limit[p] = 0 THEN passed'[p] = 0 ELSE passed'[p] + Undecided(p)' <= Limit[p]
        <3>1. Undecided(p)' = Undecided(p)
            BY <1>0, <2>1 DEF Undecided
        <3>2. CASE p = k
            <4>1. Undecided(p)' = 0 /\ passed'[p] = 0 /\ count'[p] = 0
                BY <1>0, <1>4, <2>2, <3>1, <3>2 DEF WindowEnds, Undecided, TypeOK
            <4> QED
                BY <4>1, PassTypes
        <3>3. CASE p # k
            <4>1. passed'[p] = passed[p] /\ count'[p] = count[p]
                BY <1>0, <1>4, <3>3 DEF WindowEnds, TypeOK
            <4> QED
                BY <3>1, <4>1 DEF PassInv
        <3> QED
            BY <3>2, <3>3
    <2> QED
        BY <2>3 DEF PassInv
<1>5. ASSUME Crash
      PROVE  PassInv'
    <2>0. PICK dropped \in SUBSET Tasks :
             /\ task' = [t \in Tasks |-> IF t \in dropped THEN Idle ELSE task[t]]
             /\ orphaned' = orphaned \cup
                   {k \in Counters : \E t \in dropped : task[t].pc = "expire" /\ Head(task[t].todo) = k}
        BY <1>5 DEF Crash
    <2>a. /\ \A t \in Tasks : task'[t] = IF t \in dropped THEN Idle ELSE task[t]
          /\ \A t \in dropped : task'[t].pc = "idle"
          /\ \A t \in Tasks : task'[t].pc # "idle" => t \notin dropped /\ task'[t] = task[t]
        BY <1>0, <2>0, CrashMoves
    <2>1. \A j \in Counters : Expiring(j)' => Expiring(j)
        BY <2>a DEF Expiring
    <2> QED
        BY <1>1, <1>5, <2>1 DEF Crash, redis
<1>6. CASE UNCHANGED vars
    <2>1. \A j \in Counters : Expiring(j)' <=> Expiring(j)
        BY <1>6 DEF vars, Expiring
    <2> QED
        BY <1>1, <1>6, <2>1 DEF vars, redis, ghosts
<1> QED
    BY <1>2, <1>3, <1>4, <1>5, <1>6, PassCounted, PassSet DEF Next, TaskNext

(***************************************************************************)
(* Theorems                                                                *)
(***************************************************************************)
\* Every behaviour of the service keeps the inductive invariant, whatever the
\* verifications, the limits and the failures are.
THEOREM Safety == Spec => []SafetyInv
<1>1. Init => SafetyInv
    BY TypeInit, PendingInit, HoursInit, PassInit DEF SafetyInv, HoursInv
<1>2. SafetyInv /\ [Next]_vars => SafetyInv'
    BY TypeStep, PendingStep, HoursStep, PassStep DEF SafetyInv, HoursInv
<1> QED
    BY <1>1, <1>2, PTL DEF Spec

\* The counters stay counts, and a verification meets nothing but counters.
THEOREM TypeCorrect == Spec => []TypeOK
<1>1. SafetyInv => TypeOK
    BY DEF SafetyInv
<1> QED
    BY <1>1, Safety, PTL

\* check_client_lockout and track_failed_integrity: the failures of an identity
\* exceed the limit by no more than one for each other verification that runs,
\* and one for each time the counter could not be read.
THEOREM FailuresBounded == Spec => []FailuresAreBounded
<1>1. SafetyInv => FailuresAreBounded
    <2>1. ASSUME SafetyInv PROVE FailuresAreBounded
        <3>1. count["failed"] \in Nat /\ unread \in Nat /\ Limit["failed"] \in Nat
            BY <2>1, NamesAreCounters, LimitsAreNat DEF SafetyInv, TypeOK
        <3>2. PendingInv
            BY <2>1 DEF SafetyInv
        <3> QED
            BY <3>1, <3>2, PendingFinite DEF PendingInv, FailuresAreBounded
    <2> QED
        BY <2>1
<1> QED
    BY <1>1, Safety, PTL

\* check_integrity_rate_limit: within an hour a platform passes no more
\* verifications than its limit.
THEOREM PassesBounded == Spec => []PassesAreBounded
<1>1. SafetyInv => PassesAreBounded
    <2>1. ASSUME SafetyInv, NEW p \in Platforms PROVE passed[p] <= Limit[p]
        <3>1. p \in Counters /\ Limit[p] \in Nat /\ passed[p] \in Nat /\ Undecided(p) \in 0..1
            BY <2>1, NamesAreCounters, LimitsAreNat DEF SafetyInv, TypeOK, Gate, Undecided
        <3> QED
            BY <2>1, <3>1 DEF SafetyInv, PassInv
    <2> QED
        BY <2>1 DEF PassesAreBounded
<1> QED
    BY <1>1, Safety, PTL

\* INCR and EXPIRE are two commands, and yet no interleaving leaves a counter
\* without its hour: only a failure or a crash between the two does.
THEOREM CountersTimed == Spec => []CountersAreTimed
<1>1. SafetyInv => CountersAreTimed
    BY DEF SafetyInv
<1> QED
    BY <1>1, Safety, PTL

===============================================================================
