-------------------------- MODULE UsageMetricsProofs --------------------------
(***************************************************************************)
(* NothingLost, NothingDoubled, QuotaHolds and UntimedIsKnown of           *)
(* UsageMetrics hold for any number of requests, servers, keys and         *)
(* failures. None is inductive. A flusher that deletes a hash must know    *)
(* that PostgreSQL has all of it (SeenIsAll of what it has read,           *)
(* CreditIsAll of what it has committed), and that no other holds the same *)
(* counts; a quota must reckon with the requests that were let through.    *)
(***************************************************************************)
EXTENDS UsageMetrics, FiniteSetTheorems, TLAPS

AddsAField == \A t \in Tasks : task[t].at = "add" => task[t].left # <<>>

\* What a flusher read is what the hash still holds.
SeenIsAll ==
    \A f \in Flushers : fl[f].at \in {"read", "commit"} =>
       \A id \in fl[f].batch \ (late \cup gone) : \A c \in Fields :
          hash[id][c] <= fl[f].seen[id][c]

\* What a flusher committed is what was counted.
CreditIsAll ==
    \A f \in Flushers : fl[f].at \in {"untrack", "delete"} =>
       \A id \in fl[f].batch \ (late \cup gone) : \A c \in Fields :
          counted[id][c] <= pg[id][c]

CurIsHeld ==
    \A f \in Flushers :
       /\ fl[f].at = "delete" => fl[f].cur \subseteq fl[f].batch
       /\ fl[f].at \in {"idle", "down"} => fl[f].batch = {}

-------------------------------------------------------------------------------
(***************************************************************************)
(* Types.                                                                  *)
(***************************************************************************)
LEMMA FieldsOfKind ==
    ASSUME NEW kind \in Kinds
    PROVE  FieldsOf[kind] \in Seq(Fields) /\ FieldsOf[kind] # <<>>
<1>1. kind \in {"sent", "received", "proof", "limited"} BY KindsAssumption DEF FieldsOf
<1>2. \A i \in DOMAIN FieldsOf[kind] : FieldsOf[kind][i] \in Fields BY DEF Fields
<1>3. \E a, b : FieldsOf[kind] = <<a, b>> \/ FieldsOf[kind] = <<a>>
  BY <1>1 DEF FieldsOf
<1>4. PICK a, b : FieldsOf[kind] = <<a, b>> \/ FieldsOf[kind] = <<a>> BY <1>3
<1>5. CASE FieldsOf[kind] = <<a, b>>
  <2>1. a \in Fields /\ b \in Fields BY <1>2, <1>5
  <2>. QED BY <2>1, <1>5
<1>6. CASE FieldsOf[kind] = <<a>>
  <2>1. a \in Fields BY <1>2, <1>6
  <2>. QED BY <2>1, <1>6
<1>. QED BY <1>4, <1>5, <1>6

LEMMA JobType ==
    ASSUME NEW k \in Keys, NEW kind \in Kinds
    PROVE  Job(k, kind) \in TaskStates /\ Job(k, kind).at # "add"
<1>1. 0 \in Hours BY BoundsAssumption DEF Hours
<1>2. <<>> \in Seq(Fields) OBVIOUS
<1>. QED BY <1>1, <1>2 DEF Job, TaskStates

LEMMA TaskFields ==
    ASSUME TypeOK, NEW t \in Tasks, task[t] # NoTask
    PROVE  /\ task[t].key \in Keys /\ task[t].kind \in Kinds /\ task[t].hour \in Hours
           /\ task[t].left \in Seq(Fields)
           /\ task[t].at \in {"month", "track", "add", "expire"}
BY DEF TypeOK, TaskStates

LEMMA BusyTask ==
    ASSUME TypeOK, NEW t \in Tasks, task[t].at # "none"
    PROVE  task[t] # NoTask
BY DEF NoTask

LEMMA DownType == Down \in FlusherStates /\ Up \in FlusherStates
<1>1. [id \in Hashes |-> Zero] \in [Hashes -> Counts] BY DEF Zero, Counts
<1>. QED BY <1>1 DEF Down, Up, FlusherStates

LEMMA FlusherFields ==
    ASSUME TypeOK, NEW f \in Flushers
    PROVE  /\ fl[f] \in FlusherStates
           /\ fl[f].todo \subseteq Hashes /\ fl[f].batch \subseteq Hashes
           /\ fl[f].cur \subseteq Hashes /\ fl[f].seen \in [Hashes -> Counts]
BY DEF TypeOK, FlusherStates

LEMMA InitType == Init => TypeOK /\ AddsAField
<1>. SUFFICES ASSUME Init PROVE TypeOK /\ AddsAField OBVIOUS
<1>1. [id \in Hashes |-> Zero] \in [Hashes -> Counts] BY DEF Zero, Counts
<1>2. TypeOK BY <1>1, DownType, BoundsAssumption DEF Init, TypeOK, TaskStates, Hours
<1>3. AddsAField BY DEF Init, AddsAField, NoTask
<1>. QED BY <1>2, <1>3

LEMMA BreakType ==
    ASSUME TypeOK, AddsAField, NEW t \in Tasks, task[t].at # "none", Break(t)
    PROVE  /\ task' \in [Tasks -> TaskStates] /\ AddsAField' /\ faults' \in 0..MaxFaults
<1>1. /\ task[t].key \in Keys /\ task[t].kind \in Kinds BY BusyTask, TaskFields
<1>2. Job(task[t].key, task[t].kind) \in TaskStates /\ Job(task[t].key, task[t].kind).at # "add"
  BY <1>1, JobType
<1>3. faults' \in 0..MaxFaults BY BoundsAssumption DEF Break, Fault, TypeOK
<1>4. NoTask \in TaskStates /\ NoTask.at # "add" BY DEF TaskStates, NoTask
<1>5. \E new \in TaskStates : new.at # "add" /\ task' = [task EXCEPT ![t] = new]
  <2>1. CASE task' = [task EXCEPT ![t] = NoTask] BY <2>1, <1>4
  <2>2. CASE task' = [task EXCEPT ![t] = Job(@.key, @.kind)] BY <2>2, <1>2 DEF TypeOK
  <2>. QED BY <2>1, <2>2 DEF Break
<1>. QED BY <1>3, <1>5 DEF TypeOK, AddsAField

LEMMA IncrementType ==
    ASSUME TypeOK, AddsAField, NEW t \in Tasks, Increment(t)
    PROVE  TypeOK' /\ AddsAField'
<1>1. CASE CountMonth(t)
  <2>0. task[t].at = "month" /\ task[t].at # "none" BY <1>1 DEF CountMonth
  <2>1. /\ task[t] # NoTask /\ task[t].key \in Keys /\ task[t] \in TaskStates
    BY <2>0, BusyTask, TaskFields DEF TypeOK
  <2>2. [month EXCEPT ![task[t].key] = @ + 1] \in [Keys -> Nat] BY <2>1 DEF TypeOK
  <2>3. month' \in [Keys -> Nat] BY <1>1, <2>2 DEF CountMonth, TypeOK
  <2>4. CASE Goto(t, "track")
    <3>1. [task[t] EXCEPT !.at = "track"] \in TaskStates BY <2>1 DEF TaskStates, NoTask
    <3>2. task' \in [Tasks -> TaskStates] BY <2>4, <3>1 DEF Goto, TypeOK
    <3>3. AddsAField' BY <2>4, <2>1 DEF Goto, AddsAField, TypeOK, TaskStates, NoTask
    <3>. QED BY <1>1, <2>3, <2>4, <3>2, <3>3 DEF CountMonth, Goto, NoFault, TypeOK, ghosts
  <2>5. CASE Break(t)
    <3>1. task' \in [Tasks -> TaskStates] /\ AddsAField' /\ faults' \in 0..MaxFaults
      BY <2>5, <2>0, BreakType
    <3>. QED BY <1>1, <2>3, <3>1 DEF CountMonth, TypeOK, ghosts
  <2>. QED BY <1>1, <2>4, <2>5 DEF CountMonth
<1>2. CASE Track(t)
  <2>0. task[t].at = "track" /\ task[t].at # "none" BY <1>2 DEF Track
  <2>1. /\ task[t] # NoTask /\ task[t].key \in Keys /\ task[t].kind \in Kinds
        /\ task[t] \in TaskStates
    BY <2>0, BusyTask, TaskFields DEF TypeOK
  <2>2. <<task[t].key, now>> \in Hashes BY <2>1 DEF TypeOK, Hashes
  <2>3. tracked' \subseteq Hashes BY <1>2, <2>2 DEF Track, TypeOK
  <2>4. CASE Break(t)
    <3>1. task' \in [Tasks -> TaskStates] /\ AddsAField' /\ faults' \in 0..MaxFaults
      BY <2>4, <2>0, BreakType
    <3>. QED BY <1>2, <2>3, <3>1 DEF Track, TypeOK, ghosts
  <2>5. CASE ~Break(t)
    <3>1. FieldsOf[task[t].kind] \in Seq(Fields) /\ FieldsOf[task[t].kind] # <<>>
      BY <2>1, FieldsOfKind
    <3>2. now \in Hours BY DEF TypeOK
    <3>3. [task[t] EXCEPT !.at = "add", !.hour = now, !.left = FieldsOf[task[t].kind]]
             \in TaskStates
      BY <2>1, <3>1, <3>2 DEF TaskStates, NoTask
    <3>4. /\ NoFault
          /\ task' = [task EXCEPT ![t] = [task[t] EXCEPT !.at = "add", !.hour = now,
                                                         !.left = FieldsOf[task[t].kind]]]
      BY <1>2, <2>5 DEF Track, TypeOK
    <3>5. task' \in [Tasks -> TaskStates] BY <3>3, <3>4 DEF TypeOK
    <3>6. AddsAField' BY <3>1, <3>4, <2>1 DEF AddsAField, TypeOK, TaskStates, NoTask
    <3>. QED BY <1>2, <2>3, <3>4, <3>5, <3>6 DEF Track, NoFault, TypeOK, ghosts
  <2>. QED BY <2>4, <2>5
<1>3. CASE Add(t)
  <2>0. task[t].at = "add" /\ task[t].at # "none" BY <1>3 DEF Add
  <2>1. /\ task[t] # NoTask /\ task[t] \in TaskStates /\ Id(t) \in Hashes
        /\ task[t].left \in Seq(Fields) /\ task[t].left # <<>>
    BY <2>0, BusyTask, TaskFields DEF TypeOK, AddsAField, Id, Hashes
  <2>2. Head(task[t].left) \in Fields /\ Tail(task[t].left) \in Seq(Fields)
        /\ Len(Tail(task[t].left)) = Len(task[t].left) - 1
    BY <2>1
  <2>3. hash' \in [Hashes -> Counts] /\ counted' \in [Hashes -> Counts] /\ late' \subseteq Hashes
    <3>1. CASE Incremented(t)
      <4>1. \A g \in [Hashes -> Counts] :
               [g EXCEPT ![Id(t)][Head(task[t].left)] = @ + 1] \in [Hashes -> Counts]
        BY <2>1, <2>2 DEF Counts
      <4>2. late' \subseteq Hashes BY <3>1, <2>1 DEF Incremented, TypeOK
      <4>. QED BY <3>1, <4>1, <4>2 DEF Incremented, TypeOK
    <3>2. CASE UNCHANGED <<hash, counted, late>> BY <3>2 DEF TypeOK
    <3>. QED BY <1>3, <3>1, <3>2 DEF Add
  <2>4. CASE Break(t)
    <3>1. task' \in [Tasks -> TaskStates] /\ AddsAField' /\ faults' \in 0..MaxFaults
      BY <2>4, <2>0, BreakType
    <3>. QED BY <1>3, <2>3, <3>1 DEF Add, TypeOK
  <2>5. CASE ~Break(t)
    <3>. DEFINE new == [task[t] EXCEPT !.left = Tail(task[t].left),
                          !.at = IF Len(task[t].left) = 1 THEN "expire" ELSE "add"]
    <3>1. new \in TaskStates BY <2>1, <2>2 DEF TaskStates, NoTask
    <3>2. NoFault /\ task' = [task EXCEPT ![t] = new] BY <1>3, <2>5 DEF Add, TypeOK
    <3>3. new.at = "add" => new.left # <<>>
      <4>1. new.left = Tail(task[t].left) /\ (new.at = "add" => Len(task[t].left) # 1)
        BY <2>1 DEF TaskStates, NoTask
      <4>2. Len(task[t].left) \in Nat /\ Len(task[t].left) # 0 BY <2>1
      <4>3. Len(<<>>) = 0 OBVIOUS
      <4>4. CASE new.at = "add"
        <5>1. Len(task[t].left) # 1 BY <4>1, <4>4
        <5>2. Len(Tail(task[t].left)) # 0 BY <5>1, <4>2, <2>2
        <5>3. Tail(task[t].left) # <<>> BY <5>2, <4>3, Zenon
        <5>. QED BY <5>3, <4>1
      <4>. QED BY <4>4
    <3>. HIDE DEF new
    <3>4. task' \in [Tasks -> TaskStates] BY <3>1, <3>2 DEF TypeOK
    <3>5. AddsAField' BY <3>2, <3>3 DEF AddsAField, TypeOK
    <3>. QED BY <1>3, <2>3, <3>2, <3>4, <3>5 DEF Add, NoFault, TypeOK
  <2>. QED BY <2>4, <2>5
<1>4. CASE Expire(t)
  <2>0. task[t].at = "expire" /\ task[t].at # "none" BY <1>4 DEF Expire
  <2>2. now + TtlHours \in Nat BY BatchAssumption, BoundsAssumption DEF TypeOK, Hours
  <2>3. due' \in [Hashes -> {Never} \cup Nat]
    <3>1. [due EXCEPT ![Id(t)] = now + TtlHours] \in [Hashes -> {Never} \cup Nat]
      BY <2>2 DEF TypeOK
    <3>. QED BY <1>4, <3>1 DEF Expire, TypeOK
  <2>4. CASE Break(t)
    <3>1. task' \in [Tasks -> TaskStates] /\ AddsAField' /\ faults' \in 0..MaxFaults
      BY <2>4, <2>0, BreakType
    <3>. QED BY <1>4, <2>3, <3>1 DEF Expire, TypeOK, ghosts
  <2>5. CASE ~Break(t)
    <3>1. NoFault /\ task' = [task EXCEPT ![t] = NoTask] BY <1>4, <2>5 DEF Expire
    <3>2. task' \in [Tasks -> TaskStates] /\ AddsAField'
      BY <3>1 DEF TypeOK, TaskStates, AddsAField, NoTask
    <3>. QED BY <1>4, <2>3, <3>1, <3>2 DEF Expire, NoFault, TypeOK, ghosts
  <2>. QED BY <2>4, <2>5
<1>. QED BY <1>1, <1>2, <1>3, <1>4 DEF Increment

LEMMA FaultType ==
    ASSUME TypeOK, Fault \/ NoFault
    PROVE  faults' \in 0..MaxFaults
BY BoundsAssumption DEF Fault, NoFault, TypeOK

LEMMA RemovedType ==
    ASSUME TypeOK, NEW ids, Removed(ids)
    PROVE  /\ hash' \in [Hashes -> Counts] /\ marked' \subseteq Hashes
           /\ due' \in [Hashes -> {Never} \cup Nat] /\ credited' \subseteq Hashes
<1>1. Zero \in Counts BY DEF Zero, Counts
<1>. QED BY <1>1 DEF Removed, TypeOK

LEMMA CreditType ==
    ASSUME TypeOK, NEW f \in Flushers, Credit(f)
    PROVE  pg' \in [Hashes -> Counts] /\ credited' \subseteq Hashes
<1>1. fl[f].seen \in [Hashes -> Counts] /\ fl[f].batch \subseteq Hashes BY FlusherFields
<1>2. \A id \in Hashes : [c \in Fields |-> pg[id][c] + fl[f].seen[id][c]] \in Counts
  BY <1>1 DEF TypeOK, Counts
<1>3. pg' \in [Hashes -> Counts] BY <1>2 DEF Credit, TypeOK
<1>. QED BY <1>1, <1>3 DEF Credit, TypeOK

LEMMA FlusherType ==
    ASSUME TypeOK, NEW f \in Flushers,
           Flush(f) \/ Tick(f) \/ Shutdown(f) \/ Restart(f) \/ Crash(f)
    PROVE  TypeOK'
<1>0. /\ fl[f] \in FlusherStates /\ fl[f].todo \subseteq Hashes /\ fl[f].batch \subseteq Hashes
      /\ fl[f].cur \subseteq Hashes /\ fl[f].seen \in [Hashes -> Counts]
  BY FlusherFields
<1>d. Down \in FlusherStates /\ Up \in FlusherStates BY DownType
<1>f. \A new \in FlusherStates :
         fl' = [fl EXCEPT ![f] = new] => fl' \in [Flushers -> FlusherStates]
  BY DEF TypeOK
<1>1. ASSUME NEW all \in BOOLEAN, Start(f, all) PROVE TypeOK'
  <2>1. marked' \subseteq Hashes /\ due' \in [Hashes -> {Never} \cup Nat]
    BY <1>1 DEF Start, RecoverOrphans, TypeOK
  <2>2. Eligible(all) \subseteq Hashes BY DEF Eligible, TypeOK
  <2>3. [fl[f] EXCEPT !.at = "read", !.all = all, !.todo = Eligible(all)] \in FlusherStates
    BY <1>0, <2>2 DEF FlusherStates
  <2>4. fl' \in [Flushers -> FlusherStates]
    <3>1. CASE fl' = [fl EXCEPT ![f].at = "read", ![f].all = all, ![f].todo = Eligible(all)]
      BY <3>1, <2>3 DEF TypeOK
    <3>2. CASE fl' = [fl EXCEPT ![f] = IF all THEN Down ELSE Up]
      BY <3>2, <1>d, <1>f
    <3>. QED BY <1>1, <3>1, <3>2 DEF Start
  <2>5. faults' \in 0..MaxFaults BY <1>1, FaultType DEF Start
  <2>. QED BY <1>1, <2>1, <2>4, <2>5 DEF Start, TypeOK, ghosts
<1>2. CASE Read(f)
  <2>1. PICK id \in fl[f].todo :
           /\ marked' \subseteq marked \cup {id} /\ reread' \subseteq reread \cup {id}
           /\ fl' = [fl EXCEPT ![f] = Taken(f, id)] \/ fl' = [fl EXCEPT ![f].todo = @ \ {id}]
    BY <1>2 DEF Read
  <2>2. id \in Hashes /\ hash[id] \in Counts BY <1>0 DEF TypeOK
  <2>3. [fl[f].seen EXCEPT ![id] = hash[id]] \in [Hashes -> Counts] BY <1>0, <2>2
  <2>4. fl' \in [Flushers -> FlusherStates]
    <3>1. CASE fl' = [fl EXCEPT ![f] = Taken(f, id)]
      <4>1. Taken(f, id) \in FlusherStates BY <1>0, <2>2, <2>3 DEF FlusherStates, Taken
      <4>. QED BY <3>1, <4>1, <1>f
    <3>2. CASE fl' = [fl EXCEPT ![f].todo = @ \ {id}]
      BY <3>2, <1>0 DEF TypeOK, FlusherStates
    <3>. QED BY <2>1, <3>1, <3>2
  <2>5. faults' \in 0..MaxFaults BY <1>2, FaultType DEF Read
  <2>6. marked' \subseteq Hashes /\ reread' \subseteq Hashes BY <2>1, <2>2 DEF TypeOK
  <2>. QED BY <1>2, <2>4, <2>5, <2>6 DEF Read, TypeOK
<1>3. CASE Commit(f)
  <2>1. pg' \in [Hashes -> Counts] /\ credited' \subseteq Hashes
    <3>1. CASE Credit(f) BY <3>1, CreditType
    <3>2. CASE UNCHANGED <<pg, credited>> BY <3>2 DEF TypeOK
    <3>. QED BY <1>3, <3>1, <3>2 DEF Commit
  <2>2. fl' \in [Flushers -> FlusherStates]
    <3>1. CASE fl' = [fl EXCEPT ![f].at = "untrack"] BY <3>1, <1>0 DEF TypeOK, FlusherStates
    <3>2. CASE fl' = [fl EXCEPT ![f].at = "read", ![f].batch = {}, ![f].seen = Down.seen]
      <4>1. Down.seen \in [Hashes -> Counts] BY <1>d DEF FlusherStates
      <4>2. [fl[f] EXCEPT !.at = "read", !.batch = {}, !.seen = Down.seen] \in FlusherStates
        BY <1>0, <4>1 DEF FlusherStates
      <4>. QED BY <3>2, <4>2 DEF TypeOK
    <3>. QED BY <1>3, <3>1, <3>2 DEF Commit
  <2>3. faults' \in 0..MaxFaults BY <1>3, FaultType DEF Commit
  <2>. QED BY <1>3, <2>1, <2>2, <2>3 DEF Commit, TypeOK, redis
<1>4. CASE Untrack(f)
  <2>1. PICK id \in fl[f].batch : fl' = [fl EXCEPT ![f].at = "delete", ![f].cur = {id}]
    BY <1>4 DEF Untrack
  <2>2. [fl[f] EXCEPT !.at = "delete", !.cur = {id}] \in FlusherStates
    BY <1>0 DEF FlusherStates
  <2>3. fl' \in [Flushers -> FlusherStates] BY <2>1, <2>2 DEF TypeOK
  <2>4. faults' \in 0..MaxFaults /\ tracked' \subseteq Hashes
    BY <1>4, FaultType DEF Untrack, TypeOK
  <2>. QED BY <1>4, <2>3, <2>4 DEF Untrack, TypeOK, ghosts
<1>5. CASE Delete(f)
  <2>1. Zero \in Counts BY DEF Zero, Counts
  <2>2. Drained(f) \in FlusherStates
    <3>. DEFINE seen == [id \in Hashes |->
                           IF id \in fl[f].batch \ fl[f].cur THEN fl[f].seen[id] ELSE Zero]
    <3>1. seen \in [Hashes -> Counts] BY <1>0, <2>1
    <3>. QED BY <1>0, <3>1 DEF FlusherStates, Drained
  <2>5. fl' \in [Flushers -> FlusherStates] BY <1>5, <2>2, <1>f DEF Delete
  <2>6. /\ hash' \in [Hashes -> Counts] /\ marked' \subseteq Hashes
        /\ due' \in [Hashes -> {Never} \cup Nat] /\ credited' \subseteq Hashes
    <3>1. CASE Removed(fl[f].cur) BY <3>1, RemovedType
    <3>2. CASE UNCHANGED <<hash, marked, due, credited>> BY <3>2 DEF TypeOK
    <3>. QED BY <1>5, <3>1, <3>2 DEF Delete
  <2>7. faults' \in 0..MaxFaults BY <1>5, FaultType DEF Delete
  <2>. QED BY <1>5, <2>5, <2>6, <2>7 DEF Delete, TypeOK
<1>6. CASE Return(f)
  <2>1. fl' \in [Flushers -> FlusherStates] BY <1>6, <1>d, <1>f DEF Return, After
  <2>. QED BY <1>6, <2>1 DEF Return, NoFault, TypeOK, redis, ghosts
<1>7. CASE Restart(f)
  <2>1. fl' \in [Flushers -> FlusherStates] BY <1>7, <1>d, <1>f DEF Restart
  <2>. QED BY <1>7, <2>1 DEF Restart, NoFault, TypeOK, redis, ghosts
<1>8. CASE Crash(f)
  <2>1. fl' \in [Flushers -> FlusherStates] BY <1>8, <1>d, <1>f DEF Crash
  <2>2. faults' \in 0..MaxFaults BY <1>8, FaultType DEF Crash
  <2>. QED BY <1>8, <2>1, <2>2 DEF Crash, TypeOK, redis, ghosts
<1>. QED BY <1>1, <1>2, <1>3, <1>4, <1>5, <1>6, <1>7, <1>8 DEF Flush, Tick, Shutdown

LEMMA TypeStep ==
    ASSUME TypeOK, AddsAField, [Next]_vars
    PROVE  TypeOK' /\ AddsAField'
<1>1. ASSUME NEW t \in Tasks, Validate(t) PROVE TypeOK' /\ AddsAField'
  <2>1. \/ \E new \in TaskStates : new.at # "add" /\ task' = [task EXCEPT ![t] = new]
        \/ task' = task
    <3>1. ASSUME NEW k \in Keys, NEW kind \in Kinds, task' = [task EXCEPT ![t] = Job(k, kind)]
          PROVE  \E new \in TaskStates : new.at # "add" /\ task' = [task EXCEPT ![t] = new]
      BY <3>1, JobType
    <3>2. CASE task' = task
      BY <3>2 DEF TaskStates
    <3>. QED BY <1>1, <3>1, <3>2, KindsAssumption DEF Validate
  <2>2. begun' \in 0..MaxRequests BY <1>1, BoundsAssumption DEF Validate, TypeOK
  <2>3. task' \in [Tasks -> TaskStates] /\ AddsAField' BY <2>1 DEF TypeOK, AddsAField
  <2>. QED BY <1>1, <2>2, <2>3 DEF Validate, NoFault, TypeOK, redis, ghosts
<1>2. ASSUME NEW t \in Tasks, Increment(t) PROVE TypeOK' /\ AddsAField'
  BY <1>2, IncrementType
<1>3. ASSUME NEW t \in Tasks, CrashTask(t) PROVE TypeOK' /\ AddsAField'
  <2>1. faults' \in 0..MaxFaults BY <1>3, FaultType DEF CrashTask
  <2>2. task' \in [Tasks -> TaskStates] /\ AddsAField'
    BY <1>3 DEF CrashTask, TypeOK, TaskStates, AddsAField, NoTask
  <2>. QED BY <1>3, <2>1, <2>2 DEF CrashTask, TypeOK, redis, ghosts
<1>4. ASSUME NEW f \in Flushers, Flush(f) \/ Tick(f) \/ Shutdown(f) \/ Restart(f) \/ Crash(f)
      PROVE TypeOK' /\ AddsAField'
  <2>1. UNCHANGED task
    BY <1>4 DEF Flush, Tick, Shutdown, Start, Read, Commit, Untrack, Delete, Return, Restart, Crash
  <2>. QED BY <1>4, <2>1, FlusherType DEF AddsAField
<1>5. ASSUME NEW id \in Hashes, Expires(id) PROVE TypeOK' /\ AddsAField'
  <2>1. /\ hash' \in [Hashes -> Counts] /\ marked' \subseteq Hashes
        /\ due' \in [Hashes -> {Never} \cup Nat] /\ credited' \subseteq Hashes
    BY <1>5, RemovedType DEF Expires, Vanish
  <2>. QED BY <1>5, <2>1 DEF Expires, Vanish, NoFault, TypeOK, AddsAField
<1>6. CASE Restore
  <2>1. Missing \subseteq Hashes /\ now + 48 \in Nat BY DEF Missing, TypeOK, Hours
  <2>2. hash' \in [Hashes -> Counts] BY <1>6 DEF Restore, TypeOK
  <2>3. due' \in [Hashes -> {Never} \cup Nat] BY <1>6, <2>1 DEF Restore, TypeOK
  <2>4. faults' \in 0..MaxFaults BY <1>6, FaultType DEF Restore
  <2>. QED BY <1>6, <2>1, <2>2, <2>3, <2>4 DEF Restore, TypeOK, AddsAField
<1>7. CASE HourEnds
  <2>1. now' \in Hours BY <1>7, BoundsAssumption DEF HourEnds, TypeOK, Hours
  <2>. QED BY <1>7, <2>1 DEF HourEnds, NoFault, TypeOK, AddsAField, redis, ghosts
<1>8. CASE Wipe
  <2>1. /\ hash' \in [Hashes -> Counts] /\ marked' \subseteq Hashes
        /\ due' \in [Hashes -> {Never} \cup Nat] /\ credited' \subseteq Hashes
    BY <1>8, RemovedType DEF Wipe, Vanish
  <2>2. faults' \in 0..MaxFaults BY <1>8, FaultType DEF Wipe
  <2>. QED BY <1>8, <2>1, <2>2 DEF Wipe, Vanish, TypeOK, AddsAField
<1>9. CASE UNCHANGED vars BY <1>9 DEF vars, redis, ghosts, TypeOK, AddsAField
<1>. QED BY <1>1, <1>2, <1>3, <1>4, <1>5, <1>6, <1>7, <1>8, <1>9 DEF Next

-------------------------------------------------------------------------------
(***************************************************************************)
(* Nothing is lost.                                                        *)
(***************************************************************************)
Safe == NothingLost /\ SeenIsAll /\ CreditIsAll /\ CurIsHeld

LEMMA SafeFrame ==
    ASSUME Safe, UNCHANGED <<hash, pg, counted, late, gone, fl>>
    PROVE  Safe'
BY DEF Safe, NothingLost, SeenIsAll, CreditIsAll, CurIsHeld

\* A number of a hash, a row or a batch.
LEMMA Numbers ==
    ASSUME TypeOK, NEW id \in Hashes, NEW c \in Fields
    PROVE  /\ hash[id][c] \in Nat /\ pg[id][c] \in Nat /\ counted[id][c] \in Nat
           /\ \A f \in Flushers : fl[f].seen[id][c] \in Nat
<1>1. \A f \in Flushers : fl[f].seen \in [Hashes -> Counts] BY FlusherFields
<1>. QED BY <1>1 DEF TypeOK, Counts

LEMMA IncrementedSafe ==
    ASSUME TypeOK, Safe, NEW t \in Tasks, Incremented(t), UNCHANGED <<pg, gone, fl>>
    PROVE  Safe'
<1>. DEFINE i == Id(t)
            d == Head(task[t].left)
<1>1. /\ hash' = [hash EXCEPT ![i][d] = @ + 1] /\ counted' = [counted EXCEPT ![i][d] = @ + 1]
      /\ late' = IF Held(i) THEN late \cup {i} ELSE late
  BY DEF Incremented
<1>. HIDE DEF i, d
<1>2. \A id \in Hashes, c \in Fields :
         \/ hash'[id][c] = hash[id][c] /\ counted'[id][c] = counted[id][c]
         \/ id = i /\ hash'[id][c] = hash[id][c] + 1 /\ counted'[id][c] = counted[id][c] + 1
  BY <1>1 DEF TypeOK, Counts
<1>3. late \subseteq late' BY <1>1
<1>4. \A f \in Flushers : i \in fl[f].batch => i \in late' BY <1>1 DEF Held
<1>5. NothingLost'
  <2>1. ASSUME NEW id \in Hashes \ (late' \cup gone'), NEW c \in Fields
        PROVE  counted'[id][c] <= pg'[id][c] + hash'[id][c]
    <3>1. counted[id][c] <= pg[id][c] + hash[id][c] BY <2>1, <1>3 DEF Safe, NothingLost
    <3>2. hash[id][c] \in Nat /\ pg[id][c] \in Nat /\ counted[id][c] \in Nat BY Numbers
    <3>3. pg'[id][c] = pg[id][c] OBVIOUS
    <3>4. \/ hash'[id][c] = hash[id][c] /\ counted'[id][c] = counted[id][c]
          \/ hash'[id][c] = hash[id][c] + 1 /\ counted'[id][c] = counted[id][c] + 1
      BY <1>2
    <3>. QED BY <3>1, <3>2, <3>3, <3>4
  <2>. QED BY <2>1 DEF NothingLost
<1>6. ASSUME NEW f \in Flushers, NEW id \in fl[f].batch \ (late' \cup gone'), NEW c \in Fields
      PROVE  hash'[id][c] = hash[id][c] /\ counted'[id][c] = counted[id][c]
  <2>1. id # i BY <1>4, <1>6
  <2>2. id \in Hashes BY FlusherFields
  <2>. QED BY <2>1, <2>2, <1>2
<1>7. SeenIsAll' BY <1>3, <1>6 DEF Safe, SeenIsAll
<1>8. CreditIsAll' BY <1>3, <1>6 DEF Safe, CreditIsAll
<1>9. CurIsHeld' BY DEF Safe, CurIsHeld
<1>. QED BY <1>5, <1>7, <1>8, <1>9 DEF Safe

\* Hashes that lose nothing, or say so in gone.
LEMMA VanishSafe ==
    ASSUME TypeOK, Safe, NEW ids, Vanish(ids), UNCHANGED <<pg, counted, late, fl>>
    PROVE  Safe'
<1>1. \A id \in Hashes : id \notin gone' => hash'[id] = hash[id] BY DEF Vanish, Removed
<1>2. gone \subseteq gone' BY DEF Vanish
<1>3. \A f \in Flushers : fl[f].batch \subseteq Hashes BY FlusherFields
<1>4. NothingLost' BY <1>1, <1>2 DEF Safe, NothingLost
<1>5. SeenIsAll' BY <1>1, <1>2, <1>3 DEF Safe, SeenIsAll
<1>6. CreditIsAll' BY <1>2 DEF Safe, CreditIsAll
<1>7. CurIsHeld' BY DEF Safe, CurIsHeld
<1>. QED BY <1>4, <1>5, <1>6, <1>7 DEF Safe

LEMMA RestoreSafe == ASSUME TypeOK, Safe, Restore PROVE Safe'
<1>1. \A id \in Hashes : id \notin gone' =>
         hash'[id] = hash[id] \/ (id \in Missing /\ hash[id] = Zero /\ ~Held(id))
  BY DEF Restore
<1>2. gone \subseteq gone' /\ UNCHANGED <<pg, counted, late, fl>> BY DEF Restore
<1>3. \A f \in Flushers : fl[f].batch \subseteq Hashes BY FlusherFields
<1>4. NothingLost'
  <2>1. ASSUME NEW id \in Hashes \ (late' \cup gone'), NEW c \in Fields
        PROVE  counted'[id][c] <= pg'[id][c] + hash'[id][c]
    <3>1. counted[id][c] <= pg[id][c] + hash[id][c] BY <1>2, <2>1 DEF Safe, NothingLost
    <3>2. hash[id][c] \in Nat /\ pg[id][c] \in Nat /\ counted[id][c] \in Nat BY Numbers
    <3>3. CASE hash'[id] = hash[id] BY <3>1, <3>3, <1>2
    <3>4. CASE id \in Missing /\ hash[id] = Zero
      <4>1. hash'[id][c] = pg[id][c] BY <3>4 DEF Restore
      <4>2. hash[id][c] = 0 BY <3>4 DEF Zero
      <4>. QED BY <3>1, <3>2, <4>1, <4>2, <1>2
    <3>. QED BY <1>1, <2>1, <3>3, <3>4
  <2>. QED BY <2>1 DEF NothingLost
<1>5. SeenIsAll'
  <2>1. ASSUME NEW f \in Flushers, NEW id \in fl[f].batch, id \notin gone'
        PROVE  hash'[id] = hash[id]
    BY <2>1, <1>1, <1>3 DEF Held
  <2>. QED BY <2>1, <1>2 DEF Safe, SeenIsAll
<1>6. CreditIsAll' BY <1>2 DEF Safe, CreditIsAll
<1>7. CurIsHeld' BY <1>2 DEF Safe, CurIsHeld
<1>. QED BY <1>4, <1>5, <1>6, <1>7 DEF Safe

LEMMA ReadSafe == ASSUME TypeOK, Safe, NEW f \in Flushers, Read(f) PROVE Safe'
<1>1. PICK id \in fl[f].todo :
         fl' = [fl EXCEPT ![f] = Taken(f, id)] \/ fl' = [fl EXCEPT ![f].todo = @ \ {id}]
  BY DEF Read
<1>2. UNCHANGED <<hash, pg, counted, late, gone>> /\ fl[f].at = "read" BY DEF Read
<1>3. NothingLost' BY <1>2 DEF Safe, NothingLost
<1>4. \A g \in Flushers : g # f => fl'[g] = fl[g] BY <1>1 DEF TypeOK
<1>5. fl[f] \in FlusherStates /\ id \in Hashes BY FlusherFields
<1>6. CASE fl' = [fl EXCEPT ![f] = Taken(f, id)]
  <2>1. fl'[f] = Taken(f, id) BY <1>6 DEF TypeOK
  <2>2. /\ fl'[f].at \in {"read", "commit"} /\ fl'[f].batch = fl[f].batch \cup {id}
        /\ fl'[f].seen = [fl[f].seen EXCEPT ![id] = hash[id]]
    BY <2>1, <1>5 DEF Taken, FlusherStates
  <2>3. ASSUME NEW i \in fl'[f].batch \ (late \cup gone), NEW c \in Fields
        PROVE  hash[i][c] <= fl'[f].seen[i][c]
    <3>0. i \in Hashes /\ fl[f].seen \in [Hashes -> Counts] BY <2>2, <2>3, <1>5, FlusherFields
    <3>1. CASE i = id
      <4>1. fl'[f].seen[i] = hash[i] BY <3>0, <3>1, <2>2
      <4>2. hash[i][c] \in Nat BY <3>0, Numbers
      <4>. QED BY <4>1, <4>2
    <3>2. CASE i # id
      <4>1. fl'[f].seen[i] = fl[f].seen[i] BY <3>0, <3>2, <2>2
      <4>2. i \in fl[f].batch \ (late \cup gone) BY <2>2, <2>3, <3>2
      <4>. QED BY <4>1, <4>2, <1>2 DEF Safe, SeenIsAll
    <3>. QED BY <3>1, <3>2
  <2>4. SeenIsAll' BY <2>3, <1>2, <1>4 DEF Safe, SeenIsAll
  <2>5. CreditIsAll' BY <2>2, <1>2, <1>4 DEF Safe, CreditIsAll
  <2>6. CurIsHeld' BY <2>2, <1>2, <1>4 DEF Safe, CurIsHeld
  <2>. QED BY <1>3, <2>4, <2>5, <2>6 DEF Safe
<1>7. CASE fl' = [fl EXCEPT ![f].todo = @ \ {id}]
  <2>1. /\ fl'[f].at = fl[f].at /\ fl'[f].batch = fl[f].batch /\ fl'[f].seen = fl[f].seen
        /\ fl'[f].cur = fl[f].cur
    BY <1>7, <1>5 DEF TypeOK, FlusherStates
  <2>2. SeenIsAll' BY <2>1, <1>2, <1>4 DEF Safe, SeenIsAll
  <2>3. CreditIsAll' BY <2>1, <1>2, <1>4 DEF Safe, CreditIsAll
  <2>4. CurIsHeld' BY <2>1, <1>2, <1>4 DEF Safe, CurIsHeld
  <2>. QED BY <1>3, <2>2, <2>3, <2>4 DEF Safe
<1>. QED BY <1>1, <1>6, <1>7

LEMMA CreditAdds ==
    ASSUME TypeOK, NEW f \in Flushers, Credit(f), NEW id \in Hashes, NEW c \in Fields
    PROVE  /\ pg[id][c] <= pg'[id][c]
           /\ id \in fl[f].batch => pg'[id][c] = pg[id][c] + fl[f].seen[id][c]
<1>1. pg[id][c] \in Nat /\ fl[f].seen[id][c] \in Nat BY Numbers
<1>2. CASE id \in fl[f].batch
  <2>1. pg'[id][c] = pg[id][c] + fl[f].seen[id][c] BY <1>2 DEF Credit
  <2>. QED BY <2>1, <1>1
<1>3. CASE id \notin fl[f].batch
  <2>1. pg'[id] = pg[id] BY <1>3 DEF Credit
  <2>. QED BY <2>1, <1>1, <1>3
<1>. QED BY <1>2, <1>3

LEMMA CommitSafe == ASSUME TypeOK, Safe, NEW f \in Flushers, Commit(f) PROVE Safe'
<1>1. /\ UNCHANGED <<hash, counted, late, gone>> /\ fl[f].at \in {"read", "commit"}
      /\ Credit(f) \/ UNCHANGED <<pg, credited>>
  BY DEF Commit, redis
<1>2. ASSUME NEW id \in Hashes, NEW c \in Fields PROVE pg[id][c] <= pg'[id][c]
  <2>1. CASE Credit(f) BY <2>1, CreditAdds
  <2>2. CASE UNCHANGED <<pg, credited>> BY <2>2, Numbers
  <2>. QED BY <1>1, <2>1, <2>2
<1>3. pg' \in [Hashes -> Counts]
  <2>1. CASE Credit(f) BY <2>1, CreditType
  <2>. QED BY <1>1, <2>1 DEF TypeOK
<1>4. \A id \in Hashes, c \in Fields : pg'[id][c] \in Nat BY <1>3 DEF Counts
<1>5. NothingLost'
  <2>1. ASSUME NEW id \in Hashes \ (late' \cup gone'), NEW c \in Fields
        PROVE  counted'[id][c] <= pg'[id][c] + hash'[id][c]
    <3>1. counted[id][c] <= pg[id][c] + hash[id][c] BY <1>1, <2>1 DEF Safe, NothingLost
    <3>2. hash[id][c] \in Nat /\ pg[id][c] \in Nat /\ counted[id][c] \in Nat BY Numbers
    <3>. QED BY <3>1, <3>2, <1>1, <1>2, <1>4
  <2>. QED BY <2>1 DEF NothingLost
<1>6. \A g \in Flushers : fl[g].batch \subseteq Hashes BY FlusherFields
<1>7. ASSUME NEW g \in Flushers, fl[g].at \in {"untrack", "delete"},
             NEW id \in fl[g].batch \ (late \cup gone), NEW c \in Fields
      PROVE  counted[id][c] <= pg'[id][c]
  <2>1. counted[id][c] <= pg[id][c] BY <1>7 DEF Safe, CreditIsAll
  <2>2. id \in Hashes BY <1>6
  <2>3. counted[id][c] \in Nat /\ pg[id][c] \in Nat BY <2>2, Numbers
  <2>. QED BY <2>1, <2>2, <2>3, <1>2, <1>4
<1>8. CASE Credit(f) /\ fl' = [fl EXCEPT ![f].at = "untrack"]
  <2>1. /\ fl'[f].at = "untrack" /\ fl'[f].batch = fl[f].batch
        /\ \A g \in Flushers : g # f => fl'[g] = fl[g]
    BY <1>8, FlusherFields DEF TypeOK, FlusherStates
  <2>2. ASSUME NEW id \in fl[f].batch \ (late \cup gone), NEW c \in Fields
        PROVE  counted[id][c] <= pg'[id][c]
    <3>1. id \in Hashes BY <1>6
    <3>2. counted[id][c] <= pg[id][c] + hash[id][c] BY <2>2, <3>1 DEF Safe, NothingLost
    <3>3. hash[id][c] <= fl[f].seen[id][c] BY <2>2, <1>1 DEF Safe, SeenIsAll
    <3>4. pg'[id][c] = pg[id][c] + fl[f].seen[id][c] BY <1>8, <3>1, CreditAdds
    <3>5. /\ hash[id][c] \in Nat /\ pg[id][c] \in Nat /\ counted[id][c] \in Nat
          /\ fl[f].seen[id][c] \in Nat
      BY <3>1, Numbers
    <3>. QED BY <3>2, <3>3, <3>4, <3>5
  <2>3. SeenIsAll' BY <2>1, <1>1 DEF Safe, SeenIsAll
  <2>4. CreditIsAll' BY <2>1, <2>2, <1>1, <1>7 DEF CreditIsAll
  <2>5. CurIsHeld' BY <2>1 DEF Safe, CurIsHeld
  <2>. QED BY <1>5, <2>3, <2>4, <2>5 DEF Safe
<1>9. CASE fl' = [fl EXCEPT ![f].at = "read", ![f].batch = {}, ![f].seen = Down.seen]
  <2>1. /\ fl'[f].at = "read" /\ fl'[f].batch = {}
        /\ \A g \in Flushers : g # f => fl'[g] = fl[g]
    BY <1>9, FlusherFields DEF TypeOK, FlusherStates
  <2>3. SeenIsAll' BY <2>1, <1>1 DEF Safe, SeenIsAll
  <2>4. CreditIsAll' BY <2>1, <1>1, <1>7 DEF CreditIsAll
  <2>5. CurIsHeld' BY <2>1 DEF Safe, CurIsHeld
  <2>. QED BY <1>5, <2>3, <2>4, <2>5 DEF Safe
<1>. QED BY <1>8, <1>9 DEF Commit

LEMMA DeleteSafe == ASSUME TypeOK, Safe, NEW f \in Flushers, Delete(f) PROVE Safe'
<1>1. /\ UNCHANGED <<pg, counted, late, gone>> /\ fl[f].at = "delete"
      /\ fl' = [fl EXCEPT ![f] = Drained(f)]
  BY DEF Delete
<1>2. \A id \in Hashes : hash'[id] = hash[id] \/ (id \in fl[f].cur /\ hash'[id] = Zero)
  BY DEF Delete, Removed
<1>3. /\ fl'[f].at \in {"read", "untrack"} /\ fl'[f].batch \subseteq fl[f].batch
      /\ fl'[f].at = "read" => fl'[f].batch = {}
      /\ \A g \in Flushers : g # f => fl'[g] = fl[g]
  BY <1>1, FlusherFields DEF TypeOK, FlusherStates, Drained
<1>4. NothingLost'
  <2>1. ASSUME NEW id \in Hashes \ (late' \cup gone'), NEW c \in Fields
        PROVE  counted'[id][c] <= pg'[id][c] + hash'[id][c]
    <3>1. counted[id][c] <= pg[id][c] + hash[id][c] BY <1>1, <2>1 DEF Safe, NothingLost
    <3>2. CASE hash'[id] = hash[id] BY <3>1, <3>2, <1>1
    <3>3. CASE id \in fl[f].cur /\ hash'[id] = Zero
      <4>1. id \in fl[f].batch BY <3>3, <1>1 DEF Safe, CurIsHeld
      <4>2. counted[id][c] <= pg[id][c] BY <4>1, <2>1, <1>1 DEF Safe, CreditIsAll
      <4>3. hash'[id][c] = 0 BY <3>3 DEF Zero
      <4>4. pg[id][c] \in Nat BY Numbers
      <4>. QED BY <4>2, <4>3, <4>4, <1>1
    <3>. QED BY <1>2, <3>2, <3>3
  <2>. QED BY <2>1 DEF NothingLost
<1>5. ASSUME NEW g \in Flushers, NEW id \in fl[g].batch, NEW c \in Fields
      PROVE  hash'[id][c] <= hash[id][c]
  <2>1. id \in Hashes BY FlusherFields
  <2>2. hash[id][c] \in Nat BY <2>1, Numbers
  <2>3. CASE hash'[id] = hash[id] BY <2>2, <2>3
  <2>4. CASE hash'[id] = Zero BY <2>2, <2>4 DEF Zero
  <2>. QED BY <1>2, <2>1, <2>3, <2>4
<1>6. SeenIsAll'
  <2>1. ASSUME NEW g \in Flushers, fl'[g].at \in {"read", "commit"},
               NEW id \in fl'[g].batch \ (late' \cup gone'), NEW c \in Fields
        PROVE  hash'[id][c] <= fl'[g].seen[id][c]
    <3>1. g # f BY <2>1, <1>3
    <3>2. fl'[g] = fl[g] BY <3>1, <1>3
    <3>3. hash[id][c] <= fl[g].seen[id][c] BY <2>1, <3>2, <1>1 DEF Safe, SeenIsAll
    <3>4. hash'[id][c] <= hash[id][c] BY <2>1, <3>2, <1>5
    <3>5. id \in Hashes BY <2>1, <3>2, FlusherFields
    <3>6. hash[id][c] \in Nat /\ fl[g].seen[id][c] \in Nat BY <3>5, Numbers
    <3>7. hash'[id][c] \in Nat BY <1>2, <3>5, <3>6 DEF Zero
    <3>. QED BY <3>2, <3>3, <3>4, <3>6, <3>7
  <2>. QED BY <2>1 DEF SeenIsAll
<1>7. CreditIsAll' BY <1>1, <1>3 DEF Safe, CreditIsAll
<1>8. CurIsHeld' BY <1>3 DEF Safe, CurIsHeld
<1>. QED BY <1>4, <1>6, <1>7, <1>8 DEF Safe

\* Steps of a flusher that change nothing but what it is about to do.
LEMMA FlusherMoves ==
    ASSUME TypeOK, Safe, NEW f \in Flushers, UNCHANGED <<hash, pg, counted, late, gone>>,
           \A g \in Flushers : g # f => fl'[g] = fl[g],
           \/ fl'[f].batch = {} /\ fl'[f].at \in {"idle", "down", "read"}
           \/ /\ fl[f].at = "untrack" /\ fl'[f].at = "delete"
              /\ fl'[f].batch = fl[f].batch /\ fl'[f].cur \subseteq fl[f].batch
    PROVE  Safe'
<1>1. NothingLost' BY DEF Safe, NothingLost
<1>2. SeenIsAll' BY DEF Safe, SeenIsAll
<1>3. CreditIsAll' BY DEF Safe, CreditIsAll
<1>4. CurIsHeld' BY DEF Safe, CurIsHeld
<1>. QED BY <1>1, <1>2, <1>3, <1>4 DEF Safe

LEMMA FlusherSafe ==
    ASSUME TypeOK, Safe, NEW f \in Flushers,
           Flush(f) \/ Tick(f) \/ Shutdown(f) \/ Restart(f) \/ Crash(f)
    PROVE  Safe'
<1>0. /\ fl[f] \in FlusherStates /\ f \in DOMAIN fl
      /\ \A new : fl' = [fl EXCEPT ![f] = new] =>
            fl'[f] = new /\ \A g \in Flushers : g # f => fl'[g] = fl[g]
  BY DEF TypeOK
<1>d. Down.batch = {} /\ Down.at = "down" /\ Up.batch = {} /\ Up.at = "idle" BY DEF Down, Up
<1>1. ASSUME NEW all \in BOOLEAN, Start(f, all) PROVE Safe'
  <2>1. UNCHANGED <<hash, pg, counted, late, gone>> /\ fl[f].at = "idle" BY <1>1 DEF Start, ghosts
  <2>2. fl[f].batch = {} BY <2>1 DEF Safe, CurIsHeld
  <2>3. CASE fl' = [fl EXCEPT ![f].at = "read", ![f].all = all, ![f].todo = Eligible(all)]
    <3>1. /\ fl'[f].batch = {} /\ fl'[f].at = "read"
          /\ \A g \in Flushers : g # f => fl'[g] = fl[g]
      BY <2>2, <2>3, <1>0 DEF TypeOK, FlusherStates
    <3>. QED BY <2>1, <3>1, FlusherMoves
  <2>4. CASE fl' = [fl EXCEPT ![f] = IF all THEN Down ELSE Up]
    <3>1. /\ fl'[f].batch = {} /\ fl'[f].at \in {"idle", "down"}
          /\ \A g \in Flushers : g # f => fl'[g] = fl[g]
      BY <2>4, <1>0, <1>d
    <3>. QED BY <2>1, <3>1, FlusherMoves
  <2>. QED BY <1>1, <2>3, <2>4 DEF Start
<1>2. CASE Read(f) BY <1>2, ReadSafe
<1>3. CASE Commit(f) BY <1>3, CommitSafe
<1>4. CASE Untrack(f)
  <2>1. PICK id \in fl[f].batch : fl' = [fl EXCEPT ![f].at = "delete", ![f].cur = {id}]
    BY <1>4 DEF Untrack
  <2>2. /\ fl'[f].at = "delete" /\ fl'[f].batch = fl[f].batch /\ fl'[f].cur = {id}
        /\ \A g \in Flushers : g # f => fl'[g] = fl[g]
    BY <2>1, <1>0 DEF TypeOK, FlusherStates
  <2>3. UNCHANGED <<hash, pg, counted, late, gone>> /\ fl[f].at = "untrack"
    BY <1>4 DEF Untrack, ghosts
  <2>4. fl'[f].cur \subseteq fl[f].batch BY <2>2
  <2>. QED BY <2>2, <2>3, <2>4, FlusherMoves
<1>5. CASE Delete(f) BY <1>5, DeleteSafe
<1>6. CASE Return(f) \/ Restart(f) \/ Crash(f)
  <2>1. UNCHANGED <<hash, pg, counted, late, gone>>
    BY <1>6 DEF Return, Restart, Crash, redis, ghosts
  <2>2. fl' = [fl EXCEPT ![f] = Up] \/ fl' = [fl EXCEPT ![f] = Down]
    BY <1>6 DEF Return, Restart, Crash, After
  <2>3. /\ fl'[f].batch = {} /\ fl'[f].at \in {"idle", "down"}
        /\ \A g \in Flushers : g # f => fl'[g] = fl[g]
    BY <2>2, <1>0, <1>d
  <2>. QED BY <2>1, <2>3, FlusherMoves
<1>. QED BY <1>1, <1>2, <1>3, <1>4, <1>5, <1>6 DEF Flush, Tick, Shutdown

LEMMA SafeStep == ASSUME TypeOK, Safe, [Next]_vars PROVE Safe'
<1>1. ASSUME NEW t \in Tasks, Validate(t) \/ CrashTask(t) PROVE Safe'
  BY <1>1, SafeFrame DEF Validate, CrashTask, redis, ghosts
<1>2. ASSUME NEW t \in Tasks, CountMonth(t) \/ Track(t) \/ Expire(t) PROVE Safe'
  BY <1>2, SafeFrame DEF CountMonth, Track, Expire, ghosts
<1>3. ASSUME NEW t \in Tasks, Add(t) PROVE Safe'
  <2>1. UNCHANGED <<pg, gone, fl>> BY <1>3 DEF Add
  <2>2. CASE Incremented(t) BY <2>1, <2>2, IncrementedSafe
  <2>3. CASE UNCHANGED <<hash, counted, late>> BY <2>1, <2>3, SafeFrame
  <2>. QED BY <1>3, <2>2, <2>3 DEF Add
<1>4. ASSUME NEW f \in Flushers, Flush(f) \/ Tick(f) \/ Shutdown(f) \/ Restart(f) \/ Crash(f)
      PROVE Safe'
  BY <1>4, FlusherSafe
<1>5. ASSUME NEW id \in Hashes, Expires(id) PROVE Safe' BY <1>5, VanishSafe DEF Expires
<1>6. CASE Restore BY <1>6, RestoreSafe
<1>7. CASE HourEnds BY <1>7, SafeFrame DEF HourEnds, redis, ghosts
<1>8. CASE Wipe BY <1>8, VanishSafe DEF Wipe
<1>9. CASE UNCHANGED vars BY <1>9, SafeFrame DEF vars, redis, ghosts
<1>. QED BY <1>1, <1>2, <1>3, <1>4, <1>5, <1>6, <1>7, <1>8, <1>9 DEF Next, Increment

LEMMA InitSafe == Init => Safe
<1>. SUFFICES ASSUME Init PROVE Safe OBVIOUS
<1>1. NothingLost BY DEF Init, NothingLost, Zero
<1>2. \A f \in Flushers : fl[f].at = "idle" /\ fl[f].batch = {} BY DEF Init, Up, Down
<1>. QED BY <1>1, <1>2 DEF Safe, SeenIsAll, CreditIsAll, CurIsHeld

-------------------------------------------------------------------------------
(***************************************************************************)
(* Nothing is doubled. A flusher that commits must know that what it read  *)
(* is in no row yet: SeenIsNew says so of a flusher, NewIsCounted of the   *)
(* hashes that it may read, OneHasIt of two flushers with the same hash.   *)
(***************************************************************************)
Reading == {f \in Flushers : fl[f].at \in {"read", "commit"}}

SeenIsNew ==
    \A f \in Reading : \A id \in fl[f].batch \ reread : \A c \in Fields :
       pg[id][c] + fl[f].seen[id][c] <= counted[id][c]

NewIsCounted ==
    \A id \in Hashes \ (reread \cup credited) : \A c \in Fields :
       pg[id][c] + hash[id][c] <= counted[id][c]

OneHasIt ==
    \A f, g \in Reading : \A id \in (fl[f].batch \cap fl[g].batch) \ reread :
       f # g => fl[f].seen[id] = Zero \/ fl[g].seen[id] = Zero

Single == NothingDoubled /\ SeenIsNew /\ NewIsCounted /\ OneHasIt

LEMMA ZeroCounts ==
    ASSUME NEW n \in Counts, n = Zero, NEW c \in Fields
    PROVE  n[c] = 0
BY DEF Zero

LEMMA SingleFrame ==
    ASSUME Single, UNCHANGED <<hash, pg, counted, credited, reread, fl>>
    PROVE  Single'
BY DEF Single, NothingDoubled, SeenIsNew, NewIsCounted, OneHasIt, Reading

LEMMA IncrementedSingle ==
    ASSUME TypeOK, Single, NEW t \in Tasks, Incremented(t), UNCHANGED <<pg, credited, reread, fl>>
    PROVE  Single'
<1>. DEFINE i == Id(t)
            d == Head(task[t].left)
<1>1. hash' = [hash EXCEPT ![i][d] = @ + 1] /\ counted' = [counted EXCEPT ![i][d] = @ + 1]
  BY DEF Incremented
<1>. HIDE DEF i, d
<1>2. \A id \in Hashes, c \in Fields :
         \/ hash'[id][c] = hash[id][c] /\ counted'[id][c] = counted[id][c]
         \/ hash'[id][c] = hash[id][c] + 1 /\ counted'[id][c] = counted[id][c] + 1
  BY <1>1 DEF TypeOK, Counts
<1>3. NothingDoubled'
  <2>1. ASSUME NEW id \in Hashes \ reread', NEW c \in Fields PROVE pg'[id][c] <= counted'[id][c]
    <3>1. pg[id][c] <= counted[id][c] BY <2>1 DEF Single, NothingDoubled
    <3>. QED BY <3>1, <1>2, Numbers
  <2>. QED BY <2>1 DEF NothingDoubled
<1>4. SeenIsNew'
  <2>1. ASSUME NEW f \in Reading, NEW id \in fl[f].batch \ reread, NEW c \in Fields
        PROVE  pg[id][c] + fl[f].seen[id][c] <= counted'[id][c]
    <3>1. id \in Hashes /\ f \in Flushers BY FlusherFields DEF Reading
    <3>2. pg[id][c] + fl[f].seen[id][c] <= counted[id][c] BY <2>1 DEF Single, SeenIsNew
    <3>3. /\ pg[id][c] \in Nat /\ counted[id][c] \in Nat /\ fl[f].seen[id][c] \in Nat
      BY <3>1, Numbers
    <3>4. counted'[id][c] = counted[id][c] \/ counted'[id][c] = counted[id][c] + 1 BY <1>2, <3>1
    <3>. QED BY <3>2, <3>3, <3>4
  <2>. QED BY <2>1 DEF SeenIsNew, Reading
<1>5. NewIsCounted'
  <2>1. ASSUME NEW id \in Hashes \ (reread' \cup credited'), NEW c \in Fields
        PROVE  pg'[id][c] + hash'[id][c] <= counted'[id][c]
    <3>1. pg[id][c] + hash[id][c] <= counted[id][c] BY <2>1 DEF Single, NewIsCounted
    <3>. QED BY <3>1, <1>2, Numbers
  <2>. QED BY <2>1 DEF NewIsCounted
<1>6. OneHasIt' BY DEF Single, OneHasIt, Reading
<1>. QED BY <1>3, <1>4, <1>5, <1>6 DEF Single

\* Hashes go, and with them what was said of their being credited.
LEMMA RemovedSingle ==
    ASSUME TypeOK, Single, NEW ids, Removed(ids), UNCHANGED <<pg, counted, reread, fl>>
    PROVE  Single'
<1>1. NewIsCounted'
  <2>1. ASSUME NEW id \in Hashes \ (reread' \cup credited'), NEW c \in Fields
        PROVE  pg'[id][c] + hash'[id][c] <= counted'[id][c]
    <3>1. CASE id \in ids
      <4>1. hash'[id][c] = 0 BY <3>1 DEF Removed, Zero
      <4>2. pg[id][c] <= counted[id][c] BY <2>1 DEF Single, NothingDoubled
      <4>. QED BY <4>1, <4>2, Numbers
    <3>2. CASE id \notin ids
      <4>1. hash'[id] = hash[id] /\ id \notin credited BY <3>2, <2>1 DEF Removed
      <4>. QED BY <4>1, <2>1 DEF Single, NewIsCounted
    <3>. QED BY <3>1, <3>2
  <2>. QED BY <2>1 DEF NewIsCounted
<1>2. NothingDoubled' /\ SeenIsNew' /\ OneHasIt'
  BY DEF Single, NothingDoubled, SeenIsNew, OneHasIt, Reading
<1>. QED BY <1>1, <1>2 DEF Single

LEMMA RestoreSingle == ASSUME TypeOK, Single, Restore PROVE Single'
<1>1. /\ UNCHANGED <<pg, counted, reread, fl>> /\ credited' = credited \cup Missing
      /\ \A id \in Hashes : id \notin Missing => hash'[id] = hash[id]
  BY DEF Restore
<1>2. NewIsCounted' BY <1>1 DEF Single, NewIsCounted
<1>3. NothingDoubled' /\ SeenIsNew' /\ OneHasIt'
  BY <1>1 DEF Single, NothingDoubled, SeenIsNew, OneHasIt, Reading
<1>. QED BY <1>2, <1>3 DEF Single

LEMMA ReadSingle == ASSUME TypeOK, Single, NEW f \in Flushers, Read(f) PROVE Single'
<1>1. PICK id \in fl[f].todo :
         \/ /\ fl' = [fl EXCEPT ![f] = Taken(f, id)]
            /\ reread' = IF hash[id] # Zero /\ (id \in credited \/ Held(id))
                           THEN reread \cup {id} ELSE reread
         \/ fl' = [fl EXCEPT ![f].todo = @ \ {id}] /\ UNCHANGED reread
  BY DEF Read
<1>2. UNCHANGED <<hash, pg, counted, credited>> /\ fl[f].at = "read" BY DEF Read
<1>3. \A g \in Flushers : g # f => fl'[g] = fl[g] BY <1>1 DEF TypeOK
<1>4. fl[f] \in FlusherStates /\ id \in Hashes BY FlusherFields
<1>5. reread \subseteq reread' BY <1>1
<1>6. NothingDoubled' /\ NewIsCounted' BY <1>2, <1>5 DEF Single, NothingDoubled, NewIsCounted
<1>7. CASE fl' = [fl EXCEPT ![f].todo = @ \ {id}]
  <2>1. fl'[f].at = fl[f].at /\ fl'[f].batch = fl[f].batch /\ fl'[f].seen = fl[f].seen
    BY <1>7, <1>4 DEF TypeOK, FlusherStates
  <2>2. Reading' = Reading BY <2>1, <1>3 DEF Reading
  <2>3. \A g \in Flushers : fl'[g].batch = fl[g].batch /\ fl'[g].seen = fl[g].seen
    BY <2>1, <1>3
  <2>4. \A g \in Reading : g \in Flushers BY DEF Reading
  <2>5. SeenIsNew' BY <2>2, <2>3, <2>4, <1>2, <1>5 DEF Single, SeenIsNew
  <2>6. OneHasIt' BY <2>2, <2>3, <2>4, <1>5 DEF Single, OneHasIt
  <2>. QED BY <1>6, <2>5, <2>6 DEF Single
<1>8. CASE /\ fl' = [fl EXCEPT ![f] = Taken(f, id)]
           /\ reread' = IF hash[id] # Zero /\ (id \in credited \/ Held(id))
                          THEN reread \cup {id} ELSE reread
  <2>1. fl'[f] = Taken(f, id) BY <1>8 DEF TypeOK
  <2>2. /\ fl'[f].at \in {"read", "commit"} /\ fl'[f].batch = fl[f].batch \cup {id}
        /\ fl'[f].seen = [fl[f].seen EXCEPT ![id] = hash[id]]
    BY <2>1, <1>4 DEF Taken, FlusherStates
  <2>3. Reading' = Reading /\ f \in Reading BY <2>2, <1>2, <1>3 DEF Reading
  <2>4. fl[f].seen \in [Hashes -> Counts] /\ fl[f].batch \subseteq Hashes BY FlusherFields
  <2>5. fl'[f].seen[id] = hash[id] /\ \A i \in Hashes \ {id} : fl'[f].seen[i] = fl[f].seen[i]
    BY <2>2, <2>4, <1>4
  <2>6. hash[id] \in Counts BY <1>4 DEF TypeOK
  <2>7. ASSUME NEW c \in Fields, id \notin reread'
        PROVE  pg[id][c] + hash[id][c] <= counted[id][c]
    <3>1. pg[id][c] \in Nat /\ counted[id][c] \in Nat BY <1>4, Numbers
    <3>2. CASE hash[id] = Zero
      <4>1. hash[id][c] = 0 BY <2>6, <3>2, ZeroCounts
      <4>2. pg[id][c] <= counted[id][c] BY <2>7, <1>4, <1>5 DEF Single, NothingDoubled
      <4>. QED BY <3>1, <4>1, <4>2
    <3>3. CASE hash[id] # Zero
      <4>1. id \notin credited /\ id \notin reread BY <3>3, <2>7, <1>8
      <4>. QED BY <4>1, <1>4 DEF Single, NewIsCounted
    <3>. QED BY <3>2, <3>3
  <2>8. SeenIsNew'
    <3>1. ASSUME NEW g \in Reading, NEW i \in fl'[g].batch \ reread', NEW c \in Fields
          PROVE  pg[i][c] + fl'[g].seen[i][c] <= counted[i][c]
      <4>1. CASE g = f /\ i = id BY <4>1, <3>1, <2>5, <2>7
      <4>2. CASE g = f /\ i # id
        <5>1. i \in fl[f].batch /\ i \in Hashes BY <4>2, <3>1, <2>2, <2>4
        <5>2. fl'[g].seen[i] = fl[f].seen[i] BY <5>1, <4>2, <2>5
        <5>. QED BY <5>1, <5>2, <4>2, <3>1, <1>5, <2>3 DEF Single, SeenIsNew
      <4>3. CASE g # f
        <5>1. fl'[g] = fl[g] BY <4>3, <1>3 DEF Reading
        <5>. QED BY <5>1, <3>1, <1>5 DEF Single, SeenIsNew
      <4>. QED BY <4>1, <4>2, <4>3
    <3>. QED BY <3>1, <2>3, <1>2 DEF SeenIsNew
  <2>9. ASSUME NEW g \in Reading, g # f, NEW i \in (fl'[f].batch \cap fl[g].batch) \ reread'
        PROVE  fl'[f].seen[i] = Zero \/ fl[g].seen[i] = Zero
    <3>1. g \in Flushers BY DEF Reading
    <3>2. CASE i = id
      <4>1. Held(id) BY <3>1, <3>2, <2>9 DEF Held
      <4>2. hash[id] = Zero BY <4>1, <3>2, <2>9, <1>8
      <4>. QED BY <4>2, <3>2, <2>5
    <3>3. CASE i # id
      <4>1. i \in fl[f].batch /\ i \in Hashes BY <3>3, <2>9, <2>2, <2>4
      <4>2. fl'[f].seen[i] = fl[f].seen[i] BY <4>1, <3>3, <2>5
      <4>. QED BY <4>1, <4>2, <2>9, <2>3, <1>5 DEF Single, OneHasIt
    <3>. QED BY <3>2, <3>3
  <2>10. OneHasIt'
    <3>1. ASSUME NEW g \in Reading, NEW h \in Reading,
                 NEW i \in (fl'[g].batch \cap fl'[h].batch) \ reread', g # h
          PROVE  fl'[g].seen[i] = Zero \/ fl'[h].seen[i] = Zero
      <4>1. g \in Flushers /\ h \in Flushers BY DEF Reading
      <4>2. CASE g = f BY <4>1, <4>2, <3>1, <2>9, <1>3
      <4>3. CASE h = f BY <4>1, <4>3, <3>1, <2>9, <1>3
      <4>4. CASE g # f /\ h # f
        <5>1. fl'[g] = fl[g] /\ fl'[h] = fl[h] BY <4>1, <4>4, <1>3
        <5>. QED BY <5>1, <3>1, <1>5 DEF Single, OneHasIt
      <4>. QED BY <4>2, <4>3, <4>4
    <3>. QED BY <3>1, <2>3 DEF OneHasIt
  <2>. QED BY <1>6, <2>8, <2>10 DEF Single
<1>. QED BY <1>1, <1>7, <1>8

LEMMA CommitSingle == ASSUME TypeOK, Single, NEW f \in Flushers, Commit(f) PROVE Single'
<1>1. /\ UNCHANGED <<hash, counted, reread>> /\ fl[f].at \in {"read", "commit"}
      /\ Credit(f) \/ UNCHANGED <<pg, credited>>
  BY DEF Commit, redis
<1>2. /\ \A g \in Flushers : g # f => fl'[g] = fl[g]
      /\ fl'[f].at = "untrack" \/ (fl'[f].at = "read" /\ fl'[f].batch = {})
  BY FlusherFields DEF Commit, TypeOK, FlusherStates
<1>3. f \in Reading BY <1>1 DEF Reading
<1>4. OneHasIt'
  <2>1. ASSUME NEW g \in Reading', NEW h \in Reading',
               NEW i \in (fl'[g].batch \cap fl'[h].batch) \ reread', g # h
        PROVE  fl'[g].seen[i] = Zero \/ fl'[h].seen[i] = Zero
    <3>1. g \in Flushers /\ h \in Flushers BY DEF Reading
    <3>2. g # f /\ h # f BY <2>1, <1>2 DEF Reading
    <3>3. fl'[g] = fl[g] /\ fl'[h] = fl[h] BY <3>1, <3>2, <1>2
    <3>. QED BY <3>3, <2>1, <1>1 DEF Single, OneHasIt, Reading
  <2>. QED BY <2>1 DEF OneHasIt
<1>5. ASSUME NEW g \in Reading', NEW i \in fl'[g].batch \ reread
      PROVE  g \in Reading /\ g # f /\ fl'[g] = fl[g] /\ i \in Hashes
  <2>1. g \in Flushers BY DEF Reading
  <2>2. g # f BY <1>5, <1>2 DEF Reading
  <2>3. fl'[g] = fl[g] BY <2>1, <2>2, <1>2
  <2>. QED BY <2>1, <2>2, <2>3, <1>5, FlusherFields DEF Reading
<1>6. CASE UNCHANGED <<pg, credited>>
  <2>1. NothingDoubled' /\ NewIsCounted'
    BY <1>1, <1>6 DEF Single, NothingDoubled, NewIsCounted
  <2>2. SeenIsNew' BY <1>1, <1>5, <1>6 DEF Single, SeenIsNew
  <2>. QED BY <1>4, <2>1, <2>2 DEF Single
<1>7. CASE Credit(f)
  <2>1. \A id \in Hashes : id \notin fl[f].batch => pg'[id] = pg[id] BY <1>7 DEF Credit
  <2>2. ASSUME NEW id \in fl[f].batch \ reread, NEW c \in Fields
        PROVE  pg'[id][c] <= counted[id][c]
    <3>1. id \in Hashes BY FlusherFields
    <3>2. pg'[id][c] = pg[id][c] + fl[f].seen[id][c] BY <1>7, <3>1, CreditAdds
    <3>. QED BY <3>2, <1>3 DEF Single, SeenIsNew
  <2>3. NothingDoubled'
    <3>1. ASSUME NEW id \in Hashes \ reread, NEW c \in Fields PROVE pg'[id][c] <= counted[id][c]
      <4>1. CASE id \in fl[f].batch BY <4>1, <2>2
      <4>2. CASE id \notin fl[f].batch BY <4>2, <2>1 DEF Single, NothingDoubled
      <4>. QED BY <4>1, <4>2
    <3>. QED BY <3>1, <1>1 DEF NothingDoubled
  <2>4. NewIsCounted'
    <3>1. ASSUME NEW id \in Hashes \ (reread \cup credited'), NEW c \in Fields
          PROVE  pg'[id][c] + hash[id][c] <= counted[id][c]
      <4>1. id \notin credited BY <1>7 DEF Credit
      <4>2. pg[id][c] + hash[id][c] <= counted[id][c] BY <4>1 DEF Single, NewIsCounted
      <4>3. CASE id \notin fl[f].batch BY <4>2, <4>3, <2>1
      <4>4. CASE id \in fl[f].batch /\ hash[id] = Zero
        <5>1. hash[id][c] = 0 BY <4>4 DEF Zero
        <5>2. pg'[id][c] <= counted[id][c] BY <4>4, <2>2
        <5>3. pg'[id][c] = pg[id][c] + fl[f].seen[id][c] BY <4>4, <1>7, CreditAdds
        <5>. QED BY <5>1, <5>2, <5>3, Numbers
      <4>5. CASE id \in fl[f].batch /\ fl[f].seen[id] = Zero
        <5>1. fl[f].seen[id][c] = 0 BY <4>5 DEF Zero
        <5>2. pg'[id][c] = pg[id][c] + fl[f].seen[id][c] BY <4>5, <1>7, CreditAdds
        <5>. QED BY <4>2, <5>1, <5>2, Numbers
      <4>6. id \in fl[f].batch => hash[id] = Zero \/ fl[f].seen[id] = Zero
        BY <3>1, <1>7 DEF Credit
      <4>. QED BY <4>3, <4>4, <4>5, <4>6
    <3>. QED BY <3>1, <1>1 DEF NewIsCounted
  <2>5. SeenIsNew'
    <3>1. ASSUME NEW g \in Reading', NEW i \in fl'[g].batch \ reread, NEW c \in Fields
          PROVE  pg'[i][c] + fl'[g].seen[i][c] <= counted[i][c]
      <4>1. g \in Reading /\ g # f /\ fl'[g] = fl[g] /\ i \in Hashes BY <1>5, <3>1
      <4>2. g \in Flushers BY <4>1 DEF Reading
      <4>3. pg[i][c] + fl[g].seen[i][c] <= counted[i][c] BY <4>1, <3>1 DEF Single, SeenIsNew
      <4>4. CASE i \notin fl[f].batch BY <4>1, <4>3, <4>4, <2>1
      <4>5. CASE i \in fl[f].batch
        <5>1. fl[f].seen[i] = Zero \/ fl[g].seen[i] = Zero
          BY <4>1, <4>5, <3>1, <1>3 DEF Single, OneHasIt
        <5>2. pg'[i][c] = pg[i][c] + fl[f].seen[i][c] BY <4>1, <4>5, <1>7, CreditAdds
        <5>3. fl[f].seen[i][c] = 0 \/ fl[g].seen[i][c] = 0 BY <5>1 DEF Zero
        <5>4. pg'[i][c] <= counted[i][c] BY <4>5, <3>1, <2>2
        <5>5. /\ pg[i][c] \in Nat /\ fl[f].seen[i][c] \in Nat /\ fl[g].seen[i][c] \in Nat
              /\ counted[i][c] \in Nat
          BY <4>1, <4>2, Numbers
        <5>. QED BY <4>1, <4>3, <5>2, <5>3, <5>4, <5>5
      <4>. QED BY <4>4, <4>5
    <3>. QED BY <3>1, <1>1 DEF SeenIsNew
  <2>. QED BY <1>4, <2>3, <2>4, <2>5 DEF Single
<1>. QED BY <1>1, <1>6, <1>7

\* Steps of a flusher that only give up hashes.
LEMMA FlusherLeaves ==
    ASSUME Single, NEW f \in Flushers, UNCHANGED <<hash, pg, counted, credited, reread>>,
           \A g \in Flushers : g # f => fl'[g] = fl[g],
           fl'[f].batch = {} \/ fl'[f].at \notin {"read", "commit"}
    PROVE  Single'
<1>1. \A g \in Reading' : g \in Flushers BY DEF Reading
<1>2. \A g \in Reading' : g # f => g \in Reading /\ fl'[g] = fl[g] BY <1>1 DEF Reading
<1>3. \A i : ~(f \in Reading' /\ i \in fl'[f].batch) BY DEF Reading
<1>4. NothingDoubled' /\ NewIsCounted' BY DEF Single, NothingDoubled, NewIsCounted
<1>5. SeenIsNew' BY <1>2, <1>3 DEF Single, SeenIsNew
<1>6. OneHasIt' BY <1>2, <1>3 DEF Single, OneHasIt
<1>. QED BY <1>4, <1>5, <1>6 DEF Single

LEMMA DeleteSingle == ASSUME TypeOK, Single, NEW f \in Flushers, Delete(f) PROVE Single'
<1>1. UNCHANGED <<pg, counted, reread>> /\ fl' = [fl EXCEPT ![f] = Drained(f)] BY DEF Delete
<1>2. /\ fl'[f].batch = {} \/ fl'[f].at \notin {"read", "commit"}
      /\ \A g \in Flushers : g # f => fl'[g] = fl[g]
  BY <1>1, FlusherFields DEF TypeOK, FlusherStates, Drained
<1>3. \A g \in Reading' : g # f => g \in Reading /\ fl'[g] = fl[g] BY <1>2 DEF Reading
<1>4. \A i : ~(f \in Reading' /\ i \in fl'[f].batch) BY <1>2 DEF Reading
<1>5. SeenIsNew' BY <1>1, <1>3, <1>4 DEF Single, SeenIsNew
<1>6. OneHasIt' BY <1>1, <1>3, <1>4 DEF Single, OneHasIt
<1>7. NothingDoubled' BY <1>1 DEF Single, NothingDoubled
<1>8. NewIsCounted'
  <2>1. ASSUME NEW id \in Hashes \ (reread \cup credited'), NEW c \in Fields
        PROVE  pg[id][c] + hash'[id][c] <= counted[id][c]
    <3>1. CASE hash'[id] = Zero
      <4>1. hash'[id][c] = 0 BY <3>1 DEF Zero
      <4>2. pg[id][c] <= counted[id][c] BY <2>1 DEF Single, NothingDoubled
      <4>. QED BY <4>1, <4>2, Numbers
    <3>2. CASE hash'[id] = hash[id] /\ id \notin credited
      BY <3>2, <2>1 DEF Single, NewIsCounted
    <3>. QED BY <2>1, <3>1, <3>2 DEF Delete, Removed
  <2>. QED BY <2>1, <1>1 DEF NewIsCounted
<1>. QED BY <1>5, <1>6, <1>7, <1>8 DEF Single

LEMMA FlusherSingle ==
    ASSUME TypeOK, Safe, Single, NEW f \in Flushers,
           Flush(f) \/ Tick(f) \/ Shutdown(f) \/ Restart(f) \/ Crash(f)
    PROVE  Single'
<1>0. /\ fl[f] \in FlusherStates /\ f \in DOMAIN fl
      /\ \A new : fl' = [fl EXCEPT ![f] = new] =>
            fl'[f] = new /\ \A g \in Flushers : g # f => fl'[g] = fl[g]
  BY DEF TypeOK
<1>1. ASSUME NEW all \in BOOLEAN, Start(f, all) PROVE Single'
  <2>1. UNCHANGED <<hash, pg, counted, credited, reread>> /\ fl[f].at = "idle"
    BY <1>1 DEF Start, ghosts
  <2>2. fl[f].batch = {} BY <2>1 DEF Safe, CurIsHeld
  <2>3. CASE fl' = [fl EXCEPT ![f].at = "read", ![f].all = all, ![f].todo = Eligible(all)]
    <3>1. fl'[f].batch = {} /\ \A g \in Flushers : g # f => fl'[g] = fl[g]
      BY <2>2, <2>3, <1>0 DEF TypeOK, FlusherStates
    <3>. QED BY <2>1, <3>1, FlusherLeaves
  <2>4. CASE fl' = [fl EXCEPT ![f] = IF all THEN Down ELSE Up]
    <3>1. fl'[f].batch = {} /\ \A g \in Flushers : g # f => fl'[g] = fl[g]
      BY <2>4, <1>0 DEF Up, Down
    <3>. QED BY <2>1, <3>1, FlusherLeaves
  <2>. QED BY <1>1, <2>3, <2>4 DEF Start
<1>2. CASE Read(f) BY <1>2, ReadSingle
<1>3. CASE Commit(f) BY <1>3, CommitSingle
<1>4. CASE Untrack(f)
  <2>1. PICK id \in fl[f].batch : fl' = [fl EXCEPT ![f].at = "delete", ![f].cur = {id}]
    BY <1>4 DEF Untrack
  <2>2. fl'[f].at = "delete" /\ \A g \in Flushers : g # f => fl'[g] = fl[g]
    BY <2>1, <1>0 DEF TypeOK, FlusherStates
  <2>3. UNCHANGED <<hash, pg, counted, credited, reread>> BY <1>4 DEF Untrack, ghosts
  <2>. QED BY <2>2, <2>3, FlusherLeaves
<1>5. CASE Delete(f) BY <1>5, DeleteSingle
<1>6. CASE Return(f) \/ Restart(f) \/ Crash(f)
  <2>1. UNCHANGED <<hash, pg, counted, credited, reread>>
    BY <1>6 DEF Return, Restart, Crash, redis, ghosts
  <2>2. fl' = [fl EXCEPT ![f] = Up] \/ fl' = [fl EXCEPT ![f] = Down]
    BY <1>6 DEF Return, Restart, Crash, After
  <2>3. fl'[f].batch = {} /\ \A g \in Flushers : g # f => fl'[g] = fl[g]
    BY <2>2, <1>0 DEF Up, Down
  <2>. QED BY <2>1, <2>3, FlusherLeaves
<1>. QED BY <1>1, <1>2, <1>3, <1>4, <1>5, <1>6 DEF Flush, Tick, Shutdown

LEMMA SingleStep == ASSUME TypeOK, Safe, Single, [Next]_vars PROVE Single'
<1>1. ASSUME NEW t \in Tasks, Validate(t) \/ CrashTask(t) PROVE Single'
  BY <1>1, SingleFrame DEF Validate, CrashTask, redis, ghosts
<1>2. ASSUME NEW t \in Tasks, CountMonth(t) \/ Track(t) \/ Expire(t) PROVE Single'
  BY <1>2, SingleFrame DEF CountMonth, Track, Expire, ghosts
<1>3. ASSUME NEW t \in Tasks, Add(t) PROVE Single'
  <2>1. UNCHANGED <<pg, credited, reread, fl>> BY <1>3 DEF Add
  <2>2. CASE Incremented(t) BY <2>1, <2>2, IncrementedSingle
  <2>3. CASE UNCHANGED <<hash, counted, late>> BY <2>1, <2>3, SingleFrame
  <2>. QED BY <1>3, <2>2, <2>3 DEF Add
<1>4. ASSUME NEW f \in Flushers, Flush(f) \/ Tick(f) \/ Shutdown(f) \/ Restart(f) \/ Crash(f)
      PROVE Single'
  BY <1>4, FlusherSingle
<1>5. ASSUME NEW id \in Hashes, Expires(id) PROVE Single'
  BY <1>5, RemovedSingle DEF Expires, Vanish
<1>6. CASE Restore BY <1>6, RestoreSingle
<1>7. CASE HourEnds BY <1>7, SingleFrame DEF HourEnds, redis, ghosts
<1>8. CASE Wipe BY <1>8, RemovedSingle DEF Wipe, Vanish
<1>9. CASE UNCHANGED vars BY <1>9, SingleFrame DEF vars, redis, ghosts
<1>. QED BY <1>1, <1>2, <1>3, <1>4, <1>5, <1>6, <1>7, <1>8, <1>9 DEF Next, Increment

LEMMA InitSingle == Init => Single
<1>. SUFFICES ASSUME Init PROVE Single OBVIOUS
<1>1. NothingDoubled BY DEF Init, NothingDoubled, Zero
<1>2. NewIsCounted BY DEF Init, NewIsCounted, Zero
<1>3. \A f \in Flushers : fl[f].at = "idle" BY DEF Init, Up, Down
<1>. QED BY <1>1, <1>2, <1>3 DEF Single, SeenIsNew, OneHasIt, Reading

-------------------------------------------------------------------------------
(***************************************************************************)
(* The quota. The requests that have passed the check and not counted yet  *)
(* are counted ahead, as if they had.                                      *)
(***************************************************************************)
Sending(k) == {t \in Tasks : task[t].at = "month" /\ task[t].key = k}

CountedAhead ==
    \A k \in Keys : Quota[k] > 0 =>
       month[k] + Cardinality(Sending(k)) < Quota[k] + Cardinality(Tasks) + faults

LEMMA SendingBounded ==
    ASSUME NEW S \in SUBSET Tasks
    PROVE  /\ IsFiniteSet(S) /\ Cardinality(S) \in Nat /\ Cardinality(Tasks) \in Nat
           /\ Cardinality(S) <= Cardinality(Tasks)
BY FS_Subset, FS_CardinalityType, TasksAssumption

\* A step of one request moves it out of the requests of a key, or into them.
LEMMA SendingMoves ==
    ASSUME NEW t \in Tasks, NEW k, \A u \in Tasks : u # t => task'[u] = task[u]
    PROVE  /\ t \notin Sending(k)' =>
                /\ t \in Sending(k) => Cardinality(Sending(k)') = Cardinality(Sending(k)) - 1
                /\ t \notin Sending(k) => Cardinality(Sending(k)') = Cardinality(Sending(k))
           /\ t \in Sending(k)' =>
                /\ t \in Sending(k) => Cardinality(Sending(k)') = Cardinality(Sending(k))
                /\ t \notin Sending(k) => Cardinality(Sending(k)') = Cardinality(Sending(k)) + 1
<1>1. IsFiniteSet(Sending(k)) BY SendingBounded DEF Sending
<1>2. CASE t \notin Sending(k)'
  <2>1. Sending(k)' = Sending(k) \ {t} BY <1>2 DEF Sending
  <2>. QED BY <1>1, <1>2, <2>1, FS_RemoveElement
<1>3. CASE t \in Sending(k)'
  <2>1. Sending(k)' = Sending(k) \cup {t} BY <1>3 DEF Sending
  <2>. QED BY <1>1, <1>3, <2>1, FS_AddElement
<1>. QED BY <1>2, <1>3

LEMMA Limits ==
    ASSUME TypeOK, NEW k \in Keys
    PROVE  /\ month[k] \in Nat /\ Quota[k] \in Nat /\ faults \in Nat
           /\ Cardinality(Sending(k)) \in Nat /\ Cardinality(Tasks) \in Nat
           /\ Cardinality(Sending(k)) <= Cardinality(Tasks)
BY LimitsAssumption, BoundsAssumption, SendingBounded DEF TypeOK, Sending

LEMMA FaultOrNot ==
    ASSUME TypeOK
    PROVE  /\ faults \in Nat
           /\ Fault => faults' = faults + 1
           /\ NoFault => faults' = faults
BY BoundsAssumption DEF TypeOK, Fault, NoFault

\* A request that joins those of its key does so through a failure.
LEMMA AheadKept ==
    ASSUME TypeOK, CountedAhead, NEW t \in Tasks, UNCHANGED month,
           \A u \in Tasks : u # t => task'[u] = task[u],
           \/ faults' = faults + 1
           \/ faults' = faults /\ task'[t].at # "month"
    PROVE  CountedAhead'
<1>1. ASSUME NEW k \in Keys, Quota[k] > 0
      PROVE  month'[k] + Cardinality(Sending(k)') < Quota[k] + Cardinality(Tasks) + faults'
  <2>1. month[k] + Cardinality(Sending(k)) < Quota[k] + Cardinality(Tasks) + faults
    BY <1>1 DEF CountedAhead
  <2>2. Cardinality(Sending(k)') <= Cardinality(Sending(k)) + 1 BY SendingMoves, Limits
  <2>3. Cardinality(Sending(k)') \in Nat BY SendingBounded DEF Sending
  <2>4. CASE faults' = faults + 1 BY <2>1, <2>2, <2>3, <2>4, Limits
  <2>5. CASE faults' = faults /\ task'[t].at # "month"
    <3>1. t \notin Sending(k)' BY <2>5 DEF Sending
    <3>2. Cardinality(Sending(k)') <= Cardinality(Sending(k)) BY <3>1, SendingMoves, Limits
    <3>. QED BY <2>1, <2>3, <2>5, <3>2, Limits
  <2>. QED BY <2>4, <2>5
<1>. QED BY <1>1 DEF CountedAhead

LEMMA AheadStep == ASSUME TypeOK, AddsAField, CountedAhead, [Next]_vars PROVE CountedAhead'
<1>1. ASSUME UNCHANGED <<month, task>>, Fault \/ NoFault PROVE CountedAhead'
  <2>1. \A k : Sending(k)' = Sending(k) BY <1>1 DEF Sending
  <2>2. faults' \in Nat /\ faults <= faults' BY <1>1, FaultOrNot
  <2>. QED BY <2>1, <2>2, <1>1, Limits DEF CountedAhead
<1>2. ASSUME NEW t \in Tasks, Validate(t) PROVE CountedAhead'
  <2>1. UNCHANGED month /\ faults' = faults BY <1>2 DEF Validate, redis, NoFault
  <2>2. \/ UNCHANGED task
        \/ \E k \in Keys, kind \in Kinds : /\ task' = [task EXCEPT ![t] = Job(k, kind)]
                                           /\ month[k] < Quota[k]
    BY <1>2, KindsAssumption DEF Validate, Limited, Admitted
  <2>3. CASE UNCHANGED task BY <2>1, <2>3, <1>1 DEF NoFault
  <2>4. ASSUME NEW j \in Keys, NEW kind \in Kinds, month[j] < Quota[j],
               task' = [task EXCEPT ![t] = Job(j, kind)]
        PROVE  CountedAhead'
    <3>1. task'[t].key = j /\ \A u \in Tasks : u # t => task'[u] = task[u]
      BY <2>4 DEF TypeOK, Job
    <3>2. ASSUME NEW k \in Keys, Quota[k] > 0
          PROVE  month'[k] + Cardinality(Sending(k)') < Quota[k] + Cardinality(Tasks) + faults'
      <4>1. CASE k = j
        <5>1. Cardinality(Sending(k)') <= Cardinality(Tasks) /\ Cardinality(Sending(k)') \in Nat
          BY SendingBounded DEF Sending
        <5>. QED BY <4>1, <5>1, <2>1, <2>4, Limits
      <4>2. CASE k # j
        <5>1. t \notin Sending(k)' BY <3>1, <4>2 DEF Sending
        <5>2. Cardinality(Sending(k)') <= Cardinality(Sending(k)) BY <5>1, <3>1, SendingMoves, Limits
        <5>3. Cardinality(Sending(k)') \in Nat BY SendingBounded DEF Sending
        <5>. QED BY <5>2, <5>3, <2>1, <3>2, Limits DEF CountedAhead
      <4>. QED BY <4>1, <4>2
    <3>. QED BY <3>2 DEF CountedAhead
  <2>. QED BY <2>2, <2>3, <2>4
<1>3. ASSUME NEW t \in Tasks, CountMonth(t) PROVE CountedAhead'
  <2>1. task[t].at = "month" BY <1>3 DEF CountMonth
  <2>2. task[t] # NoTask BY <2>1 DEF NoTask
  <2>3. task[t].key \in Keys BY <2>2, TaskFields
  <2>. DEFINE j == task[t].key
  <2>4. /\ \A u \in Tasks : u # t => task'[u] = task[u]
        /\ \/ faults' = faults /\ task'[t].at = "track"
           \/ faults' = faults + 1
        /\ \A k \in Keys : month'[k] = month[k] \/ (k = j /\ month'[k] = month[k] + 1)
        /\ \A k \in Keys : t \in Sending(k)' => k = j
    <3>1. CASE Goto(t, "track") /\ month' = [month EXCEPT ![task[t].key] = @ + 1]
      <4>1. /\ \A u \in Tasks : u # t => task'[u] = task[u]
            /\ task'[t].at = "track" /\ faults' = faults
        BY <3>1, <2>2, TaskFields DEF Goto, NoFault, TypeOK, TaskStates
      <4>2. \A k \in Keys : month'[k] = month[k] \/ (k = j /\ month'[k] = month[k] + 1)
        BY <3>1 DEF TypeOK
      <4>. QED BY <4>1, <4>2 DEF Sending
    <3>2. CASE /\ Break(t)
               /\ month' \in {month, [month EXCEPT ![task[t].key] = @ + 1]}
      <4>1. /\ \A u \in Tasks : u # t => task'[u] = task[u]
            /\ task'[t] = NoTask \/ task'[t].key = j
        BY <3>2 DEF Break, TypeOK, Job
      <4>2. \A k \in Keys : month'[k] = month[k] \/ (k = j /\ month'[k] = month[k] + 1)
        BY <3>2 DEF TypeOK
      <4>3. faults' = faults + 1 BY <3>2, FaultOrNot DEF Break
      <4>. QED BY <4>1, <4>2, <4>3 DEF Sending, NoTask
    <3>. QED BY <1>3, <3>1, <3>2 DEF CountMonth
  <2>5. t \in Sending(j) /\ \A k \in Keys : t \in Sending(k) => k = j BY <2>1 DEF Sending
  <2>6. ASSUME NEW k \in Keys, Quota[k] > 0
        PROVE  month'[k] + Cardinality(Sending(k)') < Quota[k] + Cardinality(Tasks) + faults'
    <3>1. month[k] + Cardinality(Sending(k)) < Quota[k] + Cardinality(Tasks) + faults
      BY <2>6 DEF CountedAhead
    <3>2. Cardinality(Sending(k)') \in Nat BY SendingBounded DEF Sending
    <3>3. CASE k # j
      <4>1. t \notin Sending(k) /\ t \notin Sending(k)' BY <3>3, <2>4, <2>5
      <4>2. Cardinality(Sending(k)') = Cardinality(Sending(k)) BY <4>1, <2>4, SendingMoves
      <4>3. month'[k] = month[k] BY <3>3, <2>4
      <4>. QED BY <3>1, <4>2, <4>3, <2>4, Limits
    <3>4. CASE k = j /\ faults' = faults + 1
      <4>1. Cardinality(Sending(k)') <= Cardinality(Sending(k))
        BY <3>4, <2>4, <2>5, SendingMoves, Limits
      <4>. QED BY <3>1, <3>2, <3>4, <4>1, <2>4, Limits
    <3>5. CASE k = j /\ faults' = faults /\ task'[t].at = "track"
      <4>1. t \notin Sending(k)' BY <3>5 DEF Sending
      <4>2. Cardinality(Sending(k)') = Cardinality(Sending(k)) - 1
        BY <3>5, <4>1, <2>4, <2>5, SendingMoves
      <4>. QED BY <3>1, <3>5, <4>2, <2>4, Limits
    <3>. QED BY <2>4, <3>3, <3>4, <3>5
  <2>. QED BY <2>6 DEF CountedAhead
<1>4. ASSUME NEW t \in Tasks, Track(t) \/ Add(t) \/ Expire(t) \/ CrashTask(t) PROVE CountedAhead'
  <2>1. UNCHANGED month BY <1>4 DEF Track, Add, Expire, CrashTask, redis
  <2>2. task[t] # NoTask BY <1>4 DEF Track, Add, Expire, CrashTask, NoTask
  <2>3. task[t].at \in {"month", "track", "add", "expire"} BY <2>2, TaskFields
  <2>4. CASE Break(t)
    <3>1. \A u \in Tasks : u # t => task'[u] = task[u] BY <2>4 DEF Break, TypeOK
    <3>2. faults' = faults + 1 BY <2>4, FaultOrNot DEF Break
    <3>. QED BY <2>1, <3>1, <3>2, AheadKept
  <2>5. CASE CrashTask(t)
    <3>1. \A u \in Tasks : u # t => task'[u] = task[u] BY <2>5 DEF CrashTask, TypeOK
    <3>2. faults' = faults + 1 BY <2>5, FaultOrNot DEF CrashTask
    <3>. QED BY <2>1, <3>1, <3>2, AheadKept
  <2>6. CASE NoFault /\ (Track(t) \/ Add(t) \/ Expire(t))
    <3>0. faults' = faults /\ ~Break(t) BY <2>6, FaultOrNot DEF NoFault, Break
    <3>1. task[t] \in [at : {"month", "track", "add", "expire"}, key : Keys, kind : Kinds,
                       hour : Hours, left : Seq(Fields)]
      BY <2>2 DEF TypeOK, TaskStates
    <3>2. CASE Track(t)
      <4>1. task' = [task EXCEPT ![t].at = "add", ![t].hour = now, ![t].left = FieldsOf[task[t].kind]]
        BY <3>0, <3>2 DEF Track
      <4>2. task'[t].at = "add" /\ \A u \in Tasks : u # t => task'[u] = task[u]
        BY <4>1, <3>1 DEF TypeOK
      <4>. QED BY <4>2, <2>1, <3>0, AheadKept
    <3>3. CASE Add(t)
      <4>1. task' = [task EXCEPT ![t].left = Tail(@),
                                 ![t].at = IF Len(task[t].left) = 1 THEN "expire" ELSE "add"]
        BY <3>0, <3>3 DEF Add
      <4>2. task'[t].at \in {"add", "expire"} /\ \A u \in Tasks : u # t => task'[u] = task[u]
        BY <4>1, <3>1 DEF TypeOK
      <4>. QED BY <4>2, <2>1, <3>0, AheadKept
    <3>4. CASE Expire(t)
      <4>1. task' = [task EXCEPT ![t] = NoTask] BY <3>0, <3>4 DEF Expire
      <4>2. task'[t].at = "none" /\ \A u \in Tasks : u # t => task'[u] = task[u]
        BY <4>1 DEF TypeOK, NoTask
      <4>. QED BY <4>2, <2>1, <3>0, AheadKept
    <3>. QED BY <2>6, <3>2, <3>3, <3>4
  <2>. QED BY <1>4, <2>4, <2>5, <2>6 DEF Track, Add, Expire
<1>5. ASSUME NEW f \in Flushers, Flush(f) \/ Tick(f) \/ Shutdown(f) \/ Restart(f) \/ Crash(f)
      PROVE CountedAhead'
  BY <1>5, <1>1 DEF Flush, Tick, Shutdown, Start, Read, Commit, Untrack, Delete, Return, Restart,
                    Crash, redis
<1>6. ASSUME NEW id \in Hashes, Expires(id) PROVE CountedAhead' BY <1>6, <1>1 DEF Expires
<1>7. CASE Restore BY <1>7, <1>1 DEF Restore
<1>8. CASE HourEnds BY <1>8, <1>1 DEF HourEnds, redis
<1>9. CASE Wipe
  <2>1. \A k : Sending(k)' = Sending(k) BY <1>9 DEF Wipe, Sending
  <2>2. \A k \in Keys : month'[k] = 0 BY <1>9 DEF Wipe
  <2>3. faults' = faults + 1 BY <1>9, FaultOrNot DEF Wipe
  <2>. QED BY <2>1, <2>2, <2>3, Limits DEF CountedAhead
<1>10. CASE UNCHANGED vars BY <1>10, <1>1 DEF vars, redis, NoFault
<1>. QED BY <1>2, <1>3, <1>4, <1>5, <1>6, <1>7, <1>8, <1>9, <1>10 DEF Next, Increment

LEMMA InitAhead == Init => CountedAhead
<1>. SUFFICES ASSUME Init PROVE CountedAhead OBVIOUS
<1>1. \A k : Sending(k) = {} BY DEF Init, Sending, NoTask
<1>2. Cardinality({}) = 0 BY FS_EmptySet
<1>3. \A k \in Keys : month[k] \in Nat /\ Quota[k] \in Nat /\ month[k] <= Quota[k]
  BY LimitsAssumption DEF Init
<1>4. Cardinality(Tasks) \in Nat /\ Cardinality(Tasks) # 0 /\ faults = 0
  BY TasksAssumption, FS_CardinalityType, FS_EmptySet DEF Init
<1>. QED BY <1>1, <1>2, <1>3, <1>4 DEF CountedAhead

-------------------------------------------------------------------------------
(***************************************************************************)
(* A hash without a TTL is known while nothing fails.                      *)
(***************************************************************************)
Timing(id) == \E t \in Tasks : task[t].at \in {"add", "expire"} /\ Id(t) = id

LEMMA NoFaultSoFar ==
    ASSUME TypeOK, [Next]_vars, faults' = 0
    PROVE  faults = 0 /\ ~Fault
<1>1. faults \in Nat /\ ~Fault BY DEF TypeOK, Fault
<1>2. Fault \/ faults' = faults
  BY DEF Next, vars, NoFault, Validate, Increment, CountMonth, Track, Add, Expire, Break, Goto,
         CrashTask, Tick, Shutdown, Start, Flush, Read, Commit, Untrack, Delete, Return, Restart,
         Crash, Expires, Restore, HourEnds, Wipe
<1>. QED BY <1>1, <1>2

\* What there is in Redis does not grow, nobody forgets what there is.
LEMMA UntimedFrame ==
    ASSUME UntimedIsKnown, faults' = 0 => faults = 0,
           \A id \in Hashes : faults' = 0 /\ Exists(id)' /\ due'[id] = Never =>
              /\ Exists(id) /\ due[id] = Never
              /\ id \in tracked => id \in tracked' \/ Held(id)'
              /\ Held(id) => Held(id)'
              /\ Timing(id) => Timing(id)'
    PROVE  UntimedIsKnown'
BY DEF UntimedIsKnown, Timing

LEMMA UntimedTask ==
    ASSUME TypeOK, AddsAField, UntimedIsKnown, NEW t \in Tasks, Validate(t) \/ Increment(t),
           faults = 0, faults' = 0, ~Fault
    PROVE  UntimedIsKnown'
<1>1. UNCHANGED fl BY DEF Validate, Increment, CountMonth, Track, Add, Expire
<1>2. \A id : Held(id)' <=> Held(id) BY <1>1 DEF Held
<1>3. ASSUME \A u \in Tasks : u # t => task'[u] = task[u],
             task[t].at \notin {"add", "expire"} \/
                (task'[t].at \in {"add", "expire"} /\ Id(t)' = Id(t))
      PROVE  \A id : Timing(id) => Timing(id)'
  BY <1>3 DEF Timing, Id
<1>4. CASE Validate(t)
  <2>1. \A u \in Tasks : u # t => task'[u] = task[u] BY <1>4 DEF Validate, TypeOK
  <2>2. task[t].at \notin {"add", "expire"} BY <1>4 DEF Validate, NoTask
  <2>3. \A id : Timing(id) => Timing(id)' BY <1>3, <2>1, <2>2
  <2>4. UNCHANGED <<tracked, hash, marked, due>> BY <1>4 DEF Validate, redis
  <2>. QED BY <1>2, <2>3, <2>4, UntimedFrame DEF Exists
<1>5. CASE CountMonth(t)
  <2>1. task' = [task EXCEPT ![t].at = "track"] BY <1>5 DEF CountMonth, Break, Goto
  <2>2. \A u \in Tasks : u # t => task'[u] = task[u] BY <2>1 DEF TypeOK
  <2>3. task[t].at \notin {"add", "expire"} BY <1>5 DEF CountMonth
  <2>4. \A id : Timing(id) => Timing(id)' BY <1>3, <2>2, <2>3
  <2>5. UNCHANGED <<tracked, hash, marked, due>> BY <1>5 DEF CountMonth
  <2>. QED BY <1>2, <2>4, <2>5, UntimedFrame DEF Exists
<1>6. CASE Track(t)
  <2>1. /\ tracked' = tracked \cup {<<task[t].key, now>>}
        /\ task' = [task EXCEPT ![t].at = "add", ![t].hour = now,
                                ![t].left = FieldsOf[task[t].kind]]
    BY <1>6 DEF Track, Break
  <2>2. \A u \in Tasks : u # t => task'[u] = task[u] BY <2>1 DEF TypeOK
  <2>3. task[t].at \notin {"add", "expire"} BY <1>6 DEF Track
  <2>4. \A id : Timing(id) => Timing(id)' BY <1>3, <2>2, <2>3
  <2>5. UNCHANGED <<hash, marked, due>> BY <1>6 DEF Track
  <2>. QED BY <1>2, <2>1, <2>4, <2>5, UntimedFrame DEF Exists
<1>7. CASE Add(t)
  <2>0. task[t] \in [at : {"month", "track", "add", "expire"}, key : Keys, kind : Kinds,
                     hour : Hours, left : Seq(Fields)]
    BY <1>7, BusyTask DEF Add, TypeOK, TaskStates
  <2>1. /\ Incremented(t)
        /\ task' = [task EXCEPT ![t].left = Tail(@),
                                ![t].at = IF Len(task[t].left) = 1 THEN "expire" ELSE "add"]
    BY <1>7 DEF Add, Break
  <2>2. \A u \in Tasks : u # t => task'[u] = task[u] BY <2>1 DEF TypeOK
  <2>3. task'[t].at \in {"add", "expire"} /\ Id(t)' = Id(t) BY <2>0, <2>1 DEF TypeOK, Id
  <2>4. \A id : Timing(id) => Timing(id)' BY <1>3, <2>2, <2>3
  <2>5. \A id \in Hashes : id # Id(t) => hash'[id] = hash[id] BY <2>1 DEF Incremented, TypeOK
  <2>6. \A id : id = Id(t) => Timing(id)' BY <2>3 DEF Timing
  <2>7. UNCHANGED <<tracked, marked, due>> BY <1>7 DEF Add
  <2>8. ASSUME NEW id \in Hashes, Exists(id)', due'[id] = Never
        PROVE  id \in tracked' \/ Held(id)' \/ Timing(id)'
    <3>1. CASE id = Id(t) BY <3>1, <2>6
    <3>2. CASE id # Id(t)
      BY <3>2, <2>8, <1>2, <2>4, <2>5, <2>7 DEF Exists, UntimedIsKnown, Timing
    <3>. QED BY <3>1, <3>2
  <2>. QED BY <2>8 DEF UntimedIsKnown, Timing
<1>8. CASE Expire(t)
  <2>0. task[t] \in [at : {"month", "track", "add", "expire"}, key : Keys, kind : Kinds,
                     hour : Hours, left : Seq(Fields)]
    BY <1>8, BusyTask DEF Expire, TypeOK, TaskStates
  <2>1. /\ task' = [task EXCEPT ![t] = NoTask]
        /\ due' = IF Exists(Id(t)) THEN [due EXCEPT ![Id(t)] = now + TtlHours] ELSE due
    BY <1>8 DEF Expire, Break
  <2>2. UNCHANGED <<tracked, hash, marked>> BY <1>8 DEF Expire
  <2>3. Id(t) \in Hashes BY <2>0 DEF Id, Hashes
  <2>4. now + TtlHours # Never BY BatchAssumption DEF TypeOK, Hours, Never
  <2>5. Exists(Id(t)) => due'[Id(t)] # Never BY <2>1, <2>3, <2>4 DEF TypeOK
  <2>6. \A id \in Hashes : id # Id(t) => due'[id] = due[id] BY <2>1 DEF TypeOK
  <2>7. \A id : id # Id(t) /\ Timing(id) => Timing(id)' BY <2>1 DEF Timing, Id, TypeOK
  <2>8. \A id \in Hashes : Exists(id)' /\ due'[id] = Never => id # Id(t)
    BY <2>2, <2>5 DEF Exists
  <2>. QED BY <1>2, <2>2, <2>6, <2>7, <2>8, UntimedFrame DEF Exists
<1>. QED BY <1>4, <1>5, <1>6, <1>7, <1>8 DEF Increment

LEMMA UntimedFlusher ==
    ASSUME TypeOK, Safe, UntimedIsKnown, faults = 0, faults' = 0, ~Fault, NEW f \in Flushers,
           Flush(f) \/ Tick(f) \/ Shutdown(f) \/ Restart(f) \/ Crash(f)
    PROVE  UntimedIsKnown'
<1>1. UNCHANGED task
  BY DEF Flush, Tick, Shutdown, Start, Read, Commit, Untrack, Delete, Return, Restart, Crash
<1>2. \A id : Timing(id)' <=> Timing(id) BY <1>1 DEF Timing, Id
<1>3. ASSUME NEW id, \A g \in Flushers : g # f => fl'[g] = fl[g],
             id \in fl[f].batch => id \in fl'[f].batch
      PROVE  Held(id) => Held(id)'
  BY <1>3 DEF Held
<1>4. ASSUME NEW all \in BOOLEAN, Start(f, all) PROVE UntimedIsKnown'
  <2>1. fl' = [fl EXCEPT ![f].at = "read", ![f].all = all, ![f].todo = Eligible(all)]
    BY <1>4 DEF Start
  <2>2. /\ \A g \in Flushers : g # f => fl'[g] = fl[g]
        /\ fl'[f].batch = fl[f].batch
    BY <2>1 DEF TypeOK, FlusherStates
  <2>3. \A id : Held(id) => Held(id)' BY <1>3, <2>2
  <2>4. UNCHANGED <<hash, tracked>> BY <1>4 DEF Start
  <2>5. \A id \in Hashes : Exists(id)' => Exists(id) /\ due'[id] = due[id]
    BY <1>4, <2>4 DEF Start, RecoverOrphans, Exists
  <2>. QED BY <1>2, <2>3, <2>4, <2>5, UntimedFrame
<1>5. CASE Read(f)
  <2>1. PICK i \in fl[f].todo : marked' = marked \cup {i} /\ fl' = [fl EXCEPT ![f] = Taken(f, i)]
    BY <1>5 DEF Read
  <2>2. /\ \A g \in Flushers : g # f => fl'[g] = fl[g]
        /\ fl'[f].batch = fl[f].batch \cup {i}
    <3>1. Taken(f, i).batch = fl[f].batch \cup {i} BY FlusherFields DEF Taken, FlusherStates
    <3>. QED BY <2>1, <3>1 DEF TypeOK
  <2>3. \A id : Held(id) => Held(id)' BY <1>3, <2>2
  <2>4. Held(i)' BY <2>2 DEF Held
  <2>5. UNCHANGED <<hash, tracked, due>> BY <1>5 DEF Read
  <2>6. ASSUME NEW id \in Hashes, Exists(id)', due'[id] = Never
        PROVE  id \in tracked' \/ Held(id)' \/ Timing(id)'
    <3>1. CASE id = i BY <3>1, <2>4
    <3>2. CASE id # i
      BY <3>2, <2>1, <2>6, <1>2, <2>3, <2>5 DEF Exists, UntimedIsKnown, Timing
    <3>. QED BY <3>1, <3>2
  <2>. QED BY <2>6 DEF UntimedIsKnown, Timing
<1>6. CASE Commit(f)
  <2>1. fl' = [fl EXCEPT ![f].at = "untrack"] BY <1>6 DEF Commit
  <2>2. /\ \A g \in Flushers : g # f => fl'[g] = fl[g]
        /\ fl'[f].batch = fl[f].batch
    BY <2>1 DEF TypeOK, FlusherStates
  <2>3. \A id : Held(id) => Held(id)' BY <1>3, <2>2
  <2>4. UNCHANGED <<hash, marked, due, tracked>> BY <1>6 DEF Commit, redis
  <2>. QED BY <1>2, <2>3, <2>4, UntimedFrame DEF Exists
<1>7. CASE Untrack(f)
  <2>1. PICK i \in fl[f].batch : /\ fl' = [fl EXCEPT ![f].at = "delete", ![f].cur = {i}]
                                 /\ tracked' = tracked \ {i}
    BY <1>7 DEF Untrack
  <2>2. /\ \A g \in Flushers : g # f => fl'[g] = fl[g]
        /\ fl'[f].batch = fl[f].batch
    BY <2>1 DEF TypeOK, FlusherStates
  <2>3. \A id : Held(id) => Held(id)' BY <1>3, <2>2
  <2>4. \A id : id \in tracked => id \in tracked' \/ Held(id)' BY <2>1, <2>2 DEF Held
  <2>5. UNCHANGED <<hash, marked, due>> BY <1>7 DEF Untrack
  <2>. QED BY <1>2, <2>3, <2>4, <2>5, UntimedFrame DEF Exists
<1>8. CASE Delete(f)
  <2>1. fl' = [fl EXCEPT ![f] = Drained(f)] /\ Removed(fl[f].cur) BY <1>8 DEF Delete
  <2>2. Drained(f).batch = fl[f].batch \ fl[f].cur
    BY FlusherFields DEF Drained, FlusherStates
  <2>3. /\ \A g \in Flushers : g # f => fl'[g] = fl[g]
        /\ fl'[f].batch = fl[f].batch \ fl[f].cur
    BY <2>1, <2>2 DEF TypeOK
  <2>4. \A id : id \notin fl[f].cur => (Held(id) => Held(id)') BY <1>3, <2>3
  <2>5. \A id \in Hashes : Exists(id)' =>
           id \notin fl[f].cur /\ Exists(id) /\ due'[id] = due[id]
    BY <2>1 DEF Removed, Exists
  <2>6. UNCHANGED tracked BY <1>8 DEF Delete
  <2>. QED BY <1>2, <2>4, <2>5, <2>6, UntimedFrame
<1>9. CASE Return(f) \/ Restart(f)
  <2>1. fl[f].batch = {} BY <1>9 DEF Return, Restart, Safe, CurIsHeld
  <2>2. \A g \in Flushers : g # f => fl'[g] = fl[g] BY <1>9 DEF Return, Restart, TypeOK
  <2>3. \A id : Held(id) => Held(id)' BY <1>3, <2>1, <2>2
  <2>4. UNCHANGED <<hash, marked, due, tracked>> BY <1>9 DEF Return, Restart, redis
  <2>. QED BY <1>2, <2>3, <2>4, UntimedFrame DEF Exists
<1>10. ~Crash(f) BY DEF Crash
<1>. QED BY <1>4, <1>5, <1>6, <1>7, <1>8, <1>9, <1>10 DEF Flush, Tick, Shutdown

LEMMA UntimedStep ==
    ASSUME TypeOK, AddsAField, Safe, UntimedIsKnown, [Next]_vars
    PROVE  UntimedIsKnown'
<1>0. CASE faults' # 0 BY <1>0 DEF UntimedIsKnown
<1>a. CASE faults' = 0
  <2>0. faults = 0 /\ ~Fault BY <1>a, NoFaultSoFar
  <2>1. ASSUME NEW t \in Tasks, Validate(t) \/ Increment(t) PROVE UntimedIsKnown'
    BY <1>a, <2>0, <2>1, UntimedTask
  <2>2. ASSUME NEW f \in Flushers,
               Flush(f) \/ Tick(f) \/ Shutdown(f) \/ Restart(f) \/ Crash(f)
        PROVE  UntimedIsKnown'
    BY <1>a, <2>0, <2>2, UntimedFlusher
  <2>3. ASSUME NEW id \in Hashes, Expires(id) PROVE UntimedIsKnown'
    <3>1. UNCHANGED <<tracked, task, fl>> BY <2>3 DEF Expires
    <3>2. \A i \in Hashes : Exists(i)' => Exists(i) /\ due'[i] = due[i]
      BY <2>3 DEF Expires, Vanish, Removed, Exists
    <3>3. \A i : (Held(i) => Held(i)') /\ (Timing(i) => Timing(i)')
      BY <3>1 DEF Held, Timing, Id
    <3>. QED BY <2>0, <3>1, <3>2, <3>3, UntimedFrame
  <2>4. CASE HourEnds \/ UNCHANGED vars
    <3>1. UNCHANGED <<tracked, hash, marked, due, task, fl>>
      BY <2>4 DEF HourEnds, vars, redis
    <3>. QED BY <2>0, <3>1 DEF UntimedIsKnown, Exists, Held, Id
  <2>5. ~Restore /\ ~Wipe /\ \A t \in Tasks : ~CrashTask(t)
    BY <2>0 DEF Restore, Wipe, CrashTask
  <2>. QED BY <2>1, <2>2, <2>3, <2>4, <2>5 DEF Next
<1>1. faults' = 0 \/ faults' # 0 OBVIOUS
<1>. QED BY <1>0, <1>a, <1>1

LEMMA InitUntimed == Init => UntimedIsKnown
BY DEF Init, UntimedIsKnown, Exists

(***************************************************************************)
(* Every reachable state has the types of TypeOK.                          *)
(***************************************************************************)
THEOREM TypeCorrect == Spec => []TypeOK
<1>1. Init => TypeOK /\ AddsAField BY InitType
<1>2. (TypeOK /\ AddsAField) /\ [Next]_vars => (TypeOK /\ AddsAField)' BY TypeStep
<1>. QED BY <1>1, <1>2, PTL DEF Spec

(***************************************************************************)
(* However requests, flushers, failures and restorations interleave, what  *)
(* was counted is in PostgreSQL or in Redis, unless an increment came      *)
(* between a flusher's read and its DEL, or Redis let it go.               *)
(***************************************************************************)
THEOREM CountsAreKept == Spec => []NothingLost
<1>1. Init => TypeOK /\ AddsAField /\ Safe BY InitType, InitSafe
<1>2. (TypeOK /\ AddsAField /\ Safe) /\ [Next]_vars => (TypeOK /\ AddsAField /\ Safe)'
  BY TypeStep, SafeStep
<1>3. Safe => NothingLost BY DEF Safe
<1>. QED BY <1>1, <1>2, <1>3, PTL DEF Spec

(***************************************************************************)
(* PostgreSQL never has more than was counted, for any number of servers   *)
(* that flush, fail and restart, unless a hash was read while another      *)
(* flusher held it or while its counts were in PostgreSQL already.         *)
(***************************************************************************)
THEOREM CountsAreSingle == Spec => []NothingDoubled
<1>1. Init => TypeOK /\ AddsAField /\ Safe /\ Single BY InitType, InitSafe, InitSingle
<1>2. (TypeOK /\ AddsAField /\ Safe /\ Single) /\ [Next]_vars
         => (TypeOK /\ AddsAField /\ Safe /\ Single)'
  BY TypeStep, SafeStep, SingleStep
<1>3. Single => NothingDoubled BY DEF Single
<1>. QED BY <1>1, <1>2, <1>3, PTL DEF Spec

(***************************************************************************)
(* However many requests are served at once, the month of a key exceeds    *)
(* its quota by less than their number, and one for each failure.          *)
(***************************************************************************)
THEOREM QuotaKept == Spec => []QuotaHolds
<1>1. Init => TypeOK /\ AddsAField /\ CountedAhead BY InitType, InitAhead
<1>2. (TypeOK /\ AddsAField /\ CountedAhead) /\ [Next]_vars
         => (TypeOK /\ AddsAField /\ CountedAhead)'
  BY TypeStep, AheadStep
<1>3. TypeOK /\ CountedAhead => QuotaHolds BY Limits DEF CountedAhead, QuotaHolds
<1>. QED BY <1>1, <1>2, <1>3, PTL DEF Spec

(***************************************************************************)
(* While nothing fails, a hash without a TTL is known to the set, to a     *)
(* flusher or to the increment that will time it, whatever requests and    *)
(* flushers overlap.                                                       *)
(***************************************************************************)
THEOREM UntimedAreKnown == Spec => []UntimedIsKnown
<1>1. Init => TypeOK /\ AddsAField /\ Safe /\ UntimedIsKnown
  BY InitType, InitSafe, InitUntimed
<1>2. (TypeOK /\ AddsAField /\ Safe /\ UntimedIsKnown) /\ [Next]_vars
         => (TypeOK /\ AddsAField /\ Safe /\ UntimedIsKnown)'
  BY TypeStep, SafeStep, UntimedStep
<1>. QED BY <1>1, <1>2, PTL DEF Spec

===============================================================================
