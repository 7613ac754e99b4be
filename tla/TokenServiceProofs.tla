-------------------------- MODULE TokenServiceProofs --------------------------
(***************************************************************************)
(* For any number of requests, pairs and failures: a refresh token that    *)
(* was exchanged is spent, and a session that a password reset ended, and  *)
(* nothing holds any more, is not revived.                                 *)
(*                                                                         *)
(* The first holds though marks expire and are deleted, as it rests on     *)
(* Recorded alone: an exchange is in PostgreSQL, on its way there, or      *)
(* known to have failed. Ties says what pairs the tasks speak of.          *)
(*                                                                         *)
(* Then, how the tables and the cache agree: the chain of rotations has no *)
(* gap (Chain), no used row is fresh in the cache (Spending), and a second *)
(* exchange of a token is one that raced with the first (Once).            *)
(***************************************************************************)
EXTENDS TokenService, FiniteSetTheorems, TLAPS

Presenting == {"load", "mark", "revoke", "delete", "find", "fill"}
LoggingIn == {"setSession", "setRefresh"}
Exchanged == {"setNew", "setAccess"}

TaskTies ==
    \A t \in Tasks :
       /\ task[t].pc \in Presenting => task[t].tok \in held
       /\ task[t].pc \in LoggingIn \cup Exchanged => task[t].new \in 1..minted
       /\ task[t].pc \in LoggingIn => parent[task[t].new] = NoPair

RotationTies ==
    \A i \in Pairs :
       /\ rotating[i] # "none" => i \in 1..minted
       /\ rotating[i] \in {"find", "mark"} => parent[i] \in 1..minted
       /\ rotating[i] = "mark" => parent[i] \in rows

LineageTies ==
    /\ \A i \in 1..minted : family[i] \in 1..minted
    /\ \A i \in Pairs : i > minted => parent[i] = NoPair

Ties == TaskTies /\ RotationTies /\ LineageTies

Recorded ==
    \A r \in Pairs : granted[r] > 0 => r \in usedRows \/ Rotating(r) \/ r \in unrecorded

-------------------------------------------------------------------------------
(***************************************************************************)
(* Types.                                                                  *)
(***************************************************************************)
LEMMA Bounds == MaxPairs \in Nat /\ Faults \subseteq FaultKinds /\ IsFiniteSet(Tasks)
BY MaxPairsAssumption, FaultsAssumption, TasksAssumption

LEMMA FailureType ==
    ASSUME TypeOK, NoFault \/ \E kind : Fault(kind)
    PROVE  failed' \subseteq FaultKinds
BY Bounds DEF NoFault, Fault, TypeOK

LEMMA Minted ==
    ASSUME TypeOK
    PROVE  /\ minted \in Nat /\ minted <= MaxPairs /\ MaxPairs \in Nat /\ 1..minted \subseteq Pairs
           /\ 1..minted \subseteq 1..(minted + 1) /\ NoPair \notin Pairs
           /\ minted < MaxPairs => minted + 1 \in Pairs /\ minted + 1 \in 0..MaxPairs
           /\ minted + 1 \notin 1..minted /\ minted + 1 \in 1..(minted + 1)
           /\ Pairs \subseteq 0..MaxPairs
BY Bounds DEF TypeOK, Pairs, NoPair

LEMMA RoomLeft ==
    ASSUME TypeOK, PairLeft
    PROVE  minted < MaxPairs
<1>. DEFINE S == {t \in Tasks : task[t].pc \in {"load", "mark"}}
<1>1. S \subseteq Tasks OBVIOUS
<1>2. Cardinality(S) \in Nat BY <1>1, Bounds, FS_Subset, FS_CardinalityType
<1>3. minted + Cardinality(S) < MaxPairs BY DEF PairLeft
<1>. HIDE DEF S
<1>. QED BY <1>2, <1>3, Minted

LEMMA TaskMoves ==
    ASSUME TypeOK, NEW t \in Tasks
    PROVE  /\ task[t] \in [pc : TaskStates, tok : 0..MaxPairs, new : 0..MaxPairs]
           /\ \A at \in TaskStates :
                 Step(t, at) => /\ task' \in [Tasks -> [pc : TaskStates, tok : 0..MaxPairs, new : 0..MaxPairs]]
                                /\ task'[t].pc = at /\ task'[t].tok = task[t].tok
                                /\ task'[t].new = task[t].new
                                /\ \A u \in Tasks : u # t => task'[u] = task[u]
           /\ End(t) => /\ task' \in [Tasks -> [pc : TaskStates, tok : 0..MaxPairs, new : 0..MaxPairs]]
                        /\ task'[t] = Idle
                        /\ \A u \in Tasks : u # t => task'[u] = task[u]
<1>1. task[t] \in [pc : TaskStates, tok : 0..MaxPairs, new : 0..MaxPairs] BY DEF TypeOK
<1>2. Idle \in [pc : TaskStates, tok : 0..MaxPairs, new : 0..MaxPairs]
  BY Minted DEF Idle, TaskStates, NoPair
<1>3. ASSUME NEW at \in TaskStates, Step(t, at)
      PROVE  /\ task' \in [Tasks -> [pc : TaskStates, tok : 0..MaxPairs, new : 0..MaxPairs]]
             /\ task'[t].pc = at /\ task'[t].tok = task[t].tok /\ task'[t].new = task[t].new
             /\ \A u \in Tasks : u # t => task'[u] = task[u]
  <2>. DEFINE new == [task[t] EXCEPT !.pc = at]
  <2>1. new \in [pc : TaskStates, tok : 0..MaxPairs, new : 0..MaxPairs]
        /\ new.pc = at /\ new.tok = task[t].tok /\ new.new = task[t].new
    BY <1>1
  <2>2. task' = [task EXCEPT ![t] = new] BY <1>3 DEF Step
  <2>. HIDE DEF new
  <2>. QED BY <2>1, <2>2 DEF TypeOK
<1>4. ASSUME End(t)
      PROVE  /\ task' \in [Tasks -> [pc : TaskStates, tok : 0..MaxPairs, new : 0..MaxPairs]]
             /\ task'[t] = Idle
             /\ \A u \in Tasks : u # t => task'[u] = task[u]
  <2>. HIDE DEF Idle
  <2>. QED BY <1>2, <1>4 DEF End, TypeOK
<1>. QED BY <1>1, <1>3, <1>4

\* A task that starts or goes on with what is in its step.
LEMMA TaskBecomes ==
    ASSUME TypeOK, NEW t \in Tasks, NEW pc \in TaskStates, NEW tok \in 0..MaxPairs,
           NEW new \in 0..MaxPairs,
           task' = [task EXCEPT ![t] = [pc |-> pc, tok |-> tok, new |-> new]]
    PROVE  /\ task' \in [Tasks -> [pc : TaskStates, tok : 0..MaxPairs, new : 0..MaxPairs]]
           /\ task'[t].pc = pc /\ task'[t].tok = tok /\ task'[t].new = new
           /\ \A u \in Tasks : u # t => task'[u] = task[u]
BY DEF TypeOK

LEMMA LoginOK ==
    ASSUME TypeOK, Ties, NEW t \in Tasks, LoginStart(t) \/ LoginNext(t)
    PROVE  TypeOK' /\ Ties'
<1>0. failed' \subseteq FaultKinds
  BY FailureType DEF LoginStart, LoginNext, LoginSession, LoginRefresh
<1>1. CASE LoginStart(t)
  <2>. DEFINE new == minted + 1
  <2>1. new \in Pairs /\ new \in 0..MaxPairs /\ NoPair \in 0..MaxPairs
    BY <1>1, RoomLeft, Minted DEF LoginStart, NoPair
  <2>2. /\ minted' = new /\ family' = [family EXCEPT ![new] = new]
        /\ task' = [task EXCEPT ![t] = [pc |-> "setSession", tok |-> NoPair, new |-> new]]
        /\ UNCHANGED <<sessionKey, refreshKey, activeSessions, rows, usedRows, revokedRows, storing,
                       rotating, parent, held, granted, raced, unrecorded, detected, doomed>>
    BY <1>1 DEF LoginStart, redis, db, spawned, ghosts
  <2>3. /\ task' \in [Tasks -> [pc : TaskStates, tok : 0..MaxPairs, new : 0..MaxPairs]]
        /\ task'[t].pc = "setSession" /\ task'[t].tok = NoPair /\ task'[t].new = new
        /\ \A u \in Tasks : u # t => task'[u] = task[u]
    BY <2>1, <2>2, TaskBecomes DEF TaskStates
  <2>4. TypeOK' BY <1>0, <2>1, <2>2, <2>3, Minted DEF TypeOK
  <2>5. parent[new] = NoPair BY <2>1, Minted DEF Ties, LineageTies
  <2>6. TaskTies' BY <2>2, <2>3, <2>5, Minted DEF Ties, TaskTies, LoggingIn, Presenting
  <2>7. RotationTies' BY <2>2, Minted DEF Ties, RotationTies
  <2>8. LineageTies'
    <3>1. \A i \in 1..new : i = new \/ i \in 1..minted BY Minted
    <3>2. family'[new] = new /\ \A i \in 1..minted : family'[i] = family[i]
      BY <2>1, <2>2, Minted DEF TypeOK
    <3>3. \A i \in 1..minted : family[i] \in 1..minted BY DEF Ties, LineageTies
    <3>4. \A i \in 1..new : family'[i] \in 1..new BY <3>1, <3>2, <3>3, Minted
    <3>5. \A i \in Pairs : i > new => parent[i] = NoPair
      BY Minted DEF Ties, LineageTies, Pairs
    <3>. QED BY <2>2, <3>4, <3>5 DEF LineageTies
  <2>. QED BY <2>4, <2>6, <2>7, <2>8 DEF Ties
<1>2. CASE LoginSession(t)
  <2>1. task[t].new \in 1..minted /\ parent[task[t].new] = NoPair
    BY <1>2 DEF LoginSession, Ties, TaskTies, LoggingIn
  <2>2. /\ sessionKey' \subseteq sessionKey \cup {task[t].new}
        /\ Step(t, "setRefresh") \/ End(t)
        /\ UNCHANGED <<refreshKey, activeSessions, rows, usedRows, revokedRows, storing, rotating,
                       minted, family, parent, held, granted, raced, unrecorded, detected, doomed>>
    BY <1>2 DEF LoginSession, db, spawned, lineage, ghosts
  <2>3. /\ task' \in [Tasks -> [pc : TaskStates, tok : 0..MaxPairs, new : 0..MaxPairs]]
        /\ task'[t] = Idle \/ (task'[t].pc = "setRefresh" /\ task'[t].new = task[t].new)
        /\ \A u \in Tasks : u # t => task'[u] = task[u]
    BY <2>2, TaskMoves DEF TaskStates
  <2>4. TypeOK' BY <1>0, <2>1, <2>2, <2>3, Minted DEF TypeOK
  <2>5. TaskTies' BY <2>1, <2>2, <2>3 DEF Ties, TaskTies, LoggingIn, Presenting, Exchanged, Idle
  <2>. QED BY <2>2, <2>4, <2>5 DEF Ties, RotationTies, LineageTies
<1>3. CASE LoginRefresh(t)
  <2>. DEFINE new == task[t].new
  <2>1. new \in 1..minted /\ new \in Pairs
    BY <1>3, Minted DEF LoginRefresh, Ties, TaskTies, LoggingIn
  <2>2. /\ refreshKey' \in {refreshKey, [refreshKey EXCEPT ![new] = "fresh"]}
        /\ storing' \subseteq storing \cup {new}
        /\ rotating' \in {rotating, [rotating EXCEPT ![new] = "insert"]}
        /\ held' \in {held, held \cup {new}}
        /\ End(t)
        /\ UNCHANGED <<sessionKey, activeSessions, rows, usedRows, revokedRows,
                       minted, family, parent, granted, raced, unrecorded, detected, doomed>>
    BY <1>3 DEF LoginRefresh, db, spawned, lineage, ghosts
  <2>3. /\ task' \in [Tasks -> [pc : TaskStates, tok : 0..MaxPairs, new : 0..MaxPairs]]
        /\ task'[t] = Idle
        /\ \A u \in Tasks : u # t => task'[u] = task[u]
    BY <2>2, TaskMoves
  <2>4. TypeOK' BY <1>0, <2>1, <2>2, <2>3, Minted DEF TypeOK, RotationSteps
  <2>5. TaskTies' BY <2>2, <2>3 DEF Ties, TaskTies, LoggingIn, Presenting, Exchanged, Idle
  <2>6. RotationTies' BY <2>1, <2>2 DEF Ties, RotationTies, TypeOK
  <2>. QED BY <2>2, <2>4, <2>5, <2>6 DEF Ties, LineageTies
<1>. QED BY <1>1, <1>2, <1>3 DEF LoginNext

\* A step of a task that leaves pairs, rows and rotations alone.
LEMMA OnlyTask ==
    ASSUME TypeOK, Ties, NEW t \in Tasks, failed' \subseteq FaultKinds,
           task' \in [Tasks -> [pc : TaskStates, tok : 0..MaxPairs, new : 0..MaxPairs]],
           \A u \in Tasks : u # t => task'[u] = task[u],
           task'[t].pc \in Presenting => task'[t].tok \in held,
           task'[t].pc \in Exchanged => task'[t].new \in 1..minted,
           task'[t].pc \notin LoggingIn,
           sessionKey' \subseteq Pairs, refreshKey' \in [Pairs -> {"none", "fresh", "used"}],
           storing' \subseteq 1..minted, held \subseteq held', held' \subseteq 1..minted,
           revokedRows' \subseteq rows, raced' \subseteq Pairs, detected' \subseteq 1..minted,
           UNCHANGED <<activeSessions, rows, usedRows, rotating, lineage, granted, unrecorded, doomed>>
    PROVE  TypeOK' /\ Ties'
<1>1. TypeOK' BY DEF TypeOK, lineage
<1>2. TaskTies' BY DEF Ties, TaskTies, lineage
<1>3. RotationTies' /\ LineageTies' BY DEF Ties, RotationTies, LineageTies, lineage
<1>. QED BY <1>1, <1>2, <1>3 DEF Ties

LEMMA RefreshOK ==
    ASSUME TypeOK, Ties, NEW t \in Tasks,
           RefreshNext(t) \/ \E r \in Pairs : RefreshStart(t, r)
    PROVE  TypeOK' /\ Ties'
<1>0. failed' \subseteq FaultKinds
  BY FailureType DEF RefreshNext, RefreshStart, RefreshLoad, RefreshRevoke, RefreshDelete,
                     RefreshMark, RefreshSetNew, RefreshSetAccess
<1>a. /\ sessionKey \subseteq Pairs /\ refreshKey \in [Pairs -> {"none", "fresh", "used"}]
      /\ storing \subseteq 1..minted /\ held \subseteq 1..minted /\ revokedRows \subseteq rows
      /\ raced \subseteq Pairs /\ detected \subseteq 1..minted /\ 1..minted \subseteq Pairs
  BY Minted DEF TypeOK
<1>b. ASSUME NEW r \in held, NEW pc \in Presenting,
             Accept(t, r) \/ Go(t, r, pc)
      PROVE  /\ task' \in [Tasks -> [pc : TaskStates, tok : 0..MaxPairs, new : 0..MaxPairs]]
             /\ task'[t].pc \in Presenting /\ task'[t].tok = r
             /\ \A u \in Tasks : u # t => task'[u] = task[u]
             /\ raced' \subseteq Pairs
  <2>1. r \in Pairs /\ r \in 0..MaxPairs /\ NoPair \in 0..MaxPairs BY <1>a, Minted DEF NoPair
  <2>2. Presenting \subseteq TaskStates /\ "mark" \in Presenting BY DEF Presenting, TaskStates
  <2>3. CASE Accept(t, r) BY <1>a, <2>1, <2>2, <2>3, TaskBecomes DEF Accept
  <2>4. CASE Go(t, r, pc) BY <1>a, <2>1, <2>2, <2>4, TaskBecomes DEF Go
  <2>. QED BY <1>b, <2>3, <2>4
<1>c. Presenting \cap (LoggingIn \cup Exchanged) = {} /\ Idle.pc \notin Presenting \cup LoggingIn \cup Exchanged
  BY DEF Presenting, LoggingIn, Exchanged, Idle
<1>1. ASSUME NEW r \in Pairs, RefreshStart(t, r) PROVE TypeOK' /\ Ties'
  <2>1. /\ r \in held
        /\ Accept(t, r) \/ Go(t, r, "revoke") \/ Go(t, r, "load")
        /\ UNCHANGED <<sessionKey, refreshKey, activeSessions, rows, usedRows, revokedRows, storing,
                       rotating, lineage, held, granted, unrecorded, detected, doomed>>
    BY <1>1 DEF RefreshStart, redis, db, spawned
  <2>2. "revoke" \in Presenting /\ "load" \in Presenting BY DEF Presenting
  <2>3. /\ task' \in [Tasks -> [pc : TaskStates, tok : 0..MaxPairs, new : 0..MaxPairs]]
        /\ task'[t].pc \in Presenting /\ task'[t].tok = r
        /\ \A u \in Tasks : u # t => task'[u] = task[u]
        /\ raced' \subseteq Pairs
    BY <1>b, <2>1, <2>2
  <2>. QED BY <1>0, <1>a, <1>c, <2>1, <2>3, OnlyTask
<1>2. CASE RefreshLoad(t)
  <2>1. task[t].tok \in held BY <1>2 DEF RefreshLoad, Ties, TaskTies, Presenting
  <2>2. /\ Accept(t, task[t].tok) \/ Go(t, task[t].tok, "revoke") \/ (End(t) /\ UNCHANGED raced)
        /\ UNCHANGED <<sessionKey, refreshKey, activeSessions, rows, usedRows, revokedRows, storing,
                       rotating, lineage, held, granted, unrecorded, detected, doomed>>
    BY <1>2 DEF RefreshLoad, redis, db, spawned
  <2>3. "revoke" \in Presenting BY DEF Presenting
  <2>4. /\ task' \in [Tasks -> [pc : TaskStates, tok : 0..MaxPairs, new : 0..MaxPairs]]
        /\ task'[t] = Idle \/ (task'[t].pc \in Presenting /\ task'[t].tok = task[t].tok)
        /\ \A u \in Tasks : u # t => task'[u] = task[u]
        /\ raced' \subseteq Pairs
    BY <1>a, <1>b, <2>1, <2>2, <2>3, TaskMoves
  <2>. QED BY <1>0, <1>a, <1>c, <2>1, <2>2, <2>4, OnlyTask
<1>3. CASE RefreshRevoke(t)
  <2>1. task[t].tok \in held BY <1>3 DEF RefreshRevoke, Ties, TaskTies, Presenting
  <2>2. /\ Step(t, "delete") \/ End(t)
        /\ revokedRows' \in {revokedRows, revokedRows \cup Kin(task[t].tok)}
        /\ UNCHANGED <<sessionKey, refreshKey, activeSessions, rows, usedRows, storing, rotating,
                       lineage, held, granted, raced, unrecorded, detected, doomed>>
    BY <1>3 DEF RefreshRevoke, redis, spawned, ghosts
  <2>3. revokedRows' \subseteq rows BY <1>a, <2>2 DEF Kin
  <2>4. /\ task' \in [Tasks -> [pc : TaskStates, tok : 0..MaxPairs, new : 0..MaxPairs]]
        /\ task'[t] = Idle \/ (task'[t].pc = "delete" /\ task'[t].tok = task[t].tok)
        /\ \A u \in Tasks : u # t => task'[u] = task[u]
    BY <2>2, TaskMoves DEF TaskStates
  <2>5. "delete" \in Presenting BY DEF Presenting
  <2>. QED BY <1>0, <1>a, <1>c, <2>1, <2>2, <2>3, <2>4, <2>5, OnlyTask
<1>4. CASE RefreshDelete(t)
  <2>1. task[t].tok \in held BY <1>4 DEF RefreshDelete, Ties, TaskTies, Presenting
  <2>2. /\ End(t)
        /\ refreshKey' \in {refreshKey, [refreshKey EXCEPT ![task[t].tok] = "none"]}
        /\ detected' \in {detected, detected \cup {family[task[t].tok]}}
        /\ UNCHANGED <<sessionKey, activeSessions, rows, usedRows, revokedRows, storing, rotating,
                       lineage, held, granted, raced, unrecorded, doomed>>
    BY <1>4 DEF RefreshDelete, db, spawned
  <2>3. refreshKey' \in [Pairs -> {"none", "fresh", "used"}] BY <1>a, <2>2
  <2>4. detected' \subseteq 1..minted
    <3>1. task[t].tok \in 1..minted BY <1>a, <2>1
    <3>2. family[task[t].tok] \in 1..minted BY <3>1 DEF Ties, LineageTies
    <3>. QED BY <1>a, <2>2, <3>2
  <2>5. /\ task' \in [Tasks -> [pc : TaskStates, tok : 0..MaxPairs, new : 0..MaxPairs]]
        /\ task'[t] = Idle /\ \A u \in Tasks : u # t => task'[u] = task[u]
    BY <2>2, TaskMoves
  <2>. QED BY <1>0, <1>a, <1>c, <2>2, <2>3, <2>4, <2>5, OnlyTask
<1>5. CASE RefreshMark(t)
  <2>. DEFINE r == task[t].tok
              new == minted + 1
  <2>1. r \in held /\ r \in 1..minted /\ r \in Pairs
    BY <1>5, <1>a DEF RefreshMark, Ties, TaskTies, Presenting
  <2>2. CASE /\ minted < MaxPairs /\ refreshKey' = [refreshKey EXCEPT ![r] = "used"] /\ Mint(r)
             /\ task' = [task EXCEPT ![t].pc = "setNew", ![t].new = minted']
    <3>1. /\ minted' = new /\ family' = [family EXCEPT ![new] = family[r]]
          /\ parent' = [parent EXCEPT ![new] = r] /\ rotating' = [rotating EXCEPT ![new] = "find"]
          /\ granted' = [granted EXCEPT ![r] = @ + 1]
          /\ UNCHANGED <<sessionKey, activeSessions, rows, usedRows, revokedRows, storing, held, raced,
                         unrecorded, detected, doomed>>
      BY <1>5, <2>2 DEF RefreshMark, Mint, db
    <3>2. new \in Pairs /\ new \in 0..MaxPairs BY <2>2, Minted
    <3>3. /\ task' \in [Tasks -> [pc : TaskStates, tok : 0..MaxPairs, new : 0..MaxPairs]]
          /\ task'[t].pc = "setNew" /\ task'[t].new = new
          /\ \A u \in Tasks : u # t => task'[u] = task[u]
      <4>. DEFINE job == [task[t] EXCEPT !.pc = "setNew", !.new = new]
      <4>1. job \in [pc : TaskStates, tok : 0..MaxPairs, new : 0..MaxPairs]
            /\ job.pc = "setNew" /\ job.new = new
        BY <3>2, TaskMoves DEF TaskStates
      <4>2. task' = [task EXCEPT ![t] = job] BY <2>2, <3>1
      <4>. HIDE DEF job
      <4>. QED BY <4>1, <4>2 DEF TypeOK
    <3>4. family[r] \in 1..minted BY <2>1 DEF Ties, LineageTies
    <3>5. granted' \in [Pairs -> Nat] BY <2>1, <3>1 DEF TypeOK
    <3>6. /\ refreshKey' \in [Pairs -> {"none", "fresh", "used"}]
          /\ rotating' \in [Pairs -> RotationSteps]
          /\ family' \in [Pairs -> 0..MaxPairs] /\ parent' \in [Pairs -> 0..MaxPairs]
      BY <2>1, <2>2, <3>1, <3>2, <3>4, Minted DEF TypeOK, RotationSteps
    <3>7. TypeOK' BY <1>0, <3>1, <3>2, <3>3, <3>5, <3>6, Minted DEF TypeOK
    <3>8. TaskTies'
      <4>1. \A u \in Tasks : u # t =>
               /\ task'[u].pc \in Presenting => task'[u].tok \in held'
               /\ task'[u].pc \in LoggingIn \cup Exchanged => task'[u].new \in 1..minted'
               /\ task'[u].pc \in LoggingIn => parent'[task'[u].new] = NoPair
        BY <3>1, <3>2, <3>3, Minted DEF Ties, TaskTies, TypeOK
      <4>2. "setNew" \notin Presenting \cup LoggingIn BY DEF Presenting, LoggingIn
      <4>. QED BY <3>1, <3>3, <4>1, <4>2, Minted DEF TaskTies
    <3>9. RotationTies' BY <2>1, <3>1, <3>2, Minted DEF Ties, RotationTies, TypeOK
    <3>10. LineageTies'
      <4>1. \A i \in 1..new : i = new \/ i \in 1..minted BY Minted
      <4>2. family'[new] = family[r] /\ \A i \in 1..minted : family'[i] = family[i]
        BY <3>1, <3>2, Minted DEF TypeOK
      <4>3. \A i \in 1..minted : family[i] \in 1..minted BY DEF Ties, LineageTies
      <4>4. \A i \in 1..new : family'[i] \in 1..new BY <3>4, <4>1, <4>2, <4>3, Minted
      <4>5. \A i \in Pairs : i > new => parent'[i] = NoPair
        BY <3>1, Minted DEF Ties, LineageTies, Pairs, TypeOK
      <4>. QED BY <3>1, <4>4, <4>5 DEF LineageTies
    <3>. QED BY <3>7, <3>8, <3>9, <3>10 DEF Ties
  <2>3. CASE /\ refreshKey' \in {refreshKey, [refreshKey EXCEPT ![r] = "used"]}
             /\ End(t) /\ UNCHANGED <<lineage, rotating, granted>>
    <3>1. UNCHANGED <<sessionKey, activeSessions, rows, usedRows, revokedRows, storing, held, raced,
                      unrecorded, detected, doomed>>
      BY <1>5 DEF RefreshMark, db
    <3>2. refreshKey' \in [Pairs -> {"none", "fresh", "used"}] BY <1>a, <2>3
    <3>3. /\ task' \in [Tasks -> [pc : TaskStates, tok : 0..MaxPairs, new : 0..MaxPairs]]
          /\ task'[t] = Idle /\ \A u \in Tasks : u # t => task'[u] = task[u]
      BY <2>3, TaskMoves
    <3>. QED BY <1>0, <1>a, <1>c, <2>3, <3>1, <3>2, <3>3, OnlyTask
  <2>. QED BY <1>5, <2>2, <2>3 DEF RefreshMark
<1>6. CASE RefreshSetNew(t)
  <2>1. task[t].new \in 1..minted BY <1>6 DEF RefreshSetNew, Ties, TaskTies, Exchanged
  <2>2. /\ refreshKey' \in {refreshKey, [refreshKey EXCEPT ![task[t].new] = "fresh"]}
        /\ Step(t, "setAccess") \/ End(t)
        /\ UNCHANGED <<sessionKey, activeSessions, rows, usedRows, revokedRows, storing, rotating,
                       lineage, held, granted, raced, unrecorded, detected, doomed>>
    BY <1>6 DEF RefreshSetNew, db, spawned, ghosts
  <2>3. refreshKey' \in [Pairs -> {"none", "fresh", "used"}] BY <1>a, <2>2
  <2>4. /\ task' \in [Tasks -> [pc : TaskStates, tok : 0..MaxPairs, new : 0..MaxPairs]]
        /\ task'[t] = Idle \/ (task'[t].pc = "setAccess" /\ task'[t].new = task[t].new)
        /\ \A u \in Tasks : u # t => task'[u] = task[u]
    BY <2>2, TaskMoves DEF TaskStates
  <2>5. "setAccess" \notin Presenting \cup LoggingIn BY DEF Presenting, LoggingIn
  <2>. QED BY <1>0, <1>a, <1>c, <2>1, <2>2, <2>3, <2>4, <2>5, OnlyTask
<1>7. CASE RefreshSetAccess(t)
  <2>1. task[t].new \in 1..minted BY <1>7 DEF RefreshSetAccess, Ties, TaskTies, Exchanged
  <2>2. /\ sessionKey' \in {sessionKey, sessionKey \cup {task[t].new}}
        /\ storing' \in {storing, storing \cup {task[t].new}}
        /\ held' \in {held, held \cup {task[t].new}}
        /\ End(t)
        /\ UNCHANGED <<refreshKey, activeSessions, rows, usedRows, revokedRows, rotating,
                       lineage, granted, raced, unrecorded, detected, doomed>>
    BY <1>7 DEF RefreshSetAccess, db, ghosts
  <2>3. sessionKey' \subseteq Pairs /\ storing' \subseteq 1..minted /\ held' \subseteq 1..minted
        /\ held \subseteq held'
    BY <1>a, <2>1, <2>2
  <2>4. /\ task' \in [Tasks -> [pc : TaskStates, tok : 0..MaxPairs, new : 0..MaxPairs]]
        /\ task'[t] = Idle /\ \A u \in Tasks : u # t => task'[u] = task[u]
    BY <2>2, TaskMoves
  <2>. QED BY <1>0, <1>a, <1>c, <2>2, <2>3, <2>4, OnlyTask
<1>. QED BY <1>1, <1>2, <1>3, <1>4, <1>5, <1>6, <1>7 DEF RefreshNext

LEMMA VerifyOK ==
    ASSUME TypeOK, Ties, NEW t \in Tasks,
           VerifyNext(t) \/ \E s \in Pairs : VerifyStart(t, s)
    PROVE  TypeOK' /\ Ties'
<1>0. failed' \subseteq FaultKinds
  BY FailureType DEF VerifyNext, VerifyStart, VerifyFind, VerifyFill
<1>a. /\ sessionKey \subseteq Pairs /\ refreshKey \in [Pairs -> {"none", "fresh", "used"}]
      /\ storing \subseteq 1..minted /\ held \subseteq 1..minted /\ revokedRows \subseteq rows
      /\ raced \subseteq Pairs /\ detected \subseteq 1..minted /\ 1..minted \subseteq Pairs
  BY Minted DEF TypeOK
<1>c. Presenting \cap (LoggingIn \cup Exchanged) = {} /\ Idle.pc \notin Presenting \cup LoggingIn \cup Exchanged
  BY DEF Presenting, LoggingIn, Exchanged, Idle
<1>d. {"find", "fill"} \subseteq Presenting /\ {"find", "fill"} \subseteq TaskStates
  BY DEF Presenting, TaskStates
<1>1. ASSUME NEW s \in Pairs, VerifyStart(t, s) PROVE TypeOK' /\ Ties'
  <2>1. /\ s \in held
        /\ task' = [task EXCEPT ![t] = [pc |-> "find", tok |-> s, new |-> NoPair]]
        /\ UNCHANGED <<sessionKey, refreshKey, activeSessions, rows, usedRows, revokedRows, storing,
                       rotating, lineage, held, granted, raced, unrecorded, detected, doomed>>
    BY <1>1 DEF VerifyStart, redis, db, spawned, ghosts
  <2>2. s \in 0..MaxPairs /\ NoPair \in 0..MaxPairs BY Minted DEF NoPair
  <2>3. /\ task' \in [Tasks -> [pc : TaskStates, tok : 0..MaxPairs, new : 0..MaxPairs]]
        /\ task'[t].pc = "find" /\ task'[t].tok = s
        /\ \A u \in Tasks : u # t => task'[u] = task[u]
    BY <1>d, <2>1, <2>2, TaskBecomes
  <2>. QED BY <1>0, <1>a, <1>c, <1>d, <2>1, <2>3, OnlyTask
<1>2. CASE VerifyNext(t)
  <2>1. task[t].tok \in held
    BY <1>2 DEF VerifyNext, VerifyFind, VerifyFill, Ties, TaskTies, Presenting
  <2>2. /\ Step(t, "fill") \/ End(t)
        /\ sessionKey' \in {sessionKey, sessionKey \cup {task[t].tok}}
        /\ UNCHANGED <<refreshKey, activeSessions, rows, usedRows, revokedRows, storing, rotating,
                       lineage, held, granted, raced, unrecorded, detected, doomed>>
    BY <1>2 DEF VerifyNext, VerifyFind, VerifyFill, redis, db, spawned, ghosts
  <2>3. /\ task' \in [Tasks -> [pc : TaskStates, tok : 0..MaxPairs, new : 0..MaxPairs]]
        /\ task'[t] = Idle \/ (task'[t].pc = "fill" /\ task'[t].tok = task[t].tok)
        /\ \A u \in Tasks : u # t => task'[u] = task[u]
    BY <1>d, <2>2, TaskMoves
  <2>4. sessionKey' \subseteq Pairs BY <1>a, <2>1, <2>2
  <2>. QED BY <1>0, <1>a, <1>c, <1>d, <2>1, <2>2, <2>3, <2>4, OnlyTask
<1>. QED BY <1>1, <1>2

LEMMA SpawnedOK ==
    ASSUME TypeOK, Ties, NEW i \in Pairs, StoreSession(i) \/ RotateNext(i)
    PROVE  TypeOK' /\ Ties'
<1>0. failed' \subseteq FaultKinds
  BY FailureType DEF RotateNext, StoreSession, StoreRefresh, RotateFind, RotateMark
<1>1. UNCHANGED <<sessionKey, refreshKey, revokedRows, task, minted, family, parent, held, granted,
                  raced, detected, doomed>>
  BY DEF RotateNext, StoreSession, StoreRefresh, RotateFind, RotateMark, redis, db, lineage, ghosts
<1>2. CASE StoreSession(i)
  <2>1. /\ storing' \subseteq storing /\ activeSessions' \subseteq activeSessions \cup {i}
        /\ UNCHANGED <<rows, usedRows, rotating, unrecorded>>
    BY <1>2 DEF StoreSession, ghosts
  <2>2. TypeOK' BY <1>0, <1>1, <2>1 DEF TypeOK
  <2>. QED BY <1>1, <2>1, <2>2 DEF Ties, TaskTies, RotationTies, LineageTies
<1>3. CASE StoreRefresh(i)
  <2>1. /\ rotating[i] \in {"insert", "add"} /\ rotating' = [rotating EXCEPT ![i] = "none"]
        /\ rows' \in {rows, rows \cup {i}}
        /\ UNCHANGED <<activeSessions, usedRows, storing, unrecorded>>
    BY <1>3 DEF StoreRefresh, Rotates, ghosts
  <2>2. i \in 1..minted BY <2>1 DEF Ties, RotationTies
  <2>3. TypeOK' BY <1>0, <1>1, <2>1, <2>2 DEF TypeOK, RotationSteps
  <2>4. RotationTies' BY <1>1, <2>1 DEF Ties, RotationTies, TypeOK
  <2>. QED BY <1>1, <2>3, <2>4 DEF Ties, TaskTies, LineageTies
<1>4. CASE RotateFind(i)
  <2>1. /\ rotating[i] = "find"
        /\ \/ rotating' = [rotating EXCEPT ![i] = "mark"] /\ parent[i] \in rows
           \/ rotating' = [rotating EXCEPT ![i] = "none"]
        /\ unrecorded' \in {unrecorded, unrecorded \cup {parent[i]}}
        /\ UNCHANGED <<activeSessions, rows, usedRows, storing>>
    BY <1>4 DEF RotateFind, Rotates, db
  <2>2. parent[i] \in 1..minted BY <2>1 DEF Ties, RotationTies
  <2>3. unrecorded' \subseteq Pairs BY <2>1, <2>2, Minted DEF TypeOK
  <2>4. TypeOK' BY <1>0, <1>1, <2>1, <2>3 DEF TypeOK, RotationSteps
  <2>5. RotationTies' BY <1>1, <2>1 DEF Ties, RotationTies, TypeOK
  <2>. QED BY <1>1, <2>4, <2>5 DEF Ties, TaskTies, LineageTies
<1>5. CASE RotateMark(i)
  <2>1. /\ rotating[i] = "mark"
        /\ rotating' \in {[rotating EXCEPT ![i] = "add"], [rotating EXCEPT ![i] = "none"]}
        /\ usedRows' \in {usedRows, usedRows \cup {parent[i]}}
        /\ unrecorded' \in {unrecorded, unrecorded \cup {parent[i]}}
        /\ UNCHANGED <<activeSessions, rows, storing>>
    BY <1>5 DEF RotateMark, Rotates
  <2>2. parent[i] \in 1..minted /\ parent[i] \in rows BY <2>1 DEF Ties, RotationTies
  <2>3. unrecorded' \subseteq Pairs /\ usedRows' \subseteq rows BY <2>1, <2>2, Minted DEF TypeOK
  <2>4. TypeOK' BY <1>0, <1>1, <2>1, <2>3 DEF TypeOK, RotationSteps
  <2>5. RotationTies' BY <1>1, <2>1 DEF Ties, RotationTies, TypeOK
  <2>. QED BY <1>1, <2>4, <2>5 DEF Ties, TaskTies, LineageTies
<1>. QED BY <1>2, <1>3, <1>4, <1>5 DEF RotateNext

LEMMA TypeStep ==
    ASSUME TypeOK, Ties, [Next]_vars
    PROVE  TypeOK' /\ Ties'
<1>1. ASSUME NEW t \in Tasks, LoginStart(t) \/ TaskNext(t) PROVE TypeOK' /\ Ties'
  BY <1>1, LoginOK, RefreshOK, VerifyOK DEF TaskNext
<1>2. ASSUME NEW t \in Tasks, NEW i \in Pairs, RefreshStart(t, i) \/ VerifyStart(t, i)
      PROVE  TypeOK' /\ Ties'
  BY <1>2, RefreshOK, VerifyOK
<1>3. ASSUME NEW i \in Pairs, StoreSession(i) \/ RotateNext(i) PROVE TypeOK' /\ Ties'
  BY <1>3, SpawnedOK
<1>4. ASSUME NEW i \in Pairs, SessionExpire(i) \/ RefreshExpire(i) PROVE TypeOK' /\ Ties'
  <2>1. /\ sessionKey' \subseteq sessionKey /\ activeSessions' \subseteq activeSessions
        /\ refreshKey' \in {refreshKey, [refreshKey EXCEPT ![i] = "none"]}
        /\ UNCHANGED <<rows, usedRows, revokedRows, task, storing, rotating, minted, family, parent,
                       held, granted, raced, unrecorded, detected, doomed, failed>>
    BY <1>4 DEF SessionExpire, RefreshExpire, NoFault, db, spawned, lineage, ghosts
  <2>2. TypeOK' BY <2>1 DEF TypeOK
  <2>. QED BY <2>1, <2>2 DEF Ties, TaskTies, RotationTies, LineageTies
<1>5. CASE ResetPassword
  <2>1. /\ activeSessions' = {} /\ doomed' = 1..minted
        /\ UNCHANGED <<sessionKey, refreshKey, rows, usedRows, revokedRows, task, storing, rotating,
                       minted, family, parent, held, granted, raced, unrecorded, detected, failed>>
    BY <1>5 DEF ResetPassword, NoFault, redis, spawned, lineage
  <2>2. TypeOK' BY <2>1 DEF TypeOK
  <2>. QED BY <2>1, <2>2 DEF Ties, TaskTies, RotationTies, LineageTies
<1>6. CASE Crash
  <2>1. /\ task' = [t \in Tasks |-> Idle] /\ storing' = {}
        /\ rotating' = [i \in Pairs |-> "none"]
        /\ unrecorded' = unrecorded
              \cup {parent[i] : i \in {k \in Pairs : rotating[k] \in {"find", "mark"}}}
        /\ UNCHANGED <<sessionKey, refreshKey, activeSessions, rows, usedRows, revokedRows, minted,
                       family, parent, held, granted, raced, detected, doomed>>
    BY <1>6 DEF Crash, redis, db, lineage
  <2>2. failed' \subseteq FaultKinds BY <1>6, FailureType DEF Crash
  <2>3. unrecorded' \subseteq Pairs BY <2>1, Minted DEF TypeOK, Ties, RotationTies
  <2>4. Idle \in [pc : TaskStates, tok : 0..MaxPairs, new : 0..MaxPairs]
    BY Minted DEF Idle, TaskStates, NoPair
  <2>5. TypeOK' BY <2>1, <2>2, <2>3, <2>4 DEF TypeOK, RotationSteps
  <2>6. TaskTies' BY <2>1 DEF TaskTies, Idle, Presenting, LoggingIn, Exchanged
  <2>7. RotationTies' BY <2>1 DEF RotationTies
  <2>. QED BY <2>1, <2>5, <2>6, <2>7 DEF Ties, LineageTies
<1>7. CASE UNCHANGED vars
  BY <1>7 DEF vars, redis, db, spawned, lineage, ghosts, TypeOK, Ties, TaskTies, RotationTies,
              LineageTies
<1>. QED BY <1>1, <1>2, <1>3, <1>4, <1>5, <1>6, <1>7 DEF Next

LEMMA InitType == Init => TypeOK /\ Ties
<1>. SUFFICES ASSUME Init PROVE TypeOK /\ Ties OBVIOUS
<1>1. minted = 0 /\ 0 \in 0..MaxPairs /\ 1..0 = {} BY Bounds DEF Init
<1>2. Idle \in [pc : TaskStates, tok : 0..MaxPairs, new : 0..MaxPairs]
  BY <1>1 DEF Idle, TaskStates, NoPair
<1>3. TypeOK BY <1>1, <1>2 DEF Init, TypeOK, RotationSteps, NoPair
<1>4. TaskTies BY DEF Init, TaskTies, Idle, Presenting, LoggingIn, Exchanged
<1>5. RotationTies /\ LineageTies BY <1>1 DEF Init, RotationTies, LineageTies
<1>. QED BY <1>3, <1>4, <1>5 DEF Ties

-------------------------------------------------------------------------------
(***************************************************************************)
(* An exchange is recorded, or it is known why not.                        *)
(***************************************************************************)
LEMMA RecordedFrame ==
    ASSUME TypeOK, Recorded, UNCHANGED granted, usedRows \subseteq usedRows', unrecorded \subseteq unrecorded',
           \A i \in Pairs : rotating[i] \in {"find", "mark"} =>
              \/ rotating'[i] \in {"find", "mark"} /\ parent'[i] = parent[i]
              \/ parent[i] \in usedRows' \cup unrecorded'
    PROVE  Recorded'
BY DEF Recorded, Rotating

LEMMA RecordedStep ==
    ASSUME TypeOK, Ties, Recorded, [Next]_vars
    PROVE  Recorded'
<1>1. CASE UNCHANGED <<granted, usedRows, unrecorded, rotating, parent>>
  BY <1>1 DEF Recorded, Rotating
<1>2. ASSUME NEW t \in Tasks, RefreshMark(t) PROVE Recorded'
  <2>. DEFINE r == task[t].tok
              new == minted + 1
  <2>1. CASE UNCHANGED <<lineage, rotating, granted>>
    BY <1>1, <1>2, <2>1 DEF RefreshMark, db, lineage
  <2>2. CASE minted < MaxPairs /\ Mint(r)
    <3>1. new \in Pairs /\ new \notin 1..minted BY <2>2, Minted
    <3>2. rotating[new] = "none" BY <3>1 DEF Ties, RotationTies
    <3>3. /\ parent' = [parent EXCEPT ![new] = r] /\ rotating' = [rotating EXCEPT ![new] = "find"]
          /\ granted' = [granted EXCEPT ![r] = @ + 1]
      BY <2>2 DEF Mint
    <3>4. UNCHANGED <<usedRows, unrecorded>> BY <1>2 DEF RefreshMark, db
    <3>5. \A i \in Pairs : i # new => parent'[i] = parent[i] /\ rotating'[i] = rotating[i]
      BY <3>3 DEF TypeOK
    <3>6. parent'[new] = r /\ rotating'[new] = "find" BY <3>1, <3>3 DEF TypeOK
    <3>7. \A s \in Pairs : Rotating(s) => Rotating(s)' BY <3>2, <3>5 DEF Rotating
    <3>9. \A s \in Pairs : s # r => granted'[s] = granted[s] BY <3>3 DEF TypeOK
    <3>10. ASSUME NEW s \in Pairs, granted'[s] > 0
           PROVE  s \in usedRows' \/ Rotating(s)' \/ s \in unrecorded'
      <4>1. CASE s = r
        <5>1. \E i \in Pairs : parent'[i] = s /\ rotating'[i] \in {"find", "mark"}
          BY <4>1, <3>1, <3>6
        <5>. QED BY <5>1 DEF Rotating
      <4>2. CASE s # r BY <4>2, <3>4, <3>7, <3>9, <3>10 DEF Recorded
      <4>. QED BY <4>1, <4>2
    <3>. QED BY <3>10 DEF Recorded
  <2>. QED BY <1>2, <2>1, <2>2 DEF RefreshMark
<1>3. ASSUME NEW t \in Tasks, LoginStart(t) PROVE Recorded'
  BY <1>1, <1>3 DEF LoginStart, db, spawned, ghosts
<1>4. ASSUME NEW t \in Tasks, LoginRefresh(t) PROVE Recorded'
  <2>1. task[t].new \in 1..minted /\ parent[task[t].new] = NoPair
    BY <1>4 DEF LoginRefresh, Ties, TaskTies, LoggingIn
  <2>2. rotating[task[t].new] \notin {"find", "mark"}
    BY <2>1, Minted DEF Ties, RotationTies
  <2>3. /\ rotating' \in {rotating, [rotating EXCEPT ![task[t].new] = "insert"]}
        /\ UNCHANGED <<granted, usedRows, unrecorded, parent>>
    BY <1>4 DEF LoginRefresh, db, spawned, lineage, ghosts
  <2>4. \A i \in Pairs : rotating[i] \in {"find", "mark"} => rotating'[i] = rotating[i]
    BY <2>2, <2>3 DEF TypeOK
  <2>. QED BY <2>3, <2>4, RecordedFrame
<1>5. ASSUME NEW t \in Tasks,
             LoginSession(t) \/ RefreshLoad(t) \/ RefreshRevoke(t) \/ RefreshDelete(t)
               \/ RefreshSetNew(t) \/ RefreshSetAccess(t) \/ VerifyNext(t)
               \/ \E i \in Pairs : RefreshStart(t, i) \/ VerifyStart(t, i)
      PROVE  Recorded'
  BY <1>1, <1>5 DEF LoginSession, RefreshLoad, RefreshRevoke, RefreshDelete, RefreshSetNew,
                    RefreshSetAccess, VerifyNext, VerifyFind, VerifyFill, RefreshStart, VerifyStart,
                    db, spawned, lineage, ghosts
<1>6. ASSUME NEW i \in Pairs, RotateNext(i) PROVE Recorded'
  <2>1. UNCHANGED <<granted, parent>>
    BY <1>6 DEF RotateNext, RotateFind, RotateMark, StoreRefresh, lineage, ghosts
  <2>2. usedRows \subseteq usedRows' /\ unrecorded \subseteq unrecorded'
    BY <1>6 DEF RotateNext, RotateFind, RotateMark, StoreRefresh, db, ghosts
  <2>3. \A j \in Pairs : j # i => rotating'[j] = rotating[j]
    BY <1>6 DEF RotateNext, RotateFind, RotateMark, StoreRefresh, Rotates, TypeOK
  <2>4. rotating[i] \in {"find", "mark"} =>
           rotating'[i] \in {"find", "mark"} \/ parent[i] \in usedRows' \cup unrecorded'
    BY <1>6 DEF RotateNext, RotateFind, RotateMark, StoreRefresh, Rotates, TypeOK
  <2>. QED BY <2>1, <2>2, <2>3, <2>4, RecordedFrame
<1>7. ASSUME NEW i \in Pairs, StoreSession(i) \/ SessionExpire(i) \/ RefreshExpire(i)
      PROVE  Recorded'
  BY <1>1, <1>7 DEF StoreSession, SessionExpire, RefreshExpire, db, spawned, lineage, ghosts
<1>8. CASE ResetPassword BY <1>1, <1>8 DEF ResetPassword, spawned, lineage
<1>9. CASE Crash
  <2>1. /\ UNCHANGED <<granted, usedRows>> /\ unrecorded \subseteq unrecorded'
        /\ \A i \in Pairs : rotating[i] \in {"find", "mark"} => parent[i] \in unrecorded'
    BY <1>9 DEF Crash, db
  <2>. QED BY <2>1, RecordedFrame
<1>10. CASE UNCHANGED vars BY <1>1, <1>10 DEF vars, db, spawned, lineage, ghosts
<1>. QED BY <1>2, <1>3, <1>4, <1>5, <1>6, <1>7, <1>8, <1>9, <1>10
     DEF Next, TaskNext, LoginNext, RefreshNext

LEMMA InitRecorded == Init => Recorded
BY DEF Init, Recorded

-------------------------------------------------------------------------------
(***************************************************************************)
(* A session that is over stays over.                                      *)
(***************************************************************************)
LEMMA OverTask ==
    ASSUME TypeOK, NEW s \in Pairs, Over(s), NEW t \in Tasks,
           \A u \in Tasks : u # t => task'[u] = task[u],
           task'[t].new # s, task'[t].pc = "fill" => task'[t].tok # s,
           s \notin sessionKey' \cup activeSessions' \cup storing', doomed' = doomed
    PROVE  Over(s)'
BY DEF Over

LEMMA OverStep ==
    ASSUME TypeOK, Ties, [Next]_vars, NEW s \in Pairs, Over(s)
    PROVE  Over(s)'
<1>0. /\ s \in 1..minted /\ s # NoPair /\ s # minted + 1
      /\ s \in doomed /\ s \notin sessionKey \cup activeSessions \cup storing
      /\ \A t \in Tasks : task[t].new # s /\ ~(task[t].pc = "fill" /\ task[t].tok = s)
      /\ Idle.new # s /\ Idle.pc # "fill"
  BY Minted DEF Over, TypeOK, Idle
<1>1. CASE UNCHANGED <<sessionKey, activeSessions, storing, doomed, task>>
  BY <1>0, <1>1 DEF Over
<1>2. ASSUME NEW t \in Tasks, LoginStart(t) PROVE Over(s)'
  <2>1. /\ task' = [task EXCEPT ![t] = [pc |-> "setSession", tok |-> NoPair, new |-> minted + 1]]
        /\ minted < MaxPairs
        /\ UNCHANGED <<sessionKey, activeSessions, storing, doomed>>
    BY <1>2, RoomLeft DEF LoginStart, redis, db, spawned, ghosts
  <2>2. /\ task'[t].pc = "setSession" /\ task'[t].new = minted + 1
        /\ \A u \in Tasks : u # t => task'[u] = task[u]
    BY <2>1 DEF TypeOK
  <2>. QED BY <1>0, <2>1, <2>2, OverTask
<1>3. ASSUME NEW t \in Tasks,
             LoginNext(t) \/ RefreshRevoke(t) \/ RefreshDelete(t) \/ RefreshSetNew(t)
               \/ RefreshSetAccess(t) \/ VerifyNext(t)
      PROVE  Over(s)'
  <2>1. /\ \/ sessionKey' \subseteq sessionKey \cup {task[t].new}
           \/ task[t].pc = "fill" /\ sessionKey' \subseteq sessionKey \cup {task[t].tok}
        /\ storing' \subseteq storing \cup {task[t].new}
        /\ UNCHANGED <<activeSessions, doomed>>
    <3>1. CASE LoginNext(t)
      BY <3>1 DEF LoginNext, LoginSession, LoginRefresh, db, spawned, ghosts
    <3>2. CASE RefreshRevoke(t) \/ RefreshDelete(t) \/ RefreshSetNew(t)
      BY <3>2 DEF RefreshRevoke, RefreshDelete, RefreshSetNew, redis, db, spawned, ghosts
    <3>3. CASE RefreshSetAccess(t) BY <3>3 DEF RefreshSetAccess, db, ghosts
    <3>4. CASE VerifyNext(t)
      BY <3>4 DEF VerifyNext, VerifyFind, VerifyFill, redis, db, spawned, ghosts
    <3>. QED BY <1>3, <3>1, <3>2, <3>3, <3>4
  <2>2. s \notin sessionKey' \cup activeSessions' \cup storing' BY <1>0, <2>1
  <2>3. \/ \E pc \in TaskStates \ {"fill"} : Step(t, pc)
        \/ task[t].tok \in activeSessions /\ Step(t, "fill")
        \/ End(t)
    BY <1>3 DEF LoginNext, LoginSession, LoginRefresh, RefreshRevoke, RefreshDelete, RefreshSetNew,
                RefreshSetAccess, VerifyNext, VerifyFind, VerifyFill, TaskStates
  <2>4. /\ \A u \in Tasks : u # t => task'[u] = task[u]
        /\ task'[t] = Idle \/ (/\ task'[t].new = task[t].new
                               /\ task'[t].pc = "fill" => task'[t].tok \in activeSessions)
    BY <2>3, TaskMoves DEF TaskStates
  <2>. QED BY <1>0, <2>1, <2>2, <2>4, OverTask
<1>4. ASSUME NEW t \in Tasks, RefreshLoad(t) \/ \E r \in Pairs : RefreshStart(t, r)
      PROVE  Over(s)'
  <2>1. UNCHANGED <<sessionKey, activeSessions, storing, doomed>>
    BY <1>4 DEF RefreshLoad, RefreshStart, redis, db, spawned
  <2>2. PICK r \in Pairs : Accept(t, r) \/ Go(t, r, "load") \/ Go(t, r, "revoke") \/ End(t)
    <3>1. CASE RefreshLoad(t)
      <4>1. task[t].tok \in Pairs
        BY <3>1, Minted DEF RefreshLoad, Ties, TaskTies, Presenting, TypeOK
      <4>. QED BY <3>1, <4>1 DEF RefreshLoad
    <3>2. CASE \E r \in Pairs : RefreshStart(t, r) BY <3>2 DEF RefreshStart
    <3>. QED BY <1>4, <3>1, <3>2
  <2>3. /\ \A u \in Tasks : u # t => task'[u] = task[u]
        /\ task'[t] = Idle \/ (task'[t].new = NoPair /\ task'[t].pc # "fill")
    <3>1. r \in 0..MaxPairs /\ NoPair \in 0..MaxPairs BY Minted DEF NoPair
    <3>2. {"mark", "load", "revoke"} \subseteq TaskStates BY DEF TaskStates
    <3>3. CASE Accept(t, r) BY <3>1, <3>2, <3>3, TaskBecomes DEF Accept
    <3>4. CASE Go(t, r, "load") \/ Go(t, r, "revoke") BY <3>1, <3>2, <3>4, TaskBecomes DEF Go
    <3>5. CASE End(t) BY <3>5, TaskMoves
    <3>. QED BY <2>2, <3>3, <3>4, <3>5
  <2>. QED BY <1>0, <2>1, <2>3, OverTask
<1>5. ASSUME NEW t \in Tasks, RefreshMark(t) PROVE Over(s)'
  <2>1. UNCHANGED <<sessionKey, activeSessions, storing, doomed>> BY <1>5 DEF RefreshMark, db
  <2>2. CASE End(t)
    <3>1. task'[t] = Idle /\ \A u \in Tasks : u # t => task'[u] = task[u] BY <2>2, TaskMoves
    <3>. QED BY <1>0, <2>1, <3>1, OverTask
  <2>3. CASE task' = [task EXCEPT ![t].pc = "setNew", ![t].new = minted'] /\ minted' = minted + 1
    <3>1. /\ task'[t].pc = "setNew" /\ task'[t].new = minted + 1
          /\ \A u \in Tasks : u # t => task'[u] = task[u]
      BY <2>3 DEF TypeOK
    <3>. QED BY <1>0, <2>1, <3>1, OverTask
  <2>. QED BY <1>5, <2>2, <2>3 DEF RefreshMark, Mint
<1>6. ASSUME NEW t \in Tasks, NEW r \in Pairs, VerifyStart(t, r) PROVE Over(s)'
  <2>1. /\ task' = [task EXCEPT ![t] = [pc |-> "find", tok |-> r, new |-> NoPair]]
        /\ UNCHANGED <<sessionKey, activeSessions, storing, doomed>>
    BY <1>6 DEF VerifyStart, redis, db, spawned, ghosts
  <2>2. /\ task'[t].pc = "find" /\ task'[t].new = NoPair
        /\ \A u \in Tasks : u # t => task'[u] = task[u]
    BY <2>1 DEF TypeOK
  <2>. QED BY <1>0, <2>1, <2>2, OverTask
<1>7. ASSUME NEW i \in Pairs, StoreSession(i) PROVE Over(s)'
  <2>1. /\ i \in storing /\ storing' \subseteq storing
        /\ activeSessions' \subseteq activeSessions \cup {i}
        /\ UNCHANGED <<sessionKey, doomed, task>>
    BY <1>7 DEF StoreSession, redis, ghosts
  <2>. QED BY <1>0, <2>1 DEF Over
<1>8. ASSUME NEW i \in Pairs, RotateNext(i) PROVE Over(s)'
  BY <1>1, <1>8 DEF RotateNext, RotateFind, RotateMark, StoreRefresh, redis, db, ghosts
<1>9. ASSUME NEW i \in Pairs, SessionExpire(i) \/ RefreshExpire(i) PROVE Over(s)'
  <2>1. /\ sessionKey' \subseteq sessionKey /\ activeSessions' \subseteq activeSessions
        /\ UNCHANGED <<storing, doomed, task>>
    BY <1>9 DEF SessionExpire, RefreshExpire, db, spawned, ghosts
  <2>. QED BY <1>0, <2>1 DEF Over
<1>10. CASE ResetPassword
  <2>1. /\ activeSessions' = {} /\ doomed' = 1..minted
        /\ UNCHANGED <<sessionKey, storing, task>>
    BY <1>10 DEF ResetPassword, redis, spawned
  <2>. QED BY <1>0, <2>1 DEF Over
<1>11. CASE Crash
  <2>1. /\ task' = [t \in Tasks |-> Idle] /\ storing' = {}
        /\ UNCHANGED <<sessionKey, activeSessions, doomed>>
    BY <1>11 DEF Crash, redis, db
  <2>. QED BY <1>0, <2>1 DEF Over
<1>12. CASE UNCHANGED vars BY <1>1, <1>12 DEF vars, redis, db, spawned, ghosts
<1>. QED BY <1>2, <1>3, <1>4, <1>5, <1>6, <1>7, <1>8, <1>9, <1>10, <1>11, <1>12
     DEF Next, TaskNext, LoginNext, RefreshNext

-------------------------------------------------------------------------------
(***************************************************************************)
(* The chain of rotations: a new row is added only after the old one was   *)
(* marked, and a login's only to a pair that has no parent.                *)
(***************************************************************************)
AddedAfterMark ==
    \A i \in Pairs : /\ rotating[i] = "add" => parent[i] \in usedRows
                     /\ rotating[i] = "insert" => parent[i] = NoPair

Chain == ParentIsUsed /\ AddedAfterMark

LEMMA ChainFrame ==
    ASSUME TypeOK, Chain, usedRows \subseteq usedRows', parent' = parent,
           rows' \subseteq rows \cup {i \in Pairs : rotating[i] \in {"insert", "add"}},
           \A i \in Pairs : /\ rotating'[i] = "add" => rotating[i] = "add" \/ parent[i] \in usedRows'
                            /\ rotating'[i] = "insert" => rotating[i] = "insert" \/ parent[i] = NoPair
    PROVE  Chain'
BY DEF Chain, ParentIsUsed, AddedAfterMark

LEMMA ChainStep ==
    ASSUME TypeOK, Ties, Chain, [Next]_vars
    PROVE  Chain'
<1>1. CASE UNCHANGED <<usedRows, rows, rotating, parent>>
  BY <1>1, ChainFrame
<1>2. ASSUME NEW t \in Tasks, RefreshMark(t) PROVE Chain'
  <2>. DEFINE r == task[t].tok
              new == minted + 1
  <2>1. UNCHANGED <<rows, usedRows>> BY <1>2 DEF RefreshMark, db
  <2>2. CASE UNCHANGED <<lineage, rotating>> BY <1>1, <2>1, <2>2 DEF lineage
  <2>3. CASE minted < MaxPairs /\ Mint(r)
    <3>1. new \in Pairs /\ new \notin 1..minted BY <2>3, Minted
    <3>2. parent' = [parent EXCEPT ![new] = r] /\ rotating' = [rotating EXCEPT ![new] = "find"]
      BY <2>3 DEF Mint
    <3>3. \A i \in Pairs : i # new => parent'[i] = parent[i] /\ rotating'[i] = rotating[i]
      BY <3>2 DEF TypeOK
    <3>4. rotating'[new] = "find" BY <3>1, <3>2 DEF TypeOK
    <3>5. \A i \in rows : i \in Pairs /\ i # new BY <3>1, Minted DEF TypeOK
    <3>6. ParentIsUsed' BY <2>1, <3>3, <3>5 DEF Chain, ParentIsUsed
    <3>7. AddedAfterMark' BY <2>1, <3>3, <3>4 DEF Chain, AddedAfterMark
    <3>. QED BY <3>6, <3>7 DEF Chain
  <2>. QED BY <1>2, <2>2, <2>3 DEF RefreshMark
<1>3. ASSUME NEW t \in Tasks, LoginStart(t) PROVE Chain'
  BY <1>1, <1>3 DEF LoginStart, db, spawned
<1>4. ASSUME NEW t \in Tasks, LoginRefresh(t) PROVE Chain'
  <2>1. parent[task[t].new] = NoPair BY <1>4 DEF LoginRefresh, Ties, TaskTies, LoggingIn
  <2>2. /\ rotating' \in {rotating, [rotating EXCEPT ![task[t].new] = "insert"]}
        /\ UNCHANGED <<usedRows, rows, parent>>
    BY <1>4 DEF LoginRefresh, db, spawned, lineage
  <2>3. \A i \in Pairs : rotating'[i] = rotating[i] \/ (rotating'[i] = "insert" /\ parent[i] = NoPair)
    BY <2>1, <2>2 DEF TypeOK
  <2>. QED BY <2>2, <2>3, ChainFrame
<1>5. ASSUME NEW t \in Tasks,
             LoginSession(t) \/ RefreshLoad(t) \/ RefreshRevoke(t) \/ RefreshDelete(t)
               \/ RefreshSetNew(t) \/ RefreshSetAccess(t) \/ VerifyNext(t)
               \/ \E i \in Pairs : RefreshStart(t, i) \/ VerifyStart(t, i)
      PROVE  Chain'
  BY <1>1, <1>5 DEF LoginSession, RefreshLoad, RefreshRevoke, RefreshDelete, RefreshSetNew,
                    RefreshSetAccess, VerifyNext, VerifyFind, VerifyFill, RefreshStart, VerifyStart,
                    db, spawned, lineage
<1>6. ASSUME NEW i \in Pairs, RotateNext(i) PROVE Chain'
  <2>1. /\ parent' = parent /\ usedRows \subseteq usedRows'
        /\ rows' \subseteq rows \cup {j \in Pairs : rotating[j] \in {"insert", "add"}}
    BY <1>6 DEF RotateNext, RotateFind, RotateMark, StoreRefresh, db, lineage
  <2>2. \A j \in Pairs : j # i => rotating'[j] = rotating[j]
    BY <1>6 DEF RotateNext, RotateFind, RotateMark, StoreRefresh, Rotates, TypeOK
  <2>3. rotating'[i] # "insert" /\ (rotating'[i] = "add" => parent[i] \in usedRows')
    BY <1>6 DEF RotateNext, RotateFind, RotateMark, StoreRefresh, Rotates, TypeOK
  <2>. QED BY <2>1, <2>2, <2>3, ChainFrame
<1>7. ASSUME NEW i \in Pairs, StoreSession(i) \/ SessionExpire(i) \/ RefreshExpire(i)
      PROVE  Chain'
  BY <1>1, <1>7 DEF StoreSession, SessionExpire, RefreshExpire, db, spawned, lineage
<1>8. CASE ResetPassword BY <1>1, <1>8 DEF ResetPassword, spawned, lineage
<1>9. CASE Crash
  <2>1. rotating' = [i \in Pairs |-> "none"] /\ UNCHANGED <<usedRows, rows, parent>>
    BY <1>9 DEF Crash, db, lineage
  <2>. QED BY <2>1, ChainFrame
<1>10. CASE UNCHANGED vars BY <1>1, <1>10 DEF vars, db, spawned, lineage
<1>. QED BY <1>2, <1>3, <1>4, <1>5, <1>6, <1>7, <1>8, <1>9, <1>10
     DEF Next, TaskNext, LoginNext, RefreshNext

-------------------------------------------------------------------------------
(***************************************************************************)
(* What is spent is not fresh. A key is set to "fresh" for the pair a task *)
(* mints, which no client has yet, and a pair is spent only by a client    *)
(* that has it.                                                            *)
(***************************************************************************)
Minting == LoggingIn \cup Exchanged

OwnPair ==
    \A t \in Tasks : task[t].pc \in Minting =>
       /\ task[t].new \notin held
       /\ \A u \in Tasks : u # t /\ task[u].pc \in Minting => task[u].new # task[t].new

Spent(r) == r \in usedRows \/ Rotating(r)
SpentIsHeld == \A r \in Pairs : Spent(r) => r \in held
SpentIsNotFresh == \A r \in Pairs : Spent(r) => refreshKey[r] # "fresh"

Spending == OwnPair /\ SpentIsHeld /\ SpentIsNotFresh

\* Steps that spend and refresh nothing, and give the client at most the pair
\* their own task minted.
LEMMA SpendingFrame ==
    ASSUME TypeOK, Spending, NEW t \in Tasks,
           \A u \in Tasks : u # t => task'[u] = task[u],
           task'[t].pc \in Minting => task[t].pc \in Minting /\ task'[t].new = task[t].new,
           \/ held' = held
           \/ task[t].pc \in Minting /\ task'[t].pc \notin Minting /\ held' = held \cup {task[t].new},
           \A r \in Pairs : refreshKey'[r] = "fresh" =>
              refreshKey[r] = "fresh" \/ (task[t].pc \in Minting /\ r = task[t].new),
           \A r \in Pairs : Spent(r)' => Spent(r)
    PROVE  Spending'
<1>1. OwnPair' BY DEF Spending, OwnPair
<1>2. SpentIsHeld' BY DEF Spending, SpentIsHeld
<1>3. SpentIsNotFresh' BY DEF Spending, SpentIsNotFresh, SpentIsHeld, OwnPair
<1>. QED BY <1>1, <1>2, <1>3 DEF Spending

LEMMA SpentKept ==
    ASSUME TypeOK, usedRows' = usedRows, parent' = parent,
           \A i \in Pairs : rotating'[i] \in {"find", "mark"} => rotating[i] = rotating'[i]
    PROVE  \A r \in Pairs : Spent(r)' => Spent(r)
BY DEF Spent, Rotating

LEMMA SpendingLogin ==
    ASSUME TypeOK, Ties, Spending, NEW t \in Tasks, LoginStart(t) \/ LoginNext(t)
    PROVE  Spending'
<1>1. CASE LoginStart(t)
  <2>. DEFINE new == minted + 1
  <2>1. new \in 0..MaxPairs /\ NoPair \in 0..MaxPairs
    BY <1>1, RoomLeft, Minted DEF LoginStart, NoPair
  <2>2. /\ task' = [task EXCEPT ![t] = [pc |-> "setSession", tok |-> NoPair, new |-> new]]
        /\ UNCHANGED <<refreshKey, usedRows, rotating, parent, held>>
    BY <1>1 DEF LoginStart, redis, db, spawned
  <2>3. /\ task'[t].pc = "setSession" /\ task'[t].new = new
        /\ \A u \in Tasks : u # t => task'[u] = task[u]
    BY <2>1, <2>2, TaskBecomes DEF TaskStates
  <2>4. new \notin held /\ new \notin 1..minted BY Minted DEF TypeOK
  <2>5. \A u \in Tasks : task[u].pc \in Minting => task[u].new # new
    BY <2>4 DEF Ties, TaskTies, Minting
  <2>6. OwnPair' BY <2>2, <2>3, <2>4, <2>5 DEF Spending, OwnPair
  <2>7. \A r \in Pairs : Spent(r)' = Spent(r) BY <2>2 DEF Spent, Rotating
  <2>8. SpentIsHeld' /\ SpentIsNotFresh' BY <2>2, <2>7 DEF Spending, SpentIsHeld, SpentIsNotFresh
  <2>. QED BY <2>6, <2>8 DEF Spending
<1>2. CASE LoginSession(t)
  <2>1. /\ Step(t, "setRefresh") \/ End(t)
        /\ UNCHANGED <<refreshKey, usedRows, rotating, parent, held>>
    BY <1>2 DEF LoginSession, db, spawned, lineage
  <2>2. /\ \A u \in Tasks : u # t => task'[u] = task[u]
        /\ task'[t].pc \in Minting => task'[t].new = task[t].new
    BY <2>1, TaskMoves DEF TaskStates, Idle, Minting, LoggingIn, Exchanged
  <2>3. task[t].pc \in Minting BY <1>2 DEF LoginSession, Minting, LoggingIn
  <2>. QED BY <2>1, <2>2, <2>3, SpentKept, SpendingFrame
<1>3. CASE LoginRefresh(t)
  <2>. DEFINE new == task[t].new
  <2>1. /\ refreshKey' \in {refreshKey, [refreshKey EXCEPT ![new] = "fresh"]}
        /\ rotating' \in {rotating, [rotating EXCEPT ![new] = "insert"]}
        /\ held' \in {held, held \cup {new}}
        /\ End(t)
        /\ UNCHANGED <<usedRows, parent>>
    BY <1>3 DEF LoginRefresh, db, spawned, lineage
  <2>2. /\ \A u \in Tasks : u # t => task'[u] = task[u]
        /\ task'[t].pc \notin Minting
    BY <2>1, TaskMoves DEF Idle, Minting, LoggingIn, Exchanged
  <2>3. task[t].pc \in Minting BY <1>3 DEF LoginRefresh, Minting, LoggingIn
  <2>4. \A i \in Pairs : rotating'[i] \in {"find", "mark"} => rotating[i] = rotating'[i]
    BY <2>1 DEF TypeOK
  <2>5. \A r \in Pairs : refreshKey'[r] = "fresh" => refreshKey[r] = "fresh" \/ r = new
    BY <2>1 DEF TypeOK
  <2>. QED BY <2>1, <2>2, <2>3, <2>4, <2>5, SpentKept, SpendingFrame
<1>. QED BY <1>1, <1>2, <1>3 DEF LoginNext

LEMMA SpendingRefresh ==
    ASSUME TypeOK, Ties, Spending, NEW t \in Tasks,
           RefreshNext(t) \/ (\E r \in Pairs : RefreshStart(t, r)) \/ VerifyNext(t)
             \/ \E r \in Pairs : VerifyStart(t, r)
    PROVE  Spending'
<1>0. /\ Idle.pc \notin Minting /\ "setNew" \in Minting /\ "setAccess" \in Minting
      /\ \A at \in Presenting : at \notin Minting /\ at \in TaskStates
  BY DEF Idle, Minting, LoggingIn, Exchanged, Presenting, TaskStates
\* Reads, revocations and deletions.
<1>1. ASSUME /\ \A u \in Tasks : u # t => task'[u] = task[u]
             /\ task'[t].pc \notin Minting
             /\ \A r \in Pairs : refreshKey'[r] = "fresh" => refreshKey[r] = "fresh"
             /\ UNCHANGED <<usedRows, rotating, parent, held>>
      PROVE  Spending'
  BY <1>1, SpentKept, SpendingFrame
<1>2. ASSUME NEW r \in Pairs, NEW pc \in Presenting,
             task' = [task EXCEPT ![t] = [pc |-> pc, tok |-> r, new |-> NoPair]]
      PROVE  /\ \A u \in Tasks : u # t => task'[u] = task[u]
             /\ task'[t].pc \notin Minting
  <2>1. r \in 0..MaxPairs /\ NoPair \in 0..MaxPairs BY Minted DEF NoPair
  <2>. QED BY <1>0, <1>2, <2>1, TaskBecomes
<1>3. ASSUME End(t) \/ \E pc \in Presenting : Step(t, pc)
      PROVE  /\ \A u \in Tasks : u # t => task'[u] = task[u]
             /\ task'[t].pc \notin Minting
  BY <1>0, <1>3, TaskMoves
<1>4. {"mark", "load", "revoke", "delete", "find", "fill"} \subseteq Presenting BY DEF Presenting
<1>5. CASE RefreshLoad(t) \/ \E r \in Pairs : RefreshStart(t, r) \/ VerifyStart(t, r)
  <2>1. UNCHANGED <<refreshKey, usedRows, rotating, parent, held>>
    BY <1>5 DEF RefreshLoad, RefreshStart, VerifyStart, redis, db, spawned, lineage
  <2>2. \/ End(t)
        \/ \E r \in Pairs, pc \in Presenting :
              task' = [task EXCEPT ![t] = [pc |-> pc, tok |-> r, new |-> NoPair]]
    <3>1. CASE RefreshLoad(t)
      <4>1. task[t].tok \in Pairs
        BY <3>1, Minted DEF RefreshLoad, Ties, TaskTies, Presenting, TypeOK
      <4>. QED BY <3>1, <4>1, <1>4 DEF RefreshLoad, Accept, Go
    <3>2. CASE \E r \in Pairs : RefreshStart(t, r) BY <3>2, <1>4 DEF RefreshStart, Accept, Go
    <3>3. CASE \E r \in Pairs : VerifyStart(t, r) BY <3>3, <1>4 DEF VerifyStart
    <3>. QED BY <1>5, <3>1, <3>2, <3>3
  <2>. QED BY <1>1, <1>2, <1>3, <2>1, <2>2
<1>6. CASE RefreshRevoke(t) \/ RefreshDelete(t) \/ VerifyNext(t)
  <2>1. /\ UNCHANGED <<usedRows, rotating, parent, held>>
        /\ refreshKey' \in {refreshKey, [refreshKey EXCEPT ![task[t].tok] = "none"]}
        /\ End(t) \/ Step(t, "delete") \/ Step(t, "fill")
    BY <1>6 DEF RefreshRevoke, RefreshDelete, VerifyNext, VerifyFind, VerifyFill, redis, db, spawned,
                lineage
  <2>2. \A r \in Pairs : refreshKey'[r] = "fresh" => refreshKey[r] = "fresh"
    BY <2>1 DEF TypeOK
  <2>. QED BY <1>1, <1>3, <1>4, <2>1, <2>2
<1>7. CASE RefreshMark(t)
  <2>. DEFINE r == task[t].tok
              new == minted + 1
  <2>1. r \in held /\ r \in Pairs
    BY <1>7, Minted DEF RefreshMark, Ties, TaskTies, Presenting, TypeOK
  <2>2. UNCHANGED <<usedRows, held>> BY <1>7 DEF RefreshMark, db
  <2>3. CASE /\ End(t) /\ UNCHANGED <<lineage, rotating>>
             /\ refreshKey' \in {refreshKey, [refreshKey EXCEPT ![r] = "used"]}
    <3>1. \A s \in Pairs : refreshKey'[s] = "fresh" => refreshKey[s] = "fresh"
      BY <2>3 DEF TypeOK
    <3>. QED BY <1>1, <1>3, <2>2, <2>3, <3>1 DEF lineage
  <2>4. CASE /\ minted < MaxPairs /\ refreshKey' = [refreshKey EXCEPT ![r] = "used"] /\ Mint(r)
             /\ task' = [task EXCEPT ![t].pc = "setNew", ![t].new = minted']
    <3>1. new \in Pairs /\ new \notin 1..minted /\ new \notin held BY <2>4, Minted DEF TypeOK
    <3>2. /\ minted' = new /\ parent' = [parent EXCEPT ![new] = r]
          /\ rotating' = [rotating EXCEPT ![new] = "find"]
      BY <2>4 DEF Mint
    <3>3. /\ task'[t].pc = "setNew" /\ task'[t].new = new
          /\ \A u \in Tasks : u # t => task'[u] = task[u]
      BY <2>4, <3>2 DEF TypeOK
    <3>4. \A u \in Tasks : task[u].pc \in Minting => task[u].new # new
      BY <3>1 DEF Ties, TaskTies, Minting
    <3>5. OwnPair' BY <2>2, <3>1, <3>3, <3>4 DEF Spending, OwnPair
    <3>6. \A i \in Pairs : i # new => parent'[i] = parent[i] /\ rotating'[i] = rotating[i]
      BY <3>2 DEF TypeOK
    <3>7. parent'[new] = r BY <3>1, <3>2 DEF TypeOK
    <3>8. \A s \in Pairs : Spent(s)' => s = r \/ Spent(s)
      BY <2>2, <3>6, <3>7 DEF Spent, Rotating
    <3>9. /\ refreshKey'[r] = "used"
          /\ \A s \in Pairs : s # r => refreshKey'[s] = refreshKey[s]
      BY <2>1, <2>4 DEF TypeOK
    <3>10. SpentIsHeld' BY <2>1, <2>2, <3>8 DEF Spending, SpentIsHeld
    <3>11. SpentIsNotFresh' BY <3>8, <3>9 DEF Spending, SpentIsNotFresh
    <3>. QED BY <3>5, <3>10, <3>11 DEF Spending
  <2>. QED BY <1>7, <2>3, <2>4 DEF RefreshMark
<1>8. CASE RefreshSetNew(t) \/ RefreshSetAccess(t)
  <2>. DEFINE new == task[t].new
  <2>1. /\ task[t].pc \in Minting
        /\ UNCHANGED <<usedRows, rotating, parent>>
        /\ refreshKey' \in {refreshKey, [refreshKey EXCEPT ![new] = "fresh"]}
        /\ End(t) \/ (Step(t, "setAccess") /\ held' = held)
        /\ held' \in {held, held \cup {new}}
    BY <1>0, <1>8 DEF RefreshSetNew, RefreshSetAccess, db, spawned, lineage
  <2>2. \A s \in Pairs : refreshKey'[s] = "fresh" => refreshKey[s] = "fresh" \/ s = new
    BY <2>1 DEF TypeOK
  <2>3. /\ \A u \in Tasks : u # t => task'[u] = task[u]
        /\ \/ task'[t].pc \notin Minting
           \/ task'[t].new = task[t].new /\ held' = held
    BY <1>0, <2>1, TaskMoves DEF TaskStates
  <2>. QED BY <2>1, <2>2, <2>3, SpentKept, SpendingFrame
<1>. QED BY <1>5, <1>6, <1>7, <1>8 DEF RefreshNext

LEMMA SpendingStep ==
    ASSUME TypeOK, Ties, Spending, [Next]_vars
    PROVE  Spending'
<1>1. ASSUME UNCHANGED <<task, usedRows, rotating, parent, held>>,
             \A r \in Pairs : refreshKey'[r] = "fresh" => refreshKey[r] = "fresh"
      PROVE  Spending'
  BY <1>1 DEF Spending, OwnPair, SpentIsHeld, SpentIsNotFresh, Spent, Rotating
<1>2. ASSUME NEW t \in Tasks, LoginStart(t) \/ TaskNext(t) PROVE Spending'
  BY <1>2, SpendingLogin, SpendingRefresh DEF TaskNext
<1>3. ASSUME NEW t \in Tasks, NEW i \in Pairs, RefreshStart(t, i) \/ VerifyStart(t, i)
      PROVE  Spending'
  BY <1>3, SpendingRefresh
<1>4. ASSUME NEW i \in Pairs, StoreSession(i) \/ SessionExpire(i) PROVE Spending'
  BY <1>1, <1>4 DEF StoreSession, SessionExpire, redis, db, spawned, lineage
<1>5. ASSUME NEW i \in Pairs, RefreshExpire(i) PROVE Spending'
  <2>1. /\ refreshKey' = [refreshKey EXCEPT ![i] = "none"]
        /\ UNCHANGED <<task, usedRows, rotating, parent, held>>
    BY <1>5 DEF RefreshExpire, db, spawned, lineage
  <2>2. \A r \in Pairs : refreshKey'[r] = "fresh" => refreshKey[r] = "fresh"
    BY <2>1 DEF TypeOK
  <2>. QED BY <1>1, <2>1, <2>2
\* A rotation marks what it was rotating: what is spent stays the same.
<1>6. ASSUME NEW i \in Pairs, RotateNext(i) PROVE Spending'
  <2>1. UNCHANGED <<task, refreshKey, parent, held>>
    BY <1>6 DEF RotateNext, RotateFind, RotateMark, StoreRefresh, redis, lineage
  <2>2. \A j \in Pairs : j # i => rotating'[j] = rotating[j]
    BY <1>6 DEF RotateNext, RotateFind, RotateMark, StoreRefresh, Rotates, TypeOK
  <2>3. /\ rotating'[i] \in {"find", "mark"} => rotating[i] \in {"find", "mark"}
        /\ \/ usedRows' = usedRows
           \/ usedRows' = usedRows \cup {parent[i]} /\ rotating[i] = "mark"
    BY <1>6 DEF RotateNext, RotateFind, RotateMark, StoreRefresh, Rotates, TypeOK, db
  <2>4. \A r \in Pairs : Spent(r)' => Spent(r)
    BY <2>1, <2>2, <2>3 DEF Spent, Rotating
  <2>. QED BY <2>1, <2>4 DEF Spending, OwnPair, SpentIsHeld, SpentIsNotFresh
<1>7. CASE ResetPassword
  BY <1>1, <1>7 DEF ResetPassword, redis, spawned, lineage
<1>8. CASE Crash
  <2>1. /\ task' = [t \in Tasks |-> Idle] /\ rotating' = [i \in Pairs |-> "none"]
        /\ UNCHANGED <<refreshKey, usedRows, parent, held>>
    BY <1>8 DEF Crash, redis, db, lineage
  <2>2. OwnPair' BY <2>1 DEF OwnPair, Idle, Minting, LoggingIn, Exchanged
  <2>3. \A r \in Pairs : Spent(r)' => Spent(r) BY <2>1 DEF Spent, Rotating
  <2>. QED BY <2>1, <2>2, <2>3 DEF Spending, SpentIsHeld, SpentIsNotFresh
<1>9. CASE UNCHANGED vars
  BY <1>1, <1>9 DEF vars, redis, db, spawned, lineage
<1>. QED BY <1>2, <1>3, <1>4, <1>5, <1>6, <1>7, <1>8, <1>9 DEF Next

-------------------------------------------------------------------------------
(***************************************************************************)
(* One exchange. A request that accepts a token already exchanged reads it *)
(* while the other exchange is under way, for what is spent is neither     *)
(* fresh in Redis nor unused in PostgreSQL.                                *)
(***************************************************************************)
SecondIsRaced ==
    \A t \in Tasks : task[t].pc = "mark" =>
       /\ granted[task[t].tok] > 0 => task[t].tok \in raced \cup unrecorded
       /\ \A u \in Tasks : u # t /\ task[u].pc = "mark" /\ task[u].tok = task[t].tok
             => task[t].tok \in raced

Once == ExchangedOnce /\ SecondIsRaced

\* A step that grants nothing and after which no other task is about to exchange.
LEMMA OnceFrame ==
    ASSUME TypeOK, Once, granted' = granted, raced \subseteq raced', unrecorded \subseteq unrecorded',
           \A t \in Tasks : task'[t].pc = "mark" => task[t].pc = "mark" /\ task'[t].tok = task[t].tok
    PROVE  Once'
<1>1. ExchangedOnce' BY DEF Once, ExchangedOnce
<1>2. SecondIsRaced' BY DEF Once, SecondIsRaced
<1>. QED BY <1>1, <1>2 DEF Once

LEMMA OnceAccept ==
    ASSUME TypeOK, Recorded, Spending, Once, NEW t \in Tasks, NEW r \in Pairs, Accept(t, r),
           refreshKey[r] = "fresh" \/ r \notin usedRows,
           UNCHANGED <<granted, unrecorded>>
    PROVE  Once'
<1>1. /\ task'[t].pc = "mark" /\ task'[t].tok = r
      /\ \A u \in Tasks : u # t => task'[u] = task[u]
  <2>1. r \in 0..MaxPairs /\ NoPair \in 0..MaxPairs BY Minted DEF NoPair
  <2>. QED BY <2>1, TaskBecomes DEF Accept, TaskStates
<1>2. raced' = IF Exchanging(r) THEN raced \cup {r} ELSE raced BY DEF Accept
<1>3. raced \subseteq raced' BY <1>2
<1>4. granted[r] > 0 => r \in raced' \cup unrecorded
  <2>. SUFFICES ASSUME granted[r] > 0, r \notin unrecorded PROVE r \in raced' OBVIOUS
  <2>1. r \notin usedRows BY DEF Spending, SpentIsNotFresh, Spent
  <2>2. Rotating(r) BY <2>1 DEF Recorded
  <2>3. Exchanging(r) BY <2>2 DEF Rotating, Exchanging
  <2>. QED BY <1>2, <2>3
<1>5. \A u \in Tasks : task[u].pc = "mark" /\ task[u].tok = r => r \in raced'
  BY <1>2 DEF Exchanging
<1>6. ExchangedOnce' BY <1>3 DEF Once, ExchangedOnce
<1>7. SecondIsRaced' BY <1>1, <1>3, <1>4, <1>5 DEF Once, SecondIsRaced
<1>. QED BY <1>6, <1>7 DEF Once

LEMMA OnceStep ==
    ASSUME TypeOK, Ties, Recorded, Spending, Once, [Next]_vars
    PROVE  Once'
<1>1. ASSUME NEW t \in Tasks, granted' = granted, raced \subseteq raced', unrecorded \subseteq unrecorded',
             \A u \in Tasks : u # t => task'[u] = task[u], task'[t].pc # "mark"
      PROVE  Once'
  BY <1>1, OnceFrame
<1>2. ASSUME task' = task, granted' = granted, raced \subseteq raced', unrecorded \subseteq unrecorded'
      PROVE  Once'
  BY <1>2, OnceFrame
<1>3. ASSUME NEW t \in Tasks,
             LoginStart(t) \/ LoginNext(t) \/ RefreshRevoke(t) \/ RefreshDelete(t)
               \/ RefreshSetNew(t) \/ RefreshSetAccess(t) \/ VerifyNext(t)
               \/ \E i \in Pairs : VerifyStart(t, i)
      PROVE  Once'
  <2>1. UNCHANGED <<granted, raced, unrecorded>>
    BY <1>3 DEF LoginStart, LoginNext, LoginSession, LoginRefresh, RefreshRevoke, RefreshDelete,
                RefreshSetNew, RefreshSetAccess, VerifyNext, VerifyFind, VerifyFill, VerifyStart, ghosts
  <2>2. \/ \E at \in TaskStates \ {"mark"} : Step(t, at)
        \/ End(t)
        \/ \E at \in TaskStates \ {"mark"}, s \in 0..MaxPairs, n \in 0..MaxPairs :
              task' = [task EXCEPT ![t] = [pc |-> at, tok |-> s, new |-> n]]
    <3>0. {"setSession", "setRefresh", "delete", "setAccess", "find", "fill"} \subseteq TaskStates \ {"mark"}
      BY DEF TaskStates
    <3>1. CASE LoginStart(t)
      <4>1. minted + 1 \in 0..MaxPairs /\ NoPair \in 0..MaxPairs
        BY <3>1, RoomLeft, Minted DEF LoginStart, NoPair
      <4>. QED BY <3>0, <3>1, <4>1 DEF LoginStart
    <3>2. CASE \E i \in Pairs : VerifyStart(t, i)
      <4>1. Pairs \subseteq 0..MaxPairs /\ NoPair \in 0..MaxPairs BY Minted DEF NoPair
      <4>. QED BY <3>0, <3>2, <4>1 DEF VerifyStart
    <3>3. CASE LoginNext(t) BY <3>0, <3>3 DEF LoginNext, LoginSession, LoginRefresh
    <3>4. CASE RefreshRevoke(t) \/ RefreshDelete(t) \/ RefreshSetNew(t) \/ RefreshSetAccess(t)
      BY <3>0, <3>4 DEF RefreshRevoke, RefreshDelete, RefreshSetNew, RefreshSetAccess
    <3>5. CASE VerifyNext(t) BY <3>0, <3>5 DEF VerifyNext, VerifyFind, VerifyFill
    <3>. QED BY <1>3, <3>1, <3>2, <3>3, <3>4, <3>5
  <2>3. (\A u \in Tasks : u # t => task'[u] = task[u]) /\ task'[t].pc # "mark"
    BY <2>2, TaskMoves, TaskBecomes DEF Idle
  <2>. QED BY <1>1, <2>1, <2>3
<1>4. ASSUME NEW t \in Tasks, RefreshLoad(t) \/ \E r \in Pairs : RefreshStart(t, r)
      PROVE  Once'
  <2>1. UNCHANGED <<granted, unrecorded>> BY <1>4 DEF RefreshLoad, RefreshStart
  <2>2. PICK r \in Pairs : \/ Accept(t, r) /\ (refreshKey[r] = "fresh" \/ r \notin usedRows)
                           \/ Go(t, r, "load") \/ Go(t, r, "revoke")
                           \/ End(t) /\ UNCHANGED raced
    <3>1. CASE RefreshLoad(t)
      <4>1. task[t].tok \in Pairs
        BY <3>1, Minted DEF RefreshLoad, Ties, TaskTies, Presenting, TypeOK
      <4>. QED BY <3>1, <4>1 DEF RefreshLoad
    <3>2. CASE \E r \in Pairs : RefreshStart(t, r) BY <3>2 DEF RefreshStart
    <3>. QED BY <1>4, <3>1, <3>2
  <2>3. CASE Accept(t, r) /\ (refreshKey[r] = "fresh" \/ r \notin usedRows)
    BY <2>1, <2>3, OnceAccept
  <2>4. CASE Go(t, r, "load") \/ Go(t, r, "revoke") \/ (End(t) /\ UNCHANGED raced)
    <3>1. r \in 0..MaxPairs /\ NoPair \in 0..MaxPairs BY Minted DEF NoPair
    <3>2. (\A u \in Tasks : u # t => task'[u] = task[u]) /\ task'[t].pc # "mark"
      BY <2>4, <3>1, TaskMoves, TaskBecomes DEF Go, Idle, TaskStates
    <3>. QED BY <1>1, <2>1, <2>4, <3>2 DEF Go
  <2>. QED BY <2>2, <2>3, <2>4
<1>5. ASSUME NEW t \in Tasks, RefreshMark(t) PROVE Once'
  <2>. DEFINE r == task[t].tok
  <2>1. UNCHANGED <<raced, unrecorded>> /\ task[t].pc = "mark" BY <1>5 DEF RefreshMark
  <2>2. CASE End(t) /\ UNCHANGED granted
    <3>1. (\A u \in Tasks : u # t => task'[u] = task[u]) /\ task'[t].pc # "mark"
      BY <2>2, TaskMoves DEF Idle
    <3>. QED BY <1>1, <2>1, <2>2, <3>1
  <2>3. CASE /\ granted' = [granted EXCEPT ![r] = @ + 1]
             /\ task' = [task EXCEPT ![t].pc = "setNew", ![t].new = minted']
    <3>1. task'[t].pc = "setNew" /\ \A u \in Tasks : u # t => task'[u] = task[u]
      BY <2>3 DEF TypeOK
    <3>2. r \in Pairs BY <1>5, Minted DEF RefreshMark, Ties, TaskTies, Presenting, TypeOK
    <3>3. /\ granted[r] \in Nat /\ granted'[r] = granted[r] + 1
          /\ \A s \in Pairs : s # r => granted'[s] = granted[s]
      BY <2>3, <3>2 DEF TypeOK
    <3>4. granted[r] > 0 => r \in raced \cup unrecorded BY <2>1 DEF Once, SecondIsRaced
    <3>5. ExchangedOnce' BY <2>1, <3>3, <3>4 DEF Once, ExchangedOnce
    <3>6. \A u \in Tasks : task'[u].pc = "mark" =>
             task'[u].tok \in Pairs /\ (task'[u].tok = r => r \in raced)
      <4>1. \A u \in Tasks : task[u].pc = "mark" => task[u].tok \in Pairs
        BY Minted DEF Ties, TaskTies, Presenting, TypeOK
      <4>. QED BY <2>1, <3>1, <4>1 DEF Once, SecondIsRaced
    <3>7. SecondIsRaced' BY <2>1, <3>1, <3>3, <3>6 DEF Once, SecondIsRaced
    <3>. QED BY <3>5, <3>7 DEF Once
  <2>. QED BY <1>5, <2>2, <2>3 DEF RefreshMark, Mint
<1>6. ASSUME NEW i \in Pairs, StoreSession(i) \/ RotateNext(i) \/ SessionExpire(i) \/ RefreshExpire(i)
      PROVE  Once'
  BY <1>2, <1>6 DEF StoreSession, RotateNext, RotateFind, RotateMark, StoreRefresh, SessionExpire,
                    RefreshExpire, ghosts
<1>7. CASE ResetPassword BY <1>2, <1>7 DEF ResetPassword
<1>8. CASE Crash BY <1>8, OnceFrame DEF Crash, Idle
<1>9. CASE UNCHANGED vars BY <1>2, <1>9 DEF vars, ghosts
<1>. QED BY <1>3, <1>4, <1>5, <1>6, <1>7, <1>8, <1>9 DEF Next, TaskNext, RefreshNext

LEMMA InitSpending == Init => Chain /\ Spending /\ Once
<1>. SUFFICES ASSUME Init PROVE Chain /\ Spending /\ Once OBVIOUS
<1>1. Chain BY DEF Init, Chain, ParentIsUsed, AddedAfterMark
<1>2. Spending
  BY DEF Init, Spending, OwnPair, SpentIsHeld, SpentIsNotFresh, Spent, Rotating, Idle, Minting,
         LoggingIn, Exchanged
<1>3. Once BY DEF Init, Once, ExchangedOnce, SecondIsRaced, Idle
<1>. QED BY <1>1, <1>2, <1>3

-------------------------------------------------------------------------------
\* The tokens, rows, tasks and pairs of the token service keep their types, and
\* tasks and rotations speak of pairs that were minted (token.rs).
THEOREM TypeCorrect == Spec => [](TypeOK /\ Ties)
<1>1. Init => TypeOK /\ Ties BY InitType
<1>2. TypeOK /\ Ties /\ [Next]_vars => TypeOK' /\ Ties' BY TypeStep
<1>. QED BY <1>1, <1>2, PTL DEF Spec

\* A refresh token that refresh_token exchanged stays spent: marked in Redis,
\* used in PostgreSQL, or its rotation is under way or known not to be recorded.
THEOREM ExchangedAreSpent == Spec => []ExchangedIsSpent
<1>1. Init => TypeOK /\ Ties /\ Recorded BY InitType, InitRecorded
<1>2. TypeOK /\ Ties /\ Recorded /\ [Next]_vars => TypeOK' /\ Ties' /\ Recorded'
  BY TypeStep, RecordedStep
<1>3. Recorded => ExchangedIsSpent BY DEF Recorded, ExchangedIsSpent
<1>. QED BY <1>1, <1>2, <1>3, PTL DEF Spec

\* No step of verify_access_token, of a refresh or of a spawned task revives a
\* session from before a password reset that nothing holds any more.
THEOREM DoomedStayOver == Spec => DoomedIsNotRevived
<1>1. TypeOK /\ Ties /\ [Next]_vars => [\A s \in Pairs : Over(s) => Over(s)']_vars
  BY OverStep
<1>2. Spec => [](TypeOK /\ Ties) BY TypeCorrect
<1>. QED BY <1>1, <1>2, PTL DEF Spec, DoomedIsNotRevived

\* Every row of the table of refresh tokens came from a row that is used: the
\* statements of rotate and the spawned inserts leave no gap in the chain, so
\* that presenting a parent again is recognised (token.rs, user_model.rs).
THEOREM ParentsAreUsed == Spec => []ParentIsUsed
<1>1. Init => TypeOK /\ Ties /\ Chain BY InitType, InitSpending
<1>2. TypeOK /\ Ties /\ Chain /\ [Next]_vars => TypeOK' /\ Ties' /\ Chain'
  BY TypeStep, ChainStep
<1>3. Chain => ParentIsUsed BY DEF Chain
<1>. QED BY <1>1, <1>2, <1>3, PTL DEF Spec

\* The cache, which refresh_token asks first, never answers "fresh" for a token
\* whose row in PostgreSQL is used.
THEOREM UsedAreNotFresh == Spec => []UsedIsNotFresh
<1>1. Init => TypeOK /\ Ties /\ Spending BY InitType, InitSpending
<1>2. TypeOK /\ Ties /\ Spending /\ [Next]_vars => TypeOK' /\ Ties' /\ Spending'
  BY TypeStep, SpendingStep
<1>3. TypeOK /\ Spending => UsedIsNotFresh
  BY Minted DEF Spending, SpentIsNotFresh, Spent, UsedIsNotFresh, TypeOK
<1>. QED BY <1>1, <1>2, <1>3, PTL DEF Spec

\* refresh_token exchanges a token once, unless two requests read it before one
\* of them marked it or its rotation is known not to have been recorded.
THEOREM ExchangedAtMostOnce == Spec => []ExchangedOnce
<1>1. Init => TypeOK /\ Ties /\ Recorded /\ Spending /\ Once
  BY InitType, InitRecorded, InitSpending
<1>2. TypeOK /\ Ties /\ Recorded /\ Spending /\ Once /\ [Next]_vars
        => TypeOK' /\ Ties' /\ Recorded' /\ Spending' /\ Once'
  BY TypeStep, RecordedStep, SpendingStep, OnceStep
<1>3. Once => ExchangedOnce BY DEF Once
<1>. QED BY <1>1, <1>2, <1>3, PTL DEF Spec
===============================================================================
