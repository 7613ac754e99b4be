-------------------------- MODULE ClientSessionProofs --------------------------
(***************************************************************************)
(* For any number of processes, clients, requests, sessions and failures:  *)
(* a process takes a revoked session for valid only in the windows that    *)
(* StaleOnlyInWindows names, the last session of a client works and the    *)
(* former one does not, and a challenge is good for one login.             *)
(*                                                                         *)
(* Ties says which sessions tasks, rows and revocations speak of. A login  *)
(* knows the former session from a row it read before: Replacing says when *)
(* that is still what the row holds, Condemned that it is revoked first,   *)
(* Secret that nobody knows the new session before it is stored. Foreseen  *)
(* is LastIsLive with the revocations that are still to be written.        *)
(*                                                                         *)
(* The service also implements SessionStore. StoreInv is what this needs   *)
(* of every state, whatever has failed: nobody knows a session before it   *)
(* is stored, a request is served with a session that its client received, *)
(* and whoever is being deactivated asked for it.                          *)
(***************************************************************************)
EXTENDS ClientSession, FiniteSetTheorems, SequenceTheorems, TLAPS

Serving == {"recheck", "load", "fill", "secure", "revoke", "clear", "kill", "read", "off"}

\* What a task that has come to a step is doing, and of which session.
TaskOK(x) ==
    /\ x.pc # "idle" => x.node \in Nodes /\ x.cl \in Clients
    /\ x.pc \in Serving \cup {"store"} => x.jti \in Jtis /\ owner[x.jti] = x.cl
    /\ x.old # NoJti => x.pc # "idle" /\ x.old \in Jtis /\ owner[x.old] = x.cl
    /\ x.pc \in {"secure", "clear"} => x.op = "logout"
    /\ x.pc \in {"kill", "read", "off"} => x.op = "deactivate"
    /\ x.pc \in {"find", "mint", "store"} => x.op = "login"
    /\ x.pc = "revoke" => x.op \in {"logout", "deactivate"}

Ties ==
    /\ \A t \in Tasks : TaskOK(task[t])
    /\ \A c \in Clients : lastJti[c] # NoJti => owner[lastJti[c]] = c
    /\ \A t \in Tasks : rev[t].pc # "none" => task[t].pc = "revoke" /\ rev[t].node = task[t].node
    /\ \A j \in Jtis : rev[j].pc # "none" => j \in Minted
    /\ \A r \in Revokers : rev[r].pc = "none" => rev[r] = NoRevoke
    /\ revoked \subseteq Minted
    /\ \E k \in 0..MaxSessions : Minted = 1..k

\* The two halves of the types: what Ties speaks of, and the rest.
Core ==
    /\ lastJti \in [Clients -> Jtis \cup {NoJti}]
    /\ revoked \subseteq Jtis
    /\ task \in [Tasks -> Task]
    /\ rev \in [Revokers -> Revoke]
    /\ \A r \in Revokers : rev[r].pc # "none" => rev[r].node \in Nodes /\ rev[r].jti \in Minted
    /\ owner \in [Jtis -> Clients \cup {NoClient}]
    /\ issued \subseteq Minted

Loose ==
    /\ isActive \subseteq Clients
    /\ challenge \in [Challenges -> {"unused", "live", "gone"}]
    /\ chan \in [Nodes -> Seq(Jtis)]
    /\ link \in [Nodes -> {"up", "silent", "down"}]
    /\ localCache \in [Nodes -> [Jtis -> {"none", "valid", "revoked"}]]
    /\ passed \in [Challenges -> Nat]
    /\ excused \subseteq Nodes \X Jtis
    /\ overlapped \subseteq Clients
    /\ leaving \subseteq Clients
    /\ failed \subseteq FaultKinds

LEMMA Halves == TypeOK <=> Core /\ Loose
BY DEF TypeOK, Core, Loose, Minted

-------------------------------------------------------------------------------
(***************************************************************************)
(* Types.                                                                  *)
(***************************************************************************)
LEMMA Bounds ==
    /\ MaxSessions \in Nat /\ NoJti \notin Jtis /\ Tasks \cap Jtis = {}
    /\ NoClient \notin Clients /\ NoNode \notin Nodes
    /\ Tasks \subseteq Revokers /\ Jtis \subseteq Revokers
    /\ \A r \in Revokers : r \notin Tasks => r \in Jtis
BY MaxSessionsAssumption, TasksAssumption, NoClientAssumption, NoNodeAssumption
   DEF Jtis, NoJti, Revokers

LEMMA IdleOK == IdleTask \in Task /\ TaskOK(IdleTask) /\ NoRevoke \in Revoke
BY DEF IdleTask, Task, TaskOK, TaskStates, Ops, Serving, NoRevoke, Revoke, RevokeStates

LEMMA FailureType ==
    ASSUME failed \subseteq FaultKinds, NoFault \/ \E kind : Fault(kind)
    PROVE  failed' \subseteq FaultKinds
BY FaultsAssumption DEF NoFault, Fault

LEMMA StepTask ==
    ASSUME Core, NEW t \in Tasks, NEW at \in TaskStates, Step(t, at)
    PROVE  /\ task' \in [Tasks -> Task]
           /\ task'[t].pc = at /\ task'[t].op = task[t].op /\ task'[t].node = task[t].node
           /\ task'[t].cl = task[t].cl /\ task'[t].jti = task[t].jti /\ task'[t].old = task[t].old
           /\ task'[t].seen = task[t].seen
           /\ \A u \in Tasks : u # t => task'[u] = task[u]
<1>. DEFINE new == [task[t] EXCEPT !.pc = at]
<1>1. task[t] \in Task BY DEF Core
<1>2. /\ new \in Task
      /\ new.pc = at /\ new.op = task[t].op /\ new.node = task[t].node /\ new.cl = task[t].cl
      /\ new.jti = task[t].jti /\ new.old = task[t].old /\ new.seen = task[t].seen
  BY <1>1 DEF Task
<1>3. task' = [task EXCEPT ![t] = new] BY DEF Step
<1>. HIDE DEF new
<1>. QED BY <1>2, <1>3 DEF Core

LEMMA EndTask ==
    ASSUME Core, NEW t \in Tasks, End(t)
    PROVE  /\ task' \in [Tasks -> Task] /\ task'[t] = IdleTask
           /\ \A u \in Tasks : u # t => task'[u] = task[u]
BY IdleOK DEF End, Core

\* What every step but a mint has to keep.
LEMMA CoreFrame ==
    ASSUME Core, Ties, UNCHANGED owner, issued' \subseteq Minted, revoked' \subseteq Minted,
           task' \in [Tasks -> Task], \A t \in Tasks : TaskOK(task'[t]),
           lastJti' \in [Clients -> Jtis \cup {NoJti}],
           \A c \in Clients : lastJti'[c] # NoJti => owner[lastJti'[c]] = c,
           rev' \in [Revokers -> Revoke],
           \A r \in Revokers : rev'[r].pc # "none" => rev'[r].node \in Nodes /\ rev'[r].jti \in Minted,
           \A t \in Tasks : rev'[t].pc # "none" => task'[t].pc = "revoke" /\ rev'[t].node = task'[t].node,
           \A j \in Jtis : rev'[j].pc # "none" => j \in Minted,
           \A r \in Revokers : rev'[r].pc = "none" => rev'[r] = NoRevoke
    PROVE  Core' /\ Ties'
<1>1. Minted' = Minted BY DEF Minted
<1>2. \A t \in Tasks : TaskOK(task[t])' BY DEF TaskOK
<1>3. revoked' \subseteq Jtis BY DEF Minted
<1>4. Core' BY <1>1, <1>3 DEF Core
<1>5. Ties' BY <1>1, <1>2 DEF Ties
<1>. QED BY <1>4, <1>5

\* A step of one task.
LEMMA TaskFrame ==
    ASSUME Core, Ties, NEW t \in Tasks, task' \in [Tasks -> Task],
           \A u \in Tasks : u # t => task'[u] = task[u], TaskOK(task'[t]), task[t].pc # "revoke",
           UNCHANGED <<lastJti, revoked, rev, owner, issued>>
    PROVE  Core' /\ Ties'
<1>1. \A u \in Tasks : TaskOK(task'[u]) BY DEF Ties
<1>2. rev[t].pc = "none" BY DEF Ties
<1>3. \A u \in Tasks : rev'[u].pc # "none" => task'[u].pc = "revoke" /\ rev'[u].node = task'[u].node
  BY <1>2 DEF Ties
<1>. QED BY <1>1, <1>3, CoreFrame DEF Core, Ties

\* A task goes on to the route it came for.
LEMMA EnterOK ==
    ASSUME Core, Ties, NEW t \in Tasks, task[t].pc \in {"recheck", "load", "fill"}, Enter(t)
    PROVE  /\ task' \in [Tasks -> Task] /\ TaskOK(task'[t])
           /\ task'[t].pc \in {"idle", "secure", "kill"}
           /\ task'[t].pc # "idle" => task'[t].jti = task[t].jti /\ task'[t].cl = task[t].cl
           /\ \A u \in Tasks : u # t => task'[u] = task[u]
<1>1. TaskOK(task[t]) BY DEF Ties
<1>2. CASE End(t) BY <1>2, EndTask, IdleOK DEF IdleTask
<1>3. CASE task[t].op = "logout" /\ Step(t, "secure")
  <2>1. "secure" \in TaskStates BY DEF TaskStates
  <2>. QED BY <1>1, <1>3, <2>1, StepTask DEF TaskOK, Serving
<1>4. CASE task[t].op = "deactivate" /\ Step(t, "kill")
  <2>1. "kill" \in TaskStates BY DEF TaskStates
  <2>. QED BY <1>1, <1>4, <2>1, StepTask DEF TaskOK, Serving
<1>. QED BY <1>2, <1>3, <1>4 DEF Enter, FirstStep

LEMMA VerifyOK ==
    ASSUME TypeOK, Ties, NEW t \in Tasks, VerifyNext(t)
    PROVE  Core' /\ Ties'
<1>0. Core /\ Loose /\ TaskOK(task[t]) BY Halves DEF Ties
<1>1. ASSUME NEW n \in Nodes, NEW j \in Jtis, NEW op \in Routes, VerifyStart(t, n, op, j)
      PROVE  Core' /\ Ties'
  <2>1. PICK pc \in {"load", "recheck", "secure", "kill"} :
           /\ task' = [task EXCEPT ![t] = [IdleTask EXCEPT !.pc = pc, !.op = op, !.node = n,
                          !.cl = owner[j], !.jti = j, !.seen = localCache[n][j]]]
           /\ pc = "secure" => op = "logout"
           /\ pc = "kill" => op = "deactivate"
    BY <1>1 DEF VerifyStart, FirstStep
  <2>2. /\ j \in issued /\ task[t].pc = "idle"
        /\ UNCHANGED <<lastJti, revoked, rev, owner, issued>>
    BY <1>1 DEF VerifyStart, db, sessions
  <2>3. owner[j] \in Clients BY <1>0, <2>2 DEF Core, Minted
  <2>. DEFINE new == [IdleTask EXCEPT !.pc = pc, !.op = op, !.node = n,
                          !.cl = owner[j], !.jti = j, !.seen = localCache[n][j]]
  <2>4. localCache[n][j] \in {"none", "valid", "revoked"} BY <1>0 DEF Loose
  <2>5. op \in {"me", "logout", "deactivate"} BY RoutesAssumption
  <2>6. new \in Task BY <2>3, <2>4, <2>5 DEF Task, IdleTask, TaskStates, Ops
  <2>7. new.pc = pc /\ new.op = op /\ new.node = n /\ new.cl = owner[j] /\ new.jti = j /\ new.old = NoJti
    BY DEF IdleTask
  <2>. HIDE DEF new
  <2>8. TaskOK(new) BY <2>1, <2>3, <2>7 DEF TaskOK
  <2>9. task' \in [Tasks -> Task] /\ task'[t] = new /\ \A u \in Tasks : u # t => task'[u] = task[u]
    BY <1>0, <2>1, <2>6 DEF Core, new
  <2>. QED BY <1>0, <2>2, <2>8, <2>9, TaskFrame
<1>2. CASE VerifyRecheck(t)
  <2>1. /\ task[t].pc = "recheck"
        /\ Enter(t) \/ End(t)
        /\ UNCHANGED <<lastJti, revoked, rev, owner, issued>>
    BY <1>2 DEF VerifyRecheck, db, sessions
  <2>2. CASE Enter(t) BY <1>0, <2>1, <2>2, EnterOK, TaskFrame
  <2>3. CASE End(t) BY <1>0, <2>1, <2>3, EndTask, IdleOK, TaskFrame
  <2>. QED BY <2>1, <2>2, <2>3
<1>3. CASE VerifyLoad(t)
  <2>1. /\ task[t].pc = "load"
        /\ UNCHANGED <<lastJti, revoked, rev, owner, issued>>
    BY <1>3 DEF VerifyLoad, db, sessions
  <2>2. CASE End(t) BY <1>0, <2>1, <2>2, EndTask, IdleOK, TaskFrame
  <2>3. ASSUME NEW v \in {"valid", "revoked"},
               task' = [task EXCEPT ![t].pc = "fill", ![t].seen = v]
        PROVE  Core' /\ Ties'
    <3>. DEFINE new == [task[t] EXCEPT !.pc = "fill", !.seen = v]
    <3>1. task' = [task EXCEPT ![t] = new] BY <2>3
    <3>2. new \in Task /\ TaskOK(new)
      BY <1>0, <2>1 DEF Core, Task, TaskStates, TaskOK, Serving
    <3>. HIDE DEF new
    <3>3. task' \in [Tasks -> Task] /\ task'[t] = new /\ \A u \in Tasks : u # t => task'[u] = task[u]
      BY <1>0, <3>1, <3>2 DEF Core
    <3>. QED BY <1>0, <2>1, <3>2, <3>3, TaskFrame
  <2>. QED BY <1>3, <2>2, <2>3 DEF VerifyLoad
<1>4. CASE VerifyFill(t)
  <2>1. /\ task[t].pc = "fill"
        /\ Enter(t) \/ End(t)
        /\ UNCHANGED <<lastJti, revoked, rev, owner, issued>>
    BY <1>4 DEF VerifyFill, db, sessions
  <2>2. CASE Enter(t) BY <1>0, <2>1, <2>2, EnterOK, TaskFrame
  <2>3. CASE End(t) BY <1>0, <2>1, <2>3, EndTask, IdleOK, TaskFrame
  <2>. QED BY <2>1, <2>2, <2>3
<1>. QED BY <1>1, <1>2, <1>3, <1>4 DEF VerifyNext

LEMMA LogoutOK ==
    ASSUME TypeOK, Ties, NEW t \in Tasks, LogoutNext(t) \/ DeactivateNext(t)
    PROVE  Core' /\ Ties'
<1>0. Core /\ Loose /\ TaskOK(task[t]) /\ task[t] \in Task /\ t \in Revokers
  BY Halves, Bounds DEF Ties, Core
<1>1. \A u \in Tasks : TaskOK(task[u]) BY DEF Ties
\* The task starts a revocation of a session it knows.
<1>2. ASSUME NEW j \in Jtis, owner[j] \in Clients, task[t].pc \in {"secure", "off"},
             Step(t, "revoke"), rev' = [rev EXCEPT ![t] = StartRevoke(task[t].node, j)],
             UNCHANGED <<lastJti, revoked, owner, issued>>
      PROVE  Core' /\ Ties'
  <2>1. "revoke" \in TaskStates BY DEF TaskStates
  <2>2. /\ task' \in [Tasks -> Task] /\ task'[t].pc = "revoke" /\ task'[t].node = task[t].node
        /\ \A u \in Tasks : u # t => task'[u] = task[u]
        /\ TaskOK(task'[t])
    BY <1>0, <1>2, <2>1, StepTask DEF TaskOK, Serving
  <2>3. \A u \in Tasks : TaskOK(task'[u]) BY <1>1, <2>2
  <2>4. task[t].node \in Nodes BY <1>0, <1>2 DEF TaskOK
  <2>5. StartRevoke(task[t].node, j) \in Revoke /\ j \in Minted
    BY <1>2, <2>4, Bounds DEF StartRevoke, Revoke, RevokeStates, Minted
  <2>6. /\ rev' \in [Revokers -> Revoke] /\ rev'[t] = StartRevoke(task[t].node, j)
        /\ \A r \in Revokers : r # t => rev'[r] = rev[r]
    BY <1>0, <1>2, <2>5 DEF Core
  <2>7. rev'[t].node = task[t].node /\ rev'[t].jti = j BY <2>6 DEF StartRevoke
  <2>8. \A r \in Revokers : rev'[r].pc # "none" => rev'[r].node \in Nodes /\ rev'[r].jti \in Minted
    BY <1>0, <2>4, <2>5, <2>6, <2>7 DEF Core
  <2>9. \A u \in Tasks : rev'[u].pc # "none" => task'[u].pc = "revoke" /\ rev'[u].node = task'[u].node
    BY <2>2, <2>6, <2>7, Bounds DEF Ties
  <2>10. \A i \in Jtis : rev'[i].pc # "none" => i \in Minted BY <2>6, Bounds DEF Ties
  <2>11. \A r \in Revokers : rev'[r].pc = "none" => rev'[r] = NoRevoke
    BY <2>6 DEF Ties, StartRevoke
  <2>. QED BY <1>0, <1>2, <2>2, <2>3, <2>6, <2>8, <2>9, <2>10, <2>11, CoreFrame DEF Core, Ties
\* The task changes last_jti, or reads it.
<1>3. ASSUME NEW j \in {NoJti, lastJti[task[t].cl]}, task[t].pc \in {"clear", "kill"},
             lastJti' = [lastJti EXCEPT ![task[t].cl] = j],
             End(t) \/ (task[t].pc = "kill" /\ Step(t, "read")),
             UNCHANGED <<revoked, rev, owner, issued>>
      PROVE  Core' /\ Ties'
  <2>1. "read" \in TaskStates BY DEF TaskStates
  <2>2. /\ task' \in [Tasks -> Task] /\ TaskOK(task'[t])
        /\ \A u \in Tasks : u # t => task'[u] = task[u]
    BY <1>0, <1>3, <2>1, StepTask, EndTask, IdleOK DEF TaskOK, Serving
  <2>3. \A u \in Tasks : TaskOK(task'[u]) BY <1>1, <2>2
  <2>4. rev[t].pc = "none" BY <1>3 DEF Ties
  <2>5. \A u \in Tasks : rev'[u].pc # "none" => task'[u].pc = "revoke" /\ rev'[u].node = task'[u].node
    BY <1>3, <2>2, <2>4 DEF Ties
  <2>6. task[t].cl \in Clients BY <1>0, <1>3 DEF TaskOK
  <2>7. j \in Jtis \cup {NoJti} BY <1>0, <2>6 DEF Core
  <2>8. /\ lastJti' \in [Clients -> Jtis \cup {NoJti}]
        /\ \A c \in Clients : lastJti'[c] \in {NoJti, lastJti[c]}
    BY <1>0, <1>3, <2>6, <2>7 DEF Core
  <2>. QED BY <1>0, <1>3, <2>2, <2>3, <2>5, <2>8, CoreFrame DEF Core, Ties
<1>4. CASE LogoutSecure(t)
  <2>1. /\ task[t].pc = "secure" /\ UNCHANGED <<lastJti, revoked, owner, issued>>
    BY <1>4 DEF LogoutSecure, db, sessions
  <2>2. task[t].jti \in Jtis /\ owner[task[t].jti] \in Clients
    BY <1>0, <2>1 DEF TaskOK, Serving
  <2>3. CASE End(t) /\ UNCHANGED rev BY <1>0, <2>1, <2>3, EndTask, IdleOK, TaskFrame
  <2>4. CASE Step(t, "revoke") /\ rev' = [rev EXCEPT ![t] = StartRevoke(task[t].node, task[t].jti)]
    BY <1>2, <2>1, <2>2, <2>4
  <2>. QED BY <1>4, <2>3, <2>4 DEF LogoutSecure
<1>5. CASE LogoutClear(t)
  <2>1. /\ task[t].pc = "clear" /\ End(t) /\ UNCHANGED <<revoked, rev, owner, issued>>
        /\ lastJti' \in {lastJti, [lastJti EXCEPT ![task[t].cl] = NoJti]}
    BY <1>5 DEF LogoutClear, Cleared, sessions
  <2>2. lastJti = [lastJti EXCEPT ![task[t].cl] = lastJti[task[t].cl]] BY <1>0 DEF Core
  <2>. QED BY <1>3, <2>1, <2>2
<1>6. CASE DeactivateKill(t)
  <2>1. /\ task[t].pc = "kill" /\ UNCHANGED <<revoked, rev, owner, issued>>
        /\ End(t) \/ Step(t, "read")
        /\ lastJti' \in {lastJti, [lastJti EXCEPT ![task[t].cl] = NoJti]}
    BY <1>6 DEF DeactivateKill, sessions
  <2>2. lastJti = [lastJti EXCEPT ![task[t].cl] = lastJti[task[t].cl]] BY <1>0 DEF Core
  <2>. QED BY <1>3, <2>1, <2>2
<1>7. CASE DeactivateRead(t)
  <2>1. /\ task[t].pc = "read" /\ UNCHANGED <<lastJti, revoked, rev, owner, issued>>
    BY <1>7 DEF DeactivateRead, db, sessions
  <2>2. CASE End(t) BY <1>0, <2>1, <2>2, EndTask, IdleOK, TaskFrame
  <2>3. CASE task' = [task EXCEPT ![t].pc = "off", ![t].old = lastJti[task[t].cl]]
    <3>. DEFINE new == [task[t] EXCEPT !.pc = "off", !.old = lastJti[task[t].cl]]
    <3>1. task' = [task EXCEPT ![t] = new] BY <2>3
    <3>2. task[t].cl \in Clients BY <1>0, <2>1 DEF TaskOK
    <3>3. /\ lastJti[task[t].cl] \in Jtis \cup {NoJti}
          /\ lastJti[task[t].cl] # NoJti => owner[lastJti[task[t].cl]] = task[t].cl
      BY <1>0, <3>2 DEF Core, Ties
    <3>4. new \in Task BY <1>0, <3>3 DEF Task, TaskStates
    <3>5. new.pc = "off" /\ new.op = task[t].op /\ new.node = task[t].node /\ new.cl = task[t].cl
          /\ new.jti = task[t].jti /\ new.old = lastJti[task[t].cl]
      BY <1>0 DEF Task
    <3>. HIDE DEF new
    <3>6. TaskOK(new) BY <1>0, <2>1, <3>3, <3>5 DEF TaskOK, Serving
    <3>7. task' \in [Tasks -> Task] /\ task'[t] = new /\ \A u \in Tasks : u # t => task'[u] = task[u]
      BY <1>0, <3>1, <3>4 DEF Core
    <3>. QED BY <1>0, <2>1, <3>6, <3>7, TaskFrame
  <2>. QED BY <1>7, <2>2, <2>3 DEF DeactivateRead
<1>8. CASE DeactivateOff(t)
  <2>1. /\ task[t].pc = "off" /\ UNCHANGED <<lastJti, revoked, owner, issued>>
    BY <1>8 DEF DeactivateOff, sessions
  <2>2. CASE End(t) /\ UNCHANGED rev BY <1>0, <2>1, <2>2, EndTask, IdleOK, TaskFrame
  <2>3. CASE /\ task[t].old # NoJti /\ Step(t, "revoke")
             /\ rev' = [rev EXCEPT ![t] = StartRevoke(task[t].node, task[t].old)]
    <3>1. task[t].old \in Jtis /\ owner[task[t].old] \in Clients BY <1>0, <2>1, <2>3 DEF TaskOK
    <3>. QED BY <1>2, <2>1, <2>3, <3>1
  <2>. QED BY <1>8, <2>2, <2>3 DEF DeactivateOff
<1>. QED BY <1>4, <1>5, <1>6, <1>7, <1>8 DEF LogoutNext, DeactivateNext

LEMMA RevokeOK ==
    ASSUME TypeOK, Ties, NEW r \in Revokers, RevokeNext(r)
    PROVE  Core' /\ Ties'
<1>0. Core /\ Loose /\ rev[r] \in Revoke BY Halves DEF Core
<1>1. \A u \in Tasks : TaskOK(task[u]) BY DEF Ties
<1>2. /\ rev[r].pc # "none" /\ rev[r].node \in Nodes /\ rev[r].jti \in Minted /\ rev[r].jti \in Jtis
      /\ UNCHANGED <<lastJti, owner, issued>>
      /\ revoked' \subseteq revoked \cup {rev[r].jti}
  BY <1>0 DEF RevokeNext, RevokeSet, RevokeLocal, RevokePublish, db, sessions, Core, Minted
<1>3. r \in Tasks => task[r].pc = "revoke" /\ rev[r].node = task[r].node BY <1>2 DEF Ties
<1>4. r \in Jtis => r \in Minted BY <1>2 DEF Ties
<1>5. revoked' \subseteq Minted BY <1>2 DEF Ties
\* The revocation goes on.
<1>6. ASSUME NEW pc \in {"local", "publish"}, rev' = [rev EXCEPT ![r].pc = pc], UNCHANGED task
      PROVE  Core' /\ Ties'
  <2>. DEFINE new == [rev[r] EXCEPT !.pc = pc]
  <2>1. new \in Revoke /\ new.node = rev[r].node /\ new.jti = rev[r].jti /\ new.pc # "none"
    BY <1>0 DEF Revoke, RevokeStates
  <2>2. rev' = [rev EXCEPT ![r] = new] BY <1>6
  <2>. HIDE DEF new
  <2>3. rev' \in [Revokers -> Revoke] /\ rev'[r] = new /\ \A q \in Revokers : q # r => rev'[q] = rev[q]
    BY <1>0, <2>1, <2>2 DEF Core
  <2>4. \A q \in Revokers : rev'[q].pc # "none" => rev'[q].node \in Nodes /\ rev'[q].jti \in Minted
    BY <1>0, <1>2, <2>1, <2>3 DEF Core
  <2>5. \A u \in Tasks : rev'[u].pc # "none" => task'[u].pc = "revoke" /\ rev'[u].node = task'[u].node
    BY <1>3, <1>6, <2>1, <2>3, Bounds DEF Ties
  <2>6. \A j \in Jtis : rev'[j].pc # "none" => j \in Minted BY <1>4, <2>3, Bounds DEF Ties
  <2>7. \A q \in Revokers : rev'[q].pc = "none" => rev'[q] = NoRevoke BY <2>1, <2>3 DEF Ties
  <2>. QED BY <1>0, <1>1, <1>2, <1>5, <1>6, <2>3, <2>4, <2>5, <2>6, <2>7, CoreFrame DEF Core, Ties
\* The revocation is over.
<1>7. ASSUME rev' = [rev EXCEPT ![r] = NoRevoke],
             r \notin Tasks => UNCHANGED task,
             r \in Tasks => End(r) \/ (task[r].op = "logout" /\ Step(r, "clear"))
      PROVE  Core' /\ Ties'
  <2>1. NoRevoke \in Revoke /\ NoRevoke.pc = "none" BY IdleOK DEF NoRevoke
  <2>2. /\ rev' \in [Revokers -> Revoke] /\ rev'[r].pc = "none" /\ rev'[r] = NoRevoke
        /\ \A q \in Revokers : q # r => rev'[q] = rev[q]
    BY <1>0, <1>7, <2>1 DEF Core
  <2>3. /\ task' \in [Tasks -> Task] /\ \A u \in Tasks : TaskOK(task'[u])
        /\ \A u \in Tasks : u # r => task'[u] = task[u]
    <3>1. CASE r \notin Tasks BY <1>0, <1>1, <1>7, <3>1 DEF Core
    <3>2. CASE r \in Tasks /\ End(r) BY <1>0, <1>1, <3>2, EndTask, IdleOK
    <3>3. CASE r \in Tasks /\ task[r].op = "logout" /\ Step(r, "clear")
      <4>1. "clear" \in TaskStates BY DEF TaskStates
      <4>2. /\ task' \in [Tasks -> Task] /\ \A u \in Tasks : u # r => task'[u] = task[u]
            /\ TaskOK(task'[r])
        BY <1>0, <1>1, <1>3, <3>3, <4>1, StepTask DEF TaskOK, Serving
      <4>. QED BY <1>1, <4>2
    <3>. QED BY <1>7, <3>1, <3>2, <3>3
  <2>4. \A q \in Revokers : rev'[q].pc # "none" => rev'[q].node \in Nodes /\ rev'[q].jti \in Minted
    BY <1>0, <2>2 DEF Core
  <2>5. \A u \in Tasks : rev'[u].pc # "none" => task'[u].pc = "revoke" /\ rev'[u].node = task'[u].node
    BY <2>2, <2>3, Bounds DEF Ties
  <2>6. \A j \in Jtis : rev'[j].pc # "none" => j \in Minted BY <2>2, Bounds DEF Ties
  <2>7. \A q \in Revokers : rev'[q].pc = "none" => rev'[q] = NoRevoke BY <2>2 DEF Ties
  <2>. QED BY <1>0, <1>2, <1>5, <2>2, <2>3, <2>4, <2>5, <2>6, <2>7, CoreFrame DEF Core, Ties
<1>8. CASE RevokeSet(r)
  BY <1>6, <1>7, <1>8 DEF RevokeSet
<1>9. CASE RevokeLocal(r)
  BY <1>6, <1>9 DEF RevokeLocal
<1>10. CASE RevokePublish(r)
  BY <1>7, <1>10 DEF RevokePublish, Resume
<1>. QED BY <1>8, <1>9, <1>10 DEF RevokeNext

\* A session about to be minted is none that anything speaks of.
LEMMA NewSession ==
    ASSUME Core, Ties, Cardinality(Minted) + 1 \in Jtis
    PROVE  /\ Cardinality(Minted) + 1 \notin Minted
           /\ \E k \in 0..MaxSessions :
                 Minted \cup {Cardinality(Minted) + 1} = 1..k
<1>1. PICK k \in 0..MaxSessions : Minted = 1..k BY DEF Ties
<1>2. k \in Nat /\ MaxSessions \in Nat BY <1>1, Bounds
<1>3. Cardinality(1..k) = k BY <1>2, FS_Interval
<1>4. k + 1 \in 0..MaxSessions BY <1>1, <1>2, <1>3 DEF Jtis
<1>5. 1..k \cup {k + 1} = 1..(k + 1) BY <1>2
<1>. QED BY <1>1, <1>2, <1>3, <1>4, <1>5

LEMMA LoginOK ==
    ASSUME TypeOK, Ties, NEW t \in Tasks,
           \/ LoginNext(t)
           \/ \E n \in Nodes, c \in Clients, h \in Challenges : LoginChallenge(t, n, c, h)
    PROVE  Core' /\ Ties'
<1>0. Core /\ Loose /\ TaskOK(task[t]) /\ task[t] \in Task BY Halves DEF Ties, Core
<1>1. ASSUME NEW n \in Nodes, NEW c \in Clients, NEW h \in Challenges, LoginChallenge(t, n, c, h)
      PROVE  Core' /\ Ties'
  <2>1. /\ task[t].pc = "idle" /\ UNCHANGED <<lastJti, revoked, rev, owner, issued>>
        /\ UNCHANGED task \/ task' = [task EXCEPT ![t] = LoginTask(n, c)]
    BY <1>1 DEF LoginChallenge, db, sessions
  <2>2. LoginTask(n, c) \in Task /\ TaskOK(LoginTask(n, c))
    BY DEF LoginTask, IdleTask, Task, TaskStates, Ops, TaskOK, Serving
  <2>3. CASE task' = [task EXCEPT ![t] = LoginTask(n, c)]
    <3>1. /\ task' \in [Tasks -> Task] /\ task'[t] = LoginTask(n, c)
          /\ \A u \in Tasks : u # t => task'[u] = task[u]
      BY <1>0, <2>2, <2>3 DEF Core
    <3>. QED BY <1>0, <2>1, <2>2, <3>1, TaskFrame
  <2>4. CASE UNCHANGED task BY <1>0, <2>1, <2>4, TaskFrame DEF Core
  <2>. QED BY <2>1, <2>3, <2>4
<1>2. CASE LoginFind(t)
  <2>1. /\ task[t].pc = "find" /\ UNCHANGED <<lastJti, revoked, rev, owner, issued>>
    BY <1>2 DEF LoginFind, db, sessions
  <2>2. CASE End(t) BY <1>0, <2>1, <2>2, EndTask, IdleOK, TaskFrame
  <2>3. CASE task' = [task EXCEPT ![t].pc = "mint", ![t].old = lastJti[task[t].cl]]
    <3>. DEFINE new == [task[t] EXCEPT !.pc = "mint", !.old = lastJti[task[t].cl]]
    <3>1. task' = [task EXCEPT ![t] = new] BY <2>3
    <3>2. task[t].cl \in Clients BY <1>0, <2>1 DEF TaskOK
    <3>3. /\ lastJti[task[t].cl] \in Jtis \cup {NoJti}
          /\ lastJti[task[t].cl] # NoJti => owner[lastJti[task[t].cl]] = task[t].cl
      BY <1>0, <3>2 DEF Core, Ties
    <3>4. new \in Task BY <1>0, <3>3 DEF Task, TaskStates
    <3>5. new.pc = "mint" /\ new.op = task[t].op /\ new.node = task[t].node /\ new.cl = task[t].cl
          /\ new.jti = task[t].jti /\ new.old = lastJti[task[t].cl]
      BY <1>0 DEF Task
    <3>. HIDE DEF new
    <3>6. TaskOK(new) BY <1>0, <2>1, <3>3, <3>5 DEF TaskOK, Serving
    <3>7. task' \in [Tasks -> Task] /\ task'[t] = new /\ \A u \in Tasks : u # t => task'[u] = task[u]
      BY <1>0, <3>1, <3>4 DEF Core
    <3>. QED BY <1>0, <2>1, <3>6, <3>7, TaskFrame
  <2>. QED BY <1>2, <2>2, <2>3 DEF LoginFind
<1>3. CASE LoginMint(t)
  <2>. DEFINE new == Cardinality(Minted) + 1
              job == [task[t] EXCEPT !.pc = "store", !.jti = new]
  <2>1. /\ task[t].pc = "mint" /\ new \in Jtis
        /\ owner' = [owner EXCEPT ![new] = task[t].cl]
        /\ rev' = IF task[t].old # NoJti
                  THEN [rev EXCEPT ![new] = StartRevoke(task[t].node, task[t].old)] ELSE rev
        /\ task' = [task EXCEPT ![t] = job]
        /\ UNCHANGED <<lastJti, revoked, issued>>
    BY <1>3 DEF LoginMint, db
  <2>2. new \notin Minted /\ \E k \in 0..MaxSessions : Minted \cup {new} = 1..k
    BY <1>0, <2>1, NewSession
  <2>3. task[t].cl \in Clients /\ task[t].node \in Nodes BY <1>0, <2>1 DEF TaskOK
  <2>4. job \in Task BY <1>0, <2>1 DEF Task, TaskStates
  <2>5. job.pc = "store" /\ job.op = task[t].op /\ job.node = task[t].node /\ job.cl = task[t].cl
        /\ job.jti = new /\ job.old = task[t].old
    BY <1>0 DEF Task
  <2>. HIDE DEF job, new
  <2>6. /\ owner' \in [Jtis -> Clients \cup {NoClient}] /\ owner'[new] = task[t].cl
        /\ \A j \in Jtis : j # new => owner'[j] = owner[j]
    BY <1>0, <2>1, <2>3 DEF Core
  <2>7. Minted' = Minted \cup {new} BY <2>1, <2>3, <2>6, Bounds DEF Minted
  <2>8. task' \in [Tasks -> Task] /\ task'[t] = job /\ \A u \in Tasks : u # t => task'[u] = task[u]
    BY <1>0, <2>1, <2>4 DEF Core
  <2>9. task[t].old # NoJti => /\ StartRevoke(task[t].node, task[t].old) \in Revoke
                               /\ task[t].old \in Minted
    BY <1>0, <2>3, Bounds DEF StartRevoke, Revoke, RevokeStates, TaskOK, Minted
  <2>10. /\ rev' \in [Revokers -> Revoke]
         /\ \A r \in Revokers : r # new => rev'[r] = rev[r]
         /\ rev'[new] = rev[new] \/ (task[t].old # NoJti
                                       /\ rev'[new] = StartRevoke(task[t].node, task[t].old))
    BY <1>0, <2>1, <2>9, Bounds DEF Core
  <2>11. Core'
    <3>1. ASSUME NEW r \in Revokers, rev'[r].pc # "none"
          PROVE  rev'[r].node \in Nodes /\ rev'[r].jti \in Minted
      <4>1. CASE rev'[r] = rev[r] BY <1>0, <3>1, <4>1 DEF Core
      <4>2. CASE rev'[r] # rev[r] BY <2>3, <2>9, <2>10, <4>2 DEF StartRevoke
      <4>. QED BY <4>1, <4>2
    <3>. QED BY <1>0, <2>1, <2>6, <2>7, <2>8, <2>10, <3>1 DEF Core
  <2>12. \A u \in Tasks : TaskOK(task[u])'
    <3>1. ASSUME NEW u \in Tasks PROVE TaskOK(task[u])'
      <4>1. CASE u = t
        <5>1. task[t].old # NoJti => task[t].old \in Jtis /\ task[t].old # new
          BY <1>0, <2>2, <2>9 DEF TaskOK
        <5>2. /\ task'[u].pc = "store" /\ task'[u].op = "login" /\ task'[u].node \in Nodes
              /\ task'[u].cl = task[t].cl /\ task'[u].jti = new /\ task'[u].old = task[t].old
          BY <1>0, <2>1, <2>3, <2>5, <2>8, <4>1 DEF TaskOK
        <5>. QED BY <1>0, <2>1, <2>3, <2>6, <5>1, <5>2 DEF TaskOK, Serving
      <4>2. CASE u # t
        <5>1. TaskOK(task[u]) /\ task'[u] = task[u] BY <2>8, <4>2 DEF Ties
        <5>2. task[u].pc \in Serving \cup {"store"} => task[u].jti # new
          BY <2>2, <5>1, Bounds DEF TaskOK, Minted, Serving
        <5>3. task[u].old # NoJti => task[u].old # new
          BY <2>2, <5>1, Bounds DEF TaskOK, Minted
        <5>. QED BY <2>6, <5>1, <5>2, <5>3 DEF TaskOK
      <4>. QED BY <4>1, <4>2
    <3>. QED BY <3>1
  <2>13. ASSUME NEW c \in Clients, lastJti'[c] # NoJti PROVE owner'[lastJti'[c]] = c
    <3>1. lastJti[c] \in Jtis /\ owner[lastJti[c]] = c BY <1>0, <2>1, <2>13 DEF Core, Ties
    <3>2. lastJti[c] # new BY <2>2, <3>1, Bounds DEF Minted
    <3>. QED BY <2>1, <2>6, <3>1, <3>2
  <2>14. \A u \in Tasks : rev'[u].pc # "none" => task'[u].pc = "revoke" /\ rev'[u].node = task'[u].node
    <3>1. \A u \in Tasks : u # new BY <2>1, Bounds
    <3>2. rev[t].pc = "none" BY <2>1 DEF Ties
    <3>. QED BY <2>8, <2>10, <3>1, <3>2, Bounds DEF Ties
  <2>15. \A j \in Jtis : rev'[j].pc # "none" => j \in Minted' BY <2>7, <2>10, Bounds DEF Ties
  <2>16. revoked' \subseteq Minted' BY <2>1, <2>7 DEF Ties
  <2>17. \A r \in Revokers : rev'[r].pc = "none" => rev'[r] = NoRevoke
    BY <2>10 DEF Ties, StartRevoke
  <2>. QED BY <2>2, <2>7, <2>11, <2>12, <2>13, <2>14, <2>15, <2>16, <2>17 DEF Ties
<1>4. CASE LoginStore(t)
  <2>1. /\ task[t].pc = "store" /\ End(t) /\ UNCHANGED <<revoked, rev, owner>>
        /\ lastJti' \in {lastJti, [lastJti EXCEPT ![task[t].cl] = task[t].jti]}
        /\ issued' \in {issued, issued \cup {task[t].jti}}
    BY <1>4 DEF LoginStore
  <2>2. /\ task' \in [Tasks -> Task] /\ task'[t] = IdleTask
        /\ \A u \in Tasks : u # t => task'[u] = task[u]
    BY <1>0, <2>1, EndTask
  <2>3. \A u \in Tasks : TaskOK(task'[u]) BY <2>2, IdleOK DEF Ties
  <2>4. task[t].cl \in Clients /\ task[t].jti \in Jtis /\ owner[task[t].jti] = task[t].cl
    BY <1>0, <2>1 DEF TaskOK, Serving
  <2>5. issued' \subseteq Minted BY <1>0, <2>1, <2>4, Bounds DEF Core, Minted
  <2>6. /\ lastJti' \in [Clients -> Jtis \cup {NoJti}]
        /\ \A c \in Clients : lastJti'[c] # NoJti => owner[lastJti'[c]] = c
    BY <1>0, <2>1, <2>4 DEF Core, Ties
  <2>7. \A u \in Tasks : rev'[u].pc # "none" => task'[u].pc = "revoke" /\ rev'[u].node = task'[u].node
    BY <2>1, <2>2 DEF Ties
  <2>. QED BY <1>0, <2>1, <2>2, <2>3, <2>5, <2>6, <2>7, CoreFrame DEF Core, Ties
<1>. QED BY <1>1, <1>2, <1>3, <1>4 DEF LoginNext

LEMMA CrashOK ==
    ASSUME TypeOK, Ties, NEW n \in Nodes, Crash(n)
    PROVE  Core' /\ Ties'
<1>0. Core BY Halves
<1>1. /\ task' = [t \in Tasks |-> IF task[t].node = n THEN IdleTask ELSE task[t]]
      /\ rev' = [r \in Revokers |-> IF rev[r].node = n THEN NoRevoke ELSE rev[r]]
      /\ UNCHANGED <<lastJti, revoked, owner, issued>>
  BY DEF Crash, db, sessions
<1>2. task' \in [Tasks -> Task] /\ rev' \in [Revokers -> Revoke] BY <1>0, <1>1, IdleOK DEF Core
<1>3. \A t \in Tasks : TaskOK(task'[t]) BY <1>1, IdleOK DEF Ties
<1>4. NoRevoke.pc = "none" BY DEF NoRevoke
<1>5. \A r \in Revokers : rev'[r].pc # "none" => rev'[r] = rev[r] /\ rev[r].node # n BY <1>1, <1>4
<1>6. \A t \in Tasks : rev'[t].pc # "none" => task'[t].pc = "revoke" /\ rev'[t].node = task'[t].node
  BY <1>1, <1>5, Bounds DEF Ties
<1>7. \A r \in Revokers : rev'[r].pc = "none" => rev'[r] = NoRevoke BY <1>1 DEF Ties
<1>. QED BY <1>0, <1>1, <1>2, <1>3, <1>5, <1>6, <1>7, CoreFrame, Bounds DEF Core, Ties

\* The steps that change nothing that Core or Ties speak of.
Aside ==
    \/ \E n \in Nodes : ListenerNext(n) \/ LinkBreaks(n) \/ SilenceEnds(n)
    \/ \E n \in Nodes, j \in Jtis : CacheExpire(n, j)
    \/ \E h \in Challenges : NewChallenge(h) \/ ChallengeExpire(h) \/ SignUp(h)
    \/ UNCHANGED vars

LEMMA Steps ==
    ASSUME [Next]_vars
    PROVE  \/ \E t \in Tasks : VerifyNext(t)
           \/ \E t \in Tasks : LogoutNext(t) \/ DeactivateNext(t)
           \/ \E t \in Tasks : \/ LoginNext(t)
                               \/ \E n \in Nodes, c \in Clients, h \in Challenges : LoginChallenge(t, n, c, h)
           \/ \E r \in Revokers : RevokeNext(r)
           \/ \E n \in Nodes : Crash(n)
           \/ Aside
BY DEF Next, Aside

LEMMA AsideKeeps ==
    ASSUME Aside
    PROVE  UNCHANGED <<db, revoked, task, rev, sessions, overlapped, leaving>>
BY DEF Aside, ListenerNext, Connect, Receive, LinkBreaks, SilenceEnds, CacheExpire, NewChallenge,
       ChallengeExpire, SignUp, vars, db, sessions, ghosts

LEMMA CoreStep ==
    ASSUME TypeOK, Ties, [Next]_vars
    PROVE  Core' /\ Ties'
<1>1. CASE Aside
  <2>1. UNCHANGED <<lastJti, revoked, task, rev, owner, issued>> BY <1>1, AsideKeeps DEF db, sessions
  <2>. QED BY <2>1, Halves, CoreFrame DEF Core, Ties
<1>. QED BY <1>1, Steps, VerifyOK, LogoutOK, LoginOK, RevokeOK, CrashOK

LEMMA ForgetType ==
    ASSUME Loose, NEW n \in Nodes, NEW j \in Jtis, Forget(n, j)
    PROVE  /\ localCache' \in [Nodes -> [Jtis -> {"none", "valid", "revoked"}]]
           /\ excused' \subseteq Nodes \X Jtis
BY DEF Loose, Forget

LEMMA NeverToldType ==
    ASSUME Loose, NEW ns \in SUBSET Nodes, NEW js \in SUBSET Jtis, NeverTold(ns, js)
    PROVE  excused' \subseteq Nodes \X Jtis
BY DEF Loose, NeverTold

LEMMA LooseVerify ==
    ASSUME TypeOK, Ties, NEW t \in Tasks, VerifyNext(t)
    PROVE  Loose'
<1>0. Core /\ Loose /\ TaskOK(task[t]) /\ task[t] \in Task BY Halves DEF Ties, Core
<1>1. failed' \subseteq FaultKinds
  BY <1>0, FailureType DEF VerifyNext, VerifyStart, VerifyRecheck, VerifyLoad, VerifyFill, Loose
<1>2. leaving' \subseteq Clients
  <2>1. ASSUME NEW n \in Nodes, NEW j \in Jtis, NEW op \in Routes, VerifyStart(t, n, op, j)
        PROVE  leaving' \subseteq Clients
    BY <1>0, <2>1 DEF VerifyStart, Loose, Core, Minted
  <2>2. CASE VerifyRecheck(t) \/ VerifyFill(t)
    BY <1>0, <2>2 DEF VerifyRecheck, VerifyFill, Leave, Loose, TaskOK
  <2>3. CASE VerifyLoad(t) BY <1>0, <2>3 DEF VerifyLoad, ghosts, Loose
  <2>. QED BY <2>1, <2>2, <2>3 DEF VerifyNext
<1>3. /\ localCache' \in [Nodes -> [Jtis -> {"none", "valid", "revoked"}]]
      /\ excused' \subseteq Nodes \X Jtis
  <2>1. ASSUME NEW n \in Nodes, NEW j \in Jtis, NEW op \in Routes, VerifyStart(t, n, op, j)
        PROVE  UNCHANGED <<localCache, excused>>
    BY <2>1 DEF VerifyStart
  <2>2. CASE VerifyRecheck(t)
    <3>1. task[t].node \in Nodes /\ task[t].jti \in Jtis
      BY <1>0, <2>2 DEF VerifyRecheck, TaskOK, Serving
    <3>2. Forget(task[t].node, task[t].jti) \/ KeepCache BY <2>2 DEF VerifyRecheck
    <3>. QED BY <1>0, <3>1, <3>2, ForgetType DEF KeepCache, Loose
  <2>3. CASE VerifyLoad(t) BY <1>0, <2>3 DEF VerifyLoad, ghosts, Loose
  <2>4. CASE VerifyFill(t)
    <3>1. task[t].node \in Nodes /\ task[t].jti \in Jtis
      BY <1>0, <2>4 DEF VerifyFill, TaskOK, Serving
    <3>2. task[t].seen \in {"none", "valid", "revoked"} BY <1>0 DEF Task
    <3>. QED BY <1>0, <2>4, <3>1, <3>2 DEF VerifyFill, Loose
  <2>. QED BY <1>0, <2>1, <2>2, <2>3, <2>4 DEF VerifyNext, Loose
<1>4. UNCHANGED <<isActive, challenge, chan, link, passed, overlapped>>
  BY DEF VerifyNext, VerifyStart, VerifyRecheck, VerifyLoad, VerifyFill, db, ghosts
<1>. QED BY <1>0, <1>1, <1>2, <1>3, <1>4 DEF Loose

LEMMA LooseTask ==
    ASSUME TypeOK, Ties, NEW t \in Tasks, LogoutNext(t) \/ DeactivateNext(t) \/ LoginNext(t)
    PROVE  Loose'
<1>0. Core /\ Loose /\ TaskOK(task[t]) BY Halves DEF Ties
<1>1. failed' \subseteq FaultKinds
  BY <1>0, FailureType DEF LogoutNext, LogoutSecure, LogoutClear, DeactivateNext, DeactivateKill,
     DeactivateRead, DeactivateOff, LoginNext, LoginFind, LoginMint, LoginStore, Loose
<1>2. isActive' \subseteq isActive
  BY DEF LogoutNext, LogoutSecure, LogoutClear, DeactivateNext, DeactivateKill,
     DeactivateRead, DeactivateOff, LoginNext, LoginFind, LoginMint, LoginStore, db
<1>3. overlapped' \subseteq Clients
  BY <1>0 DEF LogoutNext, LogoutSecure, LogoutClear, DeactivateNext, DeactivateKill,
     DeactivateRead, DeactivateOff, LoginNext, LoginFind, LoginMint, LoginStore, ghosts, Loose, TaskOK
<1>4. UNCHANGED <<challenge, chan, link, localCache, passed, excused, leaving>>
  BY DEF LogoutNext, LogoutSecure, LogoutClear, DeactivateNext, DeactivateKill,
     DeactivateRead, DeactivateOff, LoginNext, LoginFind, LoginMint, LoginStore, ghosts
<1>. QED BY <1>0, <1>1, <1>2, <1>3, <1>4 DEF Loose

LEMMA LooseRevoke ==
    ASSUME TypeOK, Ties, NEW r \in Revokers, RevokeNext(r)
    PROVE  Loose'
<1>0. Core /\ Loose BY Halves
<1>1. rev[r].node \in Nodes /\ rev[r].jti \in Jtis
  BY <1>0 DEF RevokeNext, RevokeSet, RevokeLocal, RevokePublish, Core, Minted
<1>2. UNCHANGED <<isActive, challenge, link, passed, overlapped, leaving>>
  BY DEF RevokeNext, RevokeSet, RevokeLocal, RevokePublish, db
<1>3. failed' \subseteq FaultKinds
  BY <1>0, FailureType DEF RevokeNext, RevokeSet, RevokeLocal, RevokePublish, Loose
<1>4. {rev[r].jti} \in SUBSET Jtis /\ Nodes \in SUBSET Nodes BY <1>1
<1>5. CASE RevokeSet(r)
  <2>1. UNCHANGED excused \/ NeverTold(Nodes, {rev[r].jti}) BY <1>5 DEF RevokeSet
  <2>2. excused' \subseteq Nodes \X Jtis BY <1>0, <1>4, <2>1, NeverToldType DEF Loose
  <2>. QED BY <1>0, <1>2, <1>3, <1>5, <2>2 DEF RevokeSet, Loose
<1>6. CASE RevokeLocal(r)
  BY <1>0, <1>1, <1>2, <1>3, <1>6, ForgetType DEF RevokeLocal, Loose
<1>7. CASE RevokePublish(r)
  <2>1. CASE Publish(rev[r].jti)
    <3>1. {n \in Nodes : link[n] # "up"} \in SUBSET Nodes OBVIOUS
    <3>2. excused' \subseteq Nodes \X Jtis
      BY <1>0, <1>4, <2>1, <3>1, NeverToldType DEF Publish
    <3>3. \A n \in Nodes : Append(chan[n], rev[r].jti) \in Seq(Jtis) BY <1>0, <1>1 DEF Loose
    <3>4. chan' \in [Nodes -> Seq(Jtis)] BY <1>0, <2>1, <3>3 DEF Publish, Loose
    <3>. QED BY <1>0, <1>2, <1>3, <1>7, <3>2, <3>4 DEF RevokePublish, Loose
  <2>2. CASE UNCHANGED chan /\ NeverTold(Nodes, {rev[r].jti})
    <3>1. excused' \subseteq Nodes \X Jtis BY <1>0, <1>4, <2>2, NeverToldType
    <3>. QED BY <1>0, <1>2, <1>3, <1>7, <2>2, <3>1 DEF RevokePublish, Loose
  <2>. QED BY <1>7, <2>1, <2>2 DEF RevokePublish
<1>. QED BY <1>5, <1>6, <1>7 DEF RevokeNext

LEMMA LooseCrash ==
    ASSUME TypeOK, Ties, NEW n \in Nodes, Crash(n)
    PROVE  Loose'
<1>0. Core /\ Loose BY Halves
<1>1. failed' \subseteq FaultKinds BY <1>0, FailureType DEF Crash, Loose
<1>2. EmptyCache \in [Jtis -> {"none", "valid", "revoked"}] BY DEF EmptyCache
<1>3. localCache' \in [Nodes -> [Jtis -> {"none", "valid", "revoked"}]] BY <1>0, <1>2 DEF Crash, Loose
<1>4. excused' \subseteq Nodes \X Jtis
  <2>1. \A q \in Revokers : rev[q].node = n => rev[q].pc # "none" BY Bounds DEF Ties, NoRevoke
  <2>2. \A q \in Revokers : rev[q].node = n => rev[q].jti \in Jtis
    BY <1>0, <2>1 DEF Core, Minted
  <2>. QED BY <1>0, <2>2 DEF Crash, Loose
<1>5. UNCHANGED <<isActive, challenge, passed, overlapped, leaving>> BY DEF Crash, db
<1>6. <<>> \in Seq(Jtis) OBVIOUS
<1>7. chan' \in [Nodes -> Seq(Jtis)] /\ link' \in [Nodes -> {"up", "silent", "down"}]
  BY <1>0, <1>6 DEF Crash, Loose
<1>. QED BY <1>0, <1>1, <1>3, <1>4, <1>5, <1>7 DEF Loose

LEMMA LooseAside ==
    ASSUME TypeOK, Aside
    PROVE  Loose'
<1>0. Core /\ Loose BY Halves
<1>1. ASSUME NEW n \in Nodes, Connect(n) \/ SilenceEnds(n) PROVE Loose'
  BY <1>0, <1>1 DEF Connect, SilenceEnds, NoFault, Loose, db, ghosts
<1>2. ASSUME NEW n \in Nodes, Receive(n) PROVE Loose'
  <2>1. chan[n] \in Seq(Jtis) /\ chan[n] # <<>> BY <1>0, <1>2 DEF Loose, Receive
  <2>2. Head(chan[n]) \in Jtis /\ Tail(chan[n]) \in Seq(Jtis) BY <2>1, HeadTailProperties
  <2>. QED BY <1>0, <1>2, <2>2, ForgetType DEF Receive, NoFault, Loose, db
<1>3. ASSUME NEW n \in Nodes, LinkBreaks(n) PROVE Loose'
  <2>1. {chan[n][i] : i \in DOMAIN chan[n]} \in SUBSET Jtis /\ {n} \in SUBSET Nodes
    BY <1>0, ElementOfSeq DEF Loose
  <2>2. excused' \subseteq Nodes \X Jtis BY <1>0, <1>3, <2>1, NeverToldType DEF LinkBreaks, Loses
  <2>3. failed' \subseteq FaultKinds BY <1>0, <1>3, FailureType DEF LinkBreaks, Loose
  <2>4. <<>> \in Seq(Jtis) OBVIOUS
  <2>5. chan' \in [Nodes -> Seq(Jtis)] BY <1>0, <1>3, <2>4 DEF LinkBreaks, Loses, Loose
  <2>. QED BY <1>0, <1>3, <2>2, <2>3, <2>5 DEF LinkBreaks, Loose, db
<1>4. ASSUME NEW n \in Nodes, NEW j \in Jtis, CacheExpire(n, j) PROVE Loose'
  BY <1>0, <1>4, ForgetType DEF CacheExpire, NoFault, Loose, db
<1>5. ASSUME NEW h \in Challenges, NewChallenge(h) \/ ChallengeExpire(h) PROVE Loose'
  BY <1>0, <1>5 DEF NewChallenge, ChallengeExpire, NoFault, Loose, db, ghosts
<1>6. CASE UNCHANGED vars BY <1>0, <1>6 DEF vars, db, ghosts, Loose
<1>. QED BY <1>1, <1>2, <1>3, <1>4, <1>5, <1>6 DEF Aside, ListenerNext, SignUp

LEMMA LooseChallenge ==
    ASSUME TypeOK, NEW t \in Tasks, NEW n \in Nodes, NEW c \in Clients, NEW h \in Challenges,
           LoginChallenge(t, n, c, h)
    PROVE  Loose'
<1>0. Core /\ Loose BY Halves
<1>1. failed' \subseteq FaultKinds BY <1>0, FailureType DEF LoginChallenge, Loose
<1>2. passed' \in [Challenges -> Nat]
  <2>1. passed[h] + 1 \in Nat BY <1>0 DEF Loose
  <2>2. passed' = [passed EXCEPT ![h] = passed[h] + 1] \/ UNCHANGED passed BY DEF LoginChallenge
  <2>. QED BY <1>0, <2>1, <2>2 DEF Loose
<1>3. challenge' \in [Challenges -> {"unused", "live", "gone"}] BY <1>0 DEF LoginChallenge, Loose
<1>. QED BY <1>0, <1>1, <1>2, <1>3 DEF LoginChallenge, Loose, db, ghosts

LEMMA TypeStep ==
    ASSUME TypeOK, Ties, [Next]_vars
    PROVE  TypeOK' /\ Ties'
<1>1. Core' /\ Ties' BY CoreStep
<1>2. Loose'
  BY Steps, LooseVerify, LooseTask, LooseRevoke, LooseCrash, LooseAside, LooseChallenge
<1>3. Core' /\ Loose' => TypeOK' BY Halves, PTL
<1>. QED BY <1>1, <1>2, <1>3

LEMMA TypeInit == Init => TypeOK /\ Ties
<1>. SUFFICES ASSUME Init PROVE TypeOK /\ Ties OBVIOUS
<1>1. Minted = {} BY DEF Init, Minted
<1>2. \A r \in Revokers : rev[r] = NoRevoke BY DEF Init
<1>3. NoRevoke.pc = "none" BY DEF NoRevoke
<1>4. Ties
  <2>1. 0 \in 0..MaxSessions /\ Minted = 1..0 BY <1>1, Bounds
  <2>. QED BY <1>1, <1>2, <1>3, <2>1, IdleOK, Bounds DEF Init, Ties
<1>5. <<>> \in Seq(Jtis) OBVIOUS
<1>6. TypeOK BY <1>1, <1>2, <1>3, <1>5, IdleOK DEF Init, TypeOK, EmptyCache
<1>. QED BY <1>4, <1>6

\* For any constants, rows, keys, caches and locals have their types, and
\* tasks, rows and revocations speak of sessions of the client they are of.
THEOREM TypeCorrect == Spec => [](TypeOK /\ Ties)
<1>1. TypeOK /\ Ties /\ [Next]_vars => TypeOK' /\ Ties' BY TypeStep
<1>. QED BY <1>1, TypeInit, PTL DEF Spec


-------------------------------------------------------------------------------
(***************************************************************************)
(* The windows in which a revoked session is taken for valid.              *)
(***************************************************************************)
Window(n, j) == Revoking(j) \/ Announced(n, j) \/ <<n, j>> \in excused

\* A revocation under way stays under way.
Carried == \A r \in Revokers : rev[r].pc # "none" => rev'[r].pc # "none" /\ rev'[r].jti = rev[r].jti

LEMMA StillRevoking ==
    ASSUME Carried, NEW j, Revoking(j)
    PROVE  Revoking(j)'
BY DEF Revoking, Carried

\* A step that leaves caches and announcements alone.
LEMMA WindowFrame ==
    ASSUME StaleOnlyInWindows, Carried, UNCHANGED <<revoked, chan, localCache, excused>>
    PROVE  StaleOnlyInWindows'
BY StillRevoking DEF StaleOnlyInWindows, Announced

\* A step that takes a session out of one cache, or changes nothing of it.
LEMMA WindowForget ==
    ASSUME TypeOK, StaleOnlyInWindows, Carried, UNCHANGED <<revoked, chan>>,
           NEW n \in Nodes, NEW j \in Jtis, Forget(n, j)
    PROVE  StaleOnlyInWindows'
<1>1. \A m \in Nodes, i \in Jtis : localCache'[m][i] = "valid" =>
         localCache[m][i] = "valid" /\ <<m, i>> # <<n, j>>
  BY DEF Forget, TypeOK
<1>2. \A m \in Nodes, i \in Jtis : <<m, i>> # <<n, j>> /\ <<m, i>> \in excused => <<m, i>> \in excused'
  BY DEF Forget
<1>3. revoked \subseteq Jtis BY DEF TypeOK
<1>. QED BY <1>1, <1>2, <1>3, StillRevoking DEF StaleOnlyInWindows, Announced

LEMMA TaskWindows ==
    ASSUME TypeOK, Ties, StaleOnlyInWindows, NEW t \in Tasks,
           LogoutNext(t) \/ DeactivateNext(t) \/ LoginNext(t)
    PROVE  StaleOnlyInWindows'
<1>0. Core BY Halves
<1>1. UNCHANGED <<revoked, chan, localCache, excused>>
  BY DEF LogoutNext, LogoutSecure, LogoutClear, DeactivateNext, DeactivateKill,
     DeactivateRead, DeactivateOff, LoginNext, LoginFind, LoginMint, LoginStore, ghosts
<1>2. CASE LogoutSecure(t) \/ DeactivateOff(t)
  <2>1. rev[t].pc = "none" /\ t \in Revokers
    BY <1>2, Bounds DEF LogoutSecure, DeactivateOff, Ties
  <2>2. UNCHANGED rev \/ \E x : rev' = [rev EXCEPT ![t] = x] BY <1>2 DEF LogoutSecure, DeactivateOff
  <2>3. Carried BY <1>0, <2>1, <2>2 DEF Carried, Core
  <2>. QED BY <1>1, <2>3, WindowFrame
<1>3. CASE LoginMint(t)
  <2>1. Cardinality(Minted) + 1 \in Jtis /\ Cardinality(Minted) + 1 \notin Minted
    BY <1>0, <1>3, NewSession DEF LoginMint
  <2>2. UNCHANGED rev \/ \E x : rev' = [rev EXCEPT ![Cardinality(Minted) + 1] = x] BY <1>3 DEF LoginMint
  <2>3. Carried BY <1>0, <2>1, <2>2, Bounds DEF Carried, Core, Ties
  <2>. QED BY <1>1, <2>3, WindowFrame
<1>4. CASE LogoutClear(t) \/ DeactivateKill(t) \/ DeactivateRead(t) \/ LoginFind(t) \/ LoginStore(t)
  <2>1. UNCHANGED rev
    BY <1>4 DEF LogoutClear, DeactivateKill, DeactivateRead, LoginFind, LoginStore
  <2>. QED BY <1>1, <2>1, WindowFrame DEF Carried
<1>. QED BY <1>2, <1>3, <1>4 DEF LogoutNext, DeactivateNext, LoginNext

LEMMA VerifyWindows ==
    ASSUME TypeOK, Ties, StaleOnlyInWindows, NEW t \in Tasks, VerifyNext(t)
    PROVE  StaleOnlyInWindows'
<1>0. UNCHANGED <<revoked, chan, rev>>
  BY DEF VerifyNext, VerifyStart, VerifyRecheck, VerifyLoad, VerifyFill
<1>1. Carried BY <1>0 DEF Carried
<1>2. TaskOK(task[t]) BY DEF Ties
<1>3. CASE VerifyRecheck(t)
  <2>1. task[t].node \in Nodes /\ task[t].jti \in Jtis BY <1>2, <1>3 DEF VerifyRecheck, TaskOK, Serving
  <2>2. Forget(task[t].node, task[t].jti) \/ KeepCache BY <1>3 DEF VerifyRecheck
  <2>. QED BY <1>0, <1>1, <2>1, <2>2, WindowForget, WindowFrame DEF KeepCache
\* An answer of Redis that is older than a revocation opens the last window.
<1>4. CASE VerifyFill(t)
  <2>. DEFINE n == task[t].node
              j == task[t].jti
  <2>1. n \in Nodes /\ j \in Jtis BY <1>2, <1>4 DEF VerifyFill, TaskOK, Serving
  <2>2. localCache' = [localCache EXCEPT ![n][j] = task[t].seen] BY <1>4 DEF VerifyFill
  <2>3. excused' = IF task[t].seen = "valid" /\ j \in revoked
                   THEN excused \cup {<<n, j>>} ELSE excused \ {<<n, j>>}
    BY <1>4 DEF VerifyFill
  <2>. HIDE DEF n, j
  <2>4. ASSUME NEW m \in Nodes, NEW i \in revoked, localCache'[m][i] = "valid"
        PROVE  Window(m, i)'
    <3>0. i \in Jtis BY <2>4 DEF TypeOK
    <3>1. CASE m = n /\ i = j
      <4>1. task[t].seen = "valid" BY <2>1, <2>2, <2>4, <3>1 DEF TypeOK
      <4>. QED BY <2>3, <2>4, <3>1, <4>1 DEF Window
    <3>2. CASE <<m, i>> # <<n, j>>
      <4>1. localCache[m][i] = "valid" BY <2>1, <2>2, <2>4, <3>0, <3>2 DEF TypeOK
      <4>2. Window(m, i) BY <2>4, <4>1 DEF StaleOnlyInWindows, Window
      <4>. QED BY <1>0, <1>1, <2>3, <3>2, <4>2, StillRevoking DEF Window, Announced
    <3>. QED BY <3>1, <3>2
  <2>. QED BY <1>0, <2>4 DEF StaleOnlyInWindows, Window
<1>5. CASE VerifyLoad(t) BY <1>0, <1>1, <1>5, WindowFrame DEF VerifyLoad, ghosts
<1>6. ASSUME NEW n \in Nodes, NEW j \in Jtis, NEW op \in Routes, VerifyStart(t, n, op, j)
      PROVE  StaleOnlyInWindows'
  BY <1>0, <1>1, <1>6, WindowFrame DEF VerifyStart
<1>. QED BY <1>3, <1>4, <1>5, <1>6 DEF VerifyNext

LEMMA RevokeWindows ==
    ASSUME TypeOK, Ties, StaleOnlyInWindows, NEW r \in Revokers, RevokeNext(r)
    PROVE  StaleOnlyInWindows'
<1>0. Core /\ Loose /\ rev[r] \in Revoke BY Halves DEF Core
<1>1. PICK k \in Jtis : rev[r].pc # "none" /\ rev[r].node \in Nodes /\ rev[r].jti = k
  BY <1>0 DEF RevokeNext, RevokeSet, RevokeLocal, RevokePublish, Core, Minted
\* The revocation is over, and each cache that still holds the session is told
\* or is excused.
<1>2. ASSUME rev' = [rev EXCEPT ![r] = NoRevoke], UNCHANGED localCache, excused \subseteq excused',
             revoked' \subseteq revoked \cup {k},
             \A n \in Nodes, j \in Jtis : Announced(n, j) => Announced(n, j)',
             \A n \in Nodes : localCache[n][k] = "valid" => Announced(n, k)' \/ <<n, k>> \in excused'
      PROVE  StaleOnlyInWindows'
  <2>1. ASSUME NEW n \in Nodes, NEW j \in revoked', localCache'[n][j] = "valid"
        PROVE  Window(n, j)'
    <3>1. CASE j = k BY <1>2, <2>1, <3>1 DEF Window
    <3>2. CASE j # k
      <4>1. j \in revoked /\ j \in Jtis BY <1>2, <2>1, <3>2 DEF TypeOK
      <4>2. Window(n, j) BY <1>2, <2>1, <4>1 DEF StaleOnlyInWindows, Window
      <4>3. Revoking(j) => Revoking(j)' BY <1>0, <1>1, <1>2, <3>2 DEF Revoking, Core
      <4>. QED BY <1>2, <4>1, <4>2, <4>3 DEF Window
    <3>. QED BY <3>1, <3>2
  <2>. QED BY <2>1 DEF StaleOnlyInWindows, Window
\* The revocation goes on.
<1>3. ASSUME NEW pc \in {"local", "publish"}, rev' = [rev EXCEPT ![r].pc = pc]
      PROVE  Carried /\ Revoking(k)'
  <2>1. rev'[r].pc = pc /\ rev'[r].jti = k /\ \A q \in Revokers : q # r => rev'[q] = rev[q]
    BY <1>0, <1>1, <1>3 DEF Core, Revoke
  <2>2. Carried BY <1>1, <2>1 DEF Carried
  <2>3. Revoking(k)' BY <2>1, <1>3 DEF Revoking
  <2>. QED BY <2>2, <2>3
<1>4. CASE RevokeSet(r)
  <2>1. UNCHANGED <<chan, localCache>> BY <1>4 DEF RevokeSet
  <2>2. CASE /\ revoked' = revoked \cup {k} /\ rev' = [rev EXCEPT ![r].pc = "local"]
             /\ UNCHANGED excused
    <3>1. Carried /\ Revoking(k)' BY <1>3, <2>2
    <3>2. ASSUME NEW n \in Nodes, NEW j \in revoked', localCache'[n][j] = "valid"
          PROVE  Window(n, j)'
      <4>1. CASE j = k BY <3>1, <4>1 DEF Window
      <4>2. CASE j # k BY <2>1, <2>2, <3>1, <3>2, <4>2, StillRevoking
                       DEF StaleOnlyInWindows, Window, Announced
      <4>. QED BY <4>1, <4>2
    <3>. QED BY <3>2 DEF StaleOnlyInWindows, Window
  <2>3. CASE /\ revoked' \in {revoked, revoked \cup {k}} /\ NeverTold(Nodes, {k})
             /\ rev' = [rev EXCEPT ![r] = NoRevoke]
    BY <1>2, <2>1, <2>3 DEF NeverTold, Announced
  <2>. QED BY <1>1, <1>4, <2>2, <2>3 DEF RevokeSet
<1>5. CASE RevokeLocal(r)
  <2>1. Carried BY <1>3, <1>5 DEF RevokeLocal
  <2>. QED BY <1>1, <1>5, <2>1, WindowForget DEF RevokeLocal
<1>6. CASE RevokePublish(r)
  <2>1. UNCHANGED <<localCache, revoked>> /\ rev' = [rev EXCEPT ![r] = NoRevoke]
    BY <1>6 DEF RevokePublish
  <2>2. CASE Publish(k)
    <3>1. ASSUME NEW n \in Nodes
          PROVE  /\ \A j \in Jtis : Announced(n, j) => Announced(n, j)'
                 /\ link[n] = "up" => Announced(n, k)'
      <4>1. chan[n] \in Seq(Jtis) BY <1>0 DEF Loose
      <4>2. CASE link[n] = "up"
        <5>1. chan'[n] = Append(chan[n], k) BY <2>2, <4>2 DEF Publish
        <5>2. /\ DOMAIN chan'[n] = 1..(Len(chan[n]) + 1) /\ DOMAIN chan[n] = 1..Len(chan[n])
              /\ chan'[n][Len(chan[n]) + 1] = k
              /\ \A i \in 1..Len(chan[n]) : chan'[n][i] = chan[n][i]
              /\ Len(chan[n]) \in Nat
          BY <1>1, <4>1, <5>1, AppendProperties
        <5>3. Announced(n, k)' BY <5>2 DEF Announced
        <5>4. \A j \in Jtis : Announced(n, j) => Announced(n, j)' BY <5>2 DEF Announced
        <5>. QED BY <5>3, <5>4
      <4>3. CASE link[n] # "up" BY <2>2, <4>3 DEF Publish, Announced
      <4>. QED BY <4>2, <4>3
    <3>2. excused' = excused \cup {x \in {n \in Nodes : link[n] # "up"} \X {k} : localCache[x[1]][x[2]] = "valid"}
      BY <2>2 DEF Publish, NeverTold
    <3>3. \A n \in Nodes : localCache[n][k] = "valid" => Announced(n, k)' \/ <<n, k>> \in excused'
      BY <3>1, <3>2
    <3>. QED BY <1>2, <2>1, <3>1, <3>2, <3>3
  <2>3. CASE UNCHANGED chan /\ NeverTold(Nodes, {k})
    BY <1>2, <2>1, <2>3 DEF NeverTold, Announced
  <2>. QED BY <1>1, <1>6, <2>2, <2>3 DEF RevokePublish
<1>. QED BY <1>4, <1>5, <1>6 DEF RevokeNext

LEMMA CrashWindows ==
    ASSUME TypeOK, Ties, StaleOnlyInWindows, NEW n \in Nodes, Crash(n)
    PROVE  StaleOnlyInWindows'
<1>1. ASSUME NEW m \in Nodes, NEW j \in revoked', localCache'[m][j] = "valid"
      PROVE  Window(m, j)'
  <2>0. j \in Jtis /\ j \in revoked BY DEF Crash, TypeOK
  <2>1. m # n BY <1>1, <2>0 DEF Crash, EmptyCache, TypeOK
  <2>2. localCache[m][j] = "valid" /\ chan'[m] = chan[m] BY <1>1, <2>1 DEF Crash, TypeOK
  <2>3. Window(m, j) BY <2>0, <2>2 DEF StaleOnlyInWindows, Window
  <2>4. CASE Announced(m, j) BY <2>2, <2>4 DEF Window, Announced
  <2>5. CASE <<m, j>> \in excused BY <2>1, <2>5 DEF Window, Crash
  <2>6. CASE Revoking(j)
    <3>1. PICK r \in Revokers : rev[r].pc # "none" /\ rev[r].jti = j BY <2>6 DEF Revoking
    <3>2. CASE rev[r].node = n
      <4>1. <<m, j>> \in (Nodes \ {n}) \X {rev[q].jti : q \in {p \in Revokers : rev[p].node = n}}
        BY <2>1, <3>1, <3>2
      <4>. QED BY <2>2, <4>1 DEF Crash, Window
    <3>3. CASE rev[r].node # n
      <4>1. rev'[r] = rev[r] BY <3>3 DEF Crash
      <4>2. Revoking(j)' BY <3>1, <4>1 DEF Revoking
      <4>. QED BY <4>2 DEF Window
    <3>. QED BY <3>2, <3>3
  <2>. QED BY <2>3, <2>4, <2>5, <2>6 DEF Window
<1>. QED BY <1>1 DEF StaleOnlyInWindows, Window

LEMMA AsideWindows ==
    ASSUME TypeOK, Ties, StaleOnlyInWindows, Aside
    PROVE  StaleOnlyInWindows'
<1>0. Loose BY Halves
<1>1. UNCHANGED <<revoked, rev>> /\ Carried BY AsideKeeps DEF Carried
<1>2. ASSUME NEW n \in Nodes, Connect(n) \/ SilenceEnds(n) PROVE StaleOnlyInWindows'
  BY <1>1, <1>2, WindowFrame DEF Connect, SilenceEnds, ghosts
\* The announcement that is taken out of the channel clears the entry.
<1>3. ASSUME NEW n \in Nodes, Receive(n) PROVE StaleOnlyInWindows'
  <2>. DEFINE k == Head(chan[n])
  <2>1. chan[n] \in Seq(Jtis) /\ chan[n] # <<>> BY <1>0, <1>3 DEF Loose, Receive
  <2>2. k \in Jtis /\ \A i \in 1..Len(Tail(chan[n])) : Tail(chan[n])[i] = chan[n][i + 1]
    BY <2>1, HeadTailProperties
  <2>3. /\ Len(chan[n]) \in Nat /\ Len(Tail(chan[n])) = Len(chan[n]) - 1
        /\ DOMAIN chan[n] = 1..Len(chan[n]) /\ DOMAIN Tail(chan[n]) = 1..Len(Tail(chan[n]))
        /\ k = chan[n][1]
    BY <2>1, HeadTailProperties
  <2>4. chan' = [chan EXCEPT ![n] = Tail(chan[n])] /\ Forget(n, k) BY <1>3 DEF Receive
  <2>5. chan'[n] = Tail(chan[n]) /\ \A m \in Nodes : m # n => chan'[m] = chan[m]
    BY <1>0, <2>4 DEF Loose
  <2>. HIDE DEF k
  <2>6. \A m \in Nodes, j \in Jtis : Announced(m, j) /\ <<m, j>> # <<n, k>> => Announced(m, j)'
    <3>1. ASSUME NEW m \in Nodes, NEW j \in Jtis, Announced(m, j), <<m, j>> # <<n, k>>
          PROVE  Announced(m, j)'
      <4>1. CASE m # n BY <2>5, <3>1, <4>1 DEF Announced
      <4>2. CASE m = n
        <5>1. PICK i \in DOMAIN chan[n] : chan[n][i] = j BY <3>1, <4>2 DEF Announced
        <5>2. i # 1 BY <2>3, <3>1, <4>2, <5>1
        <5>3. i - 1 \in DOMAIN Tail(chan[n]) /\ Tail(chan[n])[i - 1] = j BY <2>2, <2>3, <5>1, <5>2
        <5>. QED BY <2>5, <4>2, <5>3 DEF Announced
      <4>. QED BY <4>1, <4>2
    <3>. QED BY <3>1
  <2>7. \A m \in Nodes, j \in Jtis : localCache'[m][j] = "valid" =>
           localCache[m][j] = "valid" /\ <<m, j>> # <<n, k>>
    BY <1>0, <2>2, <2>4 DEF Forget, Loose
  <2>8. \A m \in Nodes, j \in Jtis : <<m, j>> # <<n, k>> /\ <<m, j>> \in excused => <<m, j>> \in excused'
    BY <2>4 DEF Forget
  <2>9. revoked \subseteq Jtis BY DEF TypeOK
  <2>. QED BY <1>1, <2>6, <2>7, <2>8, <2>9, StillRevoking DEF StaleOnlyInWindows
<1>4. ASSUME NEW n \in Nodes, LinkBreaks(n) PROVE StaleOnlyInWindows'
  <2>1. UNCHANGED localCache /\ NeverTold({n}, {chan[n][i] : i \in DOMAIN chan[n]})
        /\ chan' = [chan EXCEPT ![n] = <<>>]
    BY <1>4 DEF LinkBreaks, Loses
  <2>2. \A m \in Nodes : m # n => chan'[m] = chan[m] BY <1>0, <2>1 DEF Loose
  <2>3. ASSUME NEW m \in Nodes, NEW j \in revoked, localCache[m][j] = "valid", Announced(m, j)
        PROVE  Announced(m, j)' \/ <<m, j>> \in excused'
    <3>1. CASE m # n BY <2>2, <2>3, <3>1 DEF Announced
    <3>2. CASE m = n
      <4>1. <<m, j>> \in {n} \X {chan[n][i] : i \in DOMAIN chan[n]} BY <2>3, <3>2 DEF Announced
      <4>. QED BY <2>1, <2>3, <4>1 DEF NeverTold
    <3>. QED BY <3>1, <3>2
  <2>4. excused \subseteq excused' BY <2>1 DEF NeverTold
  <2>. QED BY <1>1, <2>1, <2>3, <2>4, StillRevoking DEF StaleOnlyInWindows
<1>5. ASSUME NEW n \in Nodes, NEW j \in Jtis, CacheExpire(n, j) PROVE StaleOnlyInWindows'
  BY <1>1, <1>5, WindowForget DEF CacheExpire
<1>6. ASSUME NEW h \in Challenges, NewChallenge(h) \/ ChallengeExpire(h) PROVE StaleOnlyInWindows'
  BY <1>1, <1>6, WindowFrame DEF NewChallenge, ChallengeExpire, ghosts
<1>7. CASE UNCHANGED vars BY <1>1, <1>7, WindowFrame DEF vars, ghosts
<1>. QED BY <1>2, <1>3, <1>4, <1>5, <1>6, <1>7 DEF Aside, ListenerNext, SignUp

\* For any number of processes, requests and revocations, and whatever links,
\* calls or processes fail: a process takes a revoked session for valid only
\* while the revocation or its announcement is on the way, or in a cache entry
\* that is known to have been missed or made too late.
THEOREM StaleIsExplained == Spec => []StaleOnlyInWindows
<1>1. Init => StaleOnlyInWindows BY DEF Init, StaleOnlyInWindows
<1>2. ASSUME TypeOK, Ties, StaleOnlyInWindows, [Next]_vars PROVE StaleOnlyInWindows'
  <2>1. ASSUME NEW t \in Tasks, NEW n \in Nodes, NEW c \in Clients, NEW h \in Challenges,
               LoginChallenge(t, n, c, h)
        PROVE  StaleOnlyInWindows'
    BY <1>2, <2>1, WindowFrame DEF LoginChallenge, ghosts, Carried
  <2>. QED BY <1>2, <2>1, Steps, VerifyWindows, TaskWindows, RevokeWindows, CrashWindows, AsideWindows
<1>. QED BY <1>1, <1>2, TypeCorrect, PTL DEF Spec


-------------------------------------------------------------------------------
(***************************************************************************)
(* The last session of a client works, and the former one does not.        *)
(***************************************************************************)
Working == {"mint", "store"}
Broken == failed \cap {"redis", "db", "crash"} # {}

\* Two logins of a client that are both past their reading of the row overlap.
Alone ==
    \A t, u \in Tasks : /\ t # u /\ task[t].cl = task[u].cl
                        /\ task[t].pc \in Working /\ task[u].pc \in Working
                        => task[t].cl \in overlapped

\* What a login read is what the row holds, or has been cleared since.
Replacing ==
    \A t \in Tasks : task[t].pc \in Working =>
       \/ task[t].cl \in overlapped \cup leaving
       \/ lastJti[task[t].cl] \in {task[t].old, NoJti}

\* The former session is revoked, or about to be, before the new one is stored.
Condemned ==
    \A t \in Tasks : task[t].pc = "store" /\ task[t].old # NoJti =>
       task[t].old \in revoked \/ Revoking(task[t].old)

\* Nobody but its login knows a session that is not stored yet.
Secret(t) ==
    /\ task[t].jti \notin revoked \cup issued
    /\ \A c \in Clients : lastJti[c] # task[t].jti
    /\ \A r \in Revokers : rev[r].pc # "none" => rev[r].jti # task[t].jti
    /\ \A u \in Tasks : /\ task[u].old # task[t].jti
                        /\ u # t /\ task[u].pc \in Serving \cup {"store"} => task[u].jti # task[t].jti
Fresh == \A t \in Tasks : task[t].pc = "store" => Secret(t)

\* How far requests and revocations have come.
Stages ==
    /\ \A t \in Tasks : task[t].pc \in Serving => task[t].jti \in issued
    /\ \A t \in Tasks : task[t].pc = "kill" => task[t].cl \in leaving
    /\ \A t \in Tasks : task[t].pc = "clear" => task[t].jti \in revoked
    /\ \A t \in Tasks : task[t].pc = "revoke" /\ task[t].op = "deactivate" => task[t].cl \notin isActive
    /\ \A t \in Tasks : rev[t].pc # "none" =>
          rev[t].jti = IF task[t].op = "logout" THEN task[t].jti ELSE task[t].old
    /\ \A r \in Revokers : rev[r].pc \in {"local", "publish"} => rev[r].jti \in revoked

\* The end of a client's last session is known to the request that brings it.
Ending(j) == \E t \in Tasks : \/ task[t].pc = "store" /\ task[t].old = j
                              \/ task[t].pc \in {"revoke", "clear"} /\ task[t].jti = j
Foreseen ==
    \A c \in isActive :
       lastJti[c] \in revoked \/ (\E j \in Jtis : rev[j].pc # "none" /\ rev[j].jti = lastJti[c])
       => Ending(lastJti[c])

Superseded ==
    \A j \in issued : \/ lastJti[owner[j]] = j \/ j \in revoked \/ Revoking(j)
                      \/ owner[j] \in overlapped \cup leaving

Whole == Alone /\ Replacing /\ Condemned /\ Fresh /\ Stages /\ Foreseen /\ Superseded

Sound == ~Broken => Whole

LEMMA NoJtiFree ==
    ASSUME Core, Ties
    PROVE  /\ NoJti \notin revoked
           /\ \A r \in Revokers : rev[r].pc # "none" => rev[r].jti # NoJti
           /\ \A t \in Tasks : task[t].pc \in Serving \cup {"store"} => task[t].jti # NoJti
BY Bounds DEF Core, Ties, TaskOK, Minted

\* A step of a task that neither brings a session to its end nor begins one.
LEMMA QuietOK ==
    ASSUME Core, Ties, Whole, NEW t \in Tasks, \A u \in Tasks : u # t => task'[u] = task[u],
           UNCHANGED <<lastJti, revoked, rev, owner, issued>>, isActive' \subseteq isActive,
           overlapped \subseteq overlapped', leaving \subseteq leaving',
           task[t].pc \notin {"store", "revoke", "clear"},
           task'[t].pc \notin {"mint", "store", "revoke", "clear"},
           task'[t].pc \in Serving => task'[t].jti \in issued,
           task'[t].pc = "kill" => task'[t].cl \in leaving',
           task'[t].old \in {NoJti, task[t].old} \/ \E c \in Clients : task'[t].old = lastJti[c]
    PROVE  Whole'
<1>1. \A u \in Tasks : task'[u].pc \in Working \cup {"revoke", "clear"} => u # t /\ task'[u] = task[u]
  BY DEF Working
<1>2. Alone' BY <1>1 DEF Alone, Whole
<1>3. Replacing' BY <1>1 DEF Replacing, Whole
<1>4. Condemned' BY <1>1 DEF Condemned, Revoking, Whole, Working
<1>5. Fresh'
  <2>1. ASSUME NEW u \in Tasks, task'[u].pc = "store" PROVE Secret(u)'
    <3>1. u # t /\ task'[u] = task[u] /\ task[u].pc = "store" BY <1>1, <2>1 DEF Working
    <3>2. task[u].jti # NoJti BY <3>1, NoJtiFree
    <3>3. Secret(u) BY <3>1 DEF Fresh, Whole
    <3>4. task'[t].old # task[u].jti BY <3>2, <3>3 DEF Secret
    <3>5. task'[t].pc \in Serving \cup {"store"} => task'[t].jti # task[u].jti BY <3>3 DEF Secret
    <3>. QED BY <3>1, <3>3, <3>4, <3>5 DEF Secret
  <2>. QED BY <2>1 DEF Fresh
<1>6. Stages'
  <2>1. rev[t].pc = "none" BY DEF Ties
  <2>. QED BY <2>1 DEF Stages, Whole
<1>7. Foreseen' BY DEF Foreseen, Ending, Whole
<1>8. Superseded' BY DEF Superseded, Revoking, Whole
<1>. QED BY <1>2, <1>3, <1>4, <1>5, <1>6, <1>7, <1>8 DEF Whole

\* A logout or a deactivation starts to revoke the session it is about.
LEMMA StartOK ==
    ASSUME Core, Ties, Whole, NEW t \in Tasks, NEW j \in Jtis, task[t].pc \in {"secure", "off"},
           j = IF task[t].op = "logout" THEN task[t].jti ELSE task[t].old,
           Step(t, "revoke"), rev' = [rev EXCEPT ![t] = StartRevoke(task[t].node, j)],
           isActive' \subseteq isActive, task[t].op = "deactivate" => task[t].cl \notin isActive',
           UNCHANGED <<lastJti, revoked, owner, issued, overlapped, leaving>>
    PROVE  Whole'
<1>0. t \in Revokers /\ "revoke" \in TaskStates BY Bounds DEF TaskStates
<1>1. /\ task'[t].pc = "revoke" /\ task'[t].op = task[t].op /\ task'[t].cl = task[t].cl
      /\ task'[t].jti = task[t].jti /\ task'[t].old = task[t].old
      /\ \A u \in Tasks : u # t => task'[u] = task[u]
  BY <1>0, StepTask
<1>2. /\ rev'[t].pc = "setex" /\ rev'[t].jti = j
      /\ \A r \in Revokers : r # t => rev'[r] = rev[r]
  BY <1>0 DEF Core, StartRevoke
<1>3. rev[t].pc = "none" BY DEF Ties
<1>4. \A i : Revoking(i) => Revoking(i)' BY <1>2, <1>3 DEF Revoking
<1>5. \A u \in Tasks : task'[u].pc \in Working => u # t /\ task'[u] = task[u] BY <1>1 DEF Working
<1>6. Alone' BY <1>5 DEF Alone, Whole
<1>7. Replacing' BY <1>5 DEF Replacing, Whole
<1>8. Condemned' BY <1>4, <1>5 DEF Condemned, Whole, Working
<1>9. Fresh'
  <2>1. ASSUME NEW u \in Tasks, task'[u].pc = "store" PROVE Secret(u)'
    <3>1. u # t /\ task'[u] = task[u] /\ task[u].pc = "store" BY <1>1, <2>1
    <3>2. Secret(u) BY <3>1 DEF Fresh, Whole
    <3>3. task[t].pc \in Serving BY DEF Serving
    <3>4. j # task[u].jti BY <3>1, <3>2, <3>3 DEF Secret
    <3>5. \A v \in Tasks : task'[v].old = task[v].old /\ task'[v].jti = task[v].jti BY <1>1
    <3>. QED BY <1>1, <1>2, <3>1, <3>2, <3>3, <3>4, <3>5 DEF Secret
  <2>. QED BY <2>1 DEF Fresh
<1>10. Stages'
  <2>1. task[t].pc \in Serving BY DEF Serving
  <2>2. \A u \in Tasks : rev'[u].pc # "none" =>
           rev'[u].jti = IF task'[u].op = "logout" THEN task'[u].jti ELSE task'[u].old
    BY <1>1, <1>2, Bounds DEF Stages, Whole
  <2>3. \A r \in Revokers : rev'[r].pc \in {"local", "publish"} => rev'[r].jti \in revoked
    BY <1>2 DEF Stages, Whole
  <2>. QED BY <1>1, <2>1, <2>2, <2>3 DEF Stages, Whole
<1>11. Foreseen'
  <2>1. \A i \in Jtis : rev'[i] = rev[i] BY <1>2, Bounds
  <2>2. \A i : Ending(i) => Ending(i)' BY <1>1 DEF Ending
  <2>. QED BY <2>1, <2>2 DEF Foreseen, Whole
<1>12. Superseded' BY <1>4 DEF Superseded, Whole
<1>. QED BY <1>6, <1>7, <1>8, <1>9, <1>10, <1>11, <1>12 DEF Whole

\* A logout or a deactivation clears last_jti.
LEMMA ClearOK ==
    ASSUME TypeOK, Core, Ties, Whole, NEW t \in Tasks,
           \/ task[t].pc = "clear" /\ lastJti' = Cleared(t) /\ End(t)
           \/ /\ task[t].pc = "kill" /\ lastJti' = [lastJti EXCEPT ![task[t].cl] = NoJti]
              /\ Step(t, "read"),
           UNCHANGED <<isActive, revoked, rev, owner, issued, overlapped, leaving>>
    PROVE  Whole'
<1>0. "read" \in TaskStates BY DEF TaskStates
<1>1. /\ \A u \in Tasks : u # t => task'[u] = task[u]
      /\ task'[t].pc \in {"idle", "read"} /\ task'[t].old \in {NoJti, task[t].old}
      /\ task'[t].pc = "read" => task[t].pc = "kill" /\ task'[t].jti = task[t].jti
  BY <1>0, StepTask, EndTask DEF IdleTask
<1>2. TaskOK(task[t]) /\ task[t].cl \in Clients BY DEF Ties, TaskOK
<1>3. \A c \in Clients : lastJti'[c] \in {lastJti[c], NoJti} BY <1>2 DEF Core, Cleared
<1>4. \A c \in Clients : lastJti'[c] # lastJti[c] => c = task[t].cl BY <1>2 DEF Core, Cleared
<1>5. \A u \in Tasks : task'[u].pc \in Working \cup {"revoke", "clear"} => u # t /\ task'[u] = task[u]
  BY <1>1 DEF Working
<1>6. Alone' BY <1>5 DEF Alone, Whole
<1>7. Replacing'
  <2>1. ASSUME NEW u \in Tasks, task'[u].pc \in Working
        PROVE  task'[u].cl \in overlapped \cup leaving \/ lastJti'[task'[u].cl] \in {task'[u].old, NoJti}
    <3>1. task'[u] = task[u] BY <1>5, <2>1
    <3>2. task[u].cl \in Clients BY <2>1, <3>1 DEF Ties, TaskOK, Working
    <3>. QED BY <1>3, <2>1, <3>1, <3>2 DEF Replacing, Whole
  <2>. QED BY <2>1 DEF Replacing
<1>8. Condemned' BY <1>5 DEF Condemned, Revoking, Whole, Working
<1>9. Fresh'
  <2>1. ASSUME NEW u \in Tasks, task'[u].pc = "store" PROVE Secret(u)'
    <3>1. u # t /\ task'[u] = task[u] /\ task[u].pc = "store" BY <1>1, <2>1
    <3>2. task[u].jti # NoJti BY <3>1, NoJtiFree
    <3>3. Secret(u) BY <3>1 DEF Fresh, Whole
    <3>4. task'[t].old # task[u].jti BY <1>1, <3>2, <3>3 DEF Secret
    <3>5. task'[t].pc \in Serving \cup {"store"} => task'[t].jti # task[u].jti
      BY <1>1, <3>1, <3>3 DEF Serving, Secret
    <3>. QED BY <1>1, <1>3, <3>1, <3>2, <3>3, <3>4, <3>5 DEF Secret
  <2>. QED BY <2>1 DEF Fresh
<1>10. Stages'
  <2>1. rev[t].pc = "none" BY DEF Ties
  <2>2. task'[t].pc \in Serving => task'[t].jti \in issued BY <1>1 DEF Serving, Stages, Whole
  <2>. QED BY <1>1, <2>1, <2>2 DEF Stages, Whole
<1>11. Foreseen'
  <2>1. ASSUME NEW c \in isActive, NEW j, lastJti'[c] = j,
               j \in revoked \/ \E i \in Jtis : rev[i].pc # "none" /\ rev[i].jti = j
        PROVE  Ending(j)'
    <3>1. j # NoJti BY <2>1, NoJtiFree, Bounds
    <3>2. c \in Clients /\ lastJti[c] = j BY <1>3, <2>1, <3>1 DEF TypeOK
    <3>3. Ending(j) BY <2>1, <3>2 DEF Foreseen, Whole
    <3>4. PICK u \in Tasks : \/ task[u].pc = "store" /\ task[u].old = j
                             \/ task[u].pc \in {"revoke", "clear"} /\ task[u].jti = j
      BY <3>3 DEF Ending
    <3>5. u # t
      <4>1. SUFFICES ASSUME u = t PROVE FALSE OBVIOUS
      <4>2. task[t].pc = "clear" /\ task[t].jti = j BY <3>4, <4>1
      <4>3. owner[j] = task[t].cl /\ owner[j] = c
        BY <1>2, <3>1, <3>2, <4>2 DEF TaskOK, Serving, Ties
      <4>4. lastJti'[c] = NoJti BY <3>2, <4>2, <4>3 DEF Cleared, Core
      <4>. QED BY <2>1, <3>1, <4>4
    <3>. QED BY <1>1, <3>4, <3>5 DEF Ending
  <2>. QED BY <2>1 DEF Foreseen
<1>12. Superseded'
  <2>1. ASSUME NEW j \in issued, lastJti[owner[j]] = j, lastJti'[owner[j]] # j
        PROVE  j \in revoked \/ owner[j] \in leaving
    <3>1. owner[j] \in Clients BY DEF Core, Minted
    <3>2. owner[j] = task[t].cl BY <1>4, <2>1, <3>1
    <3>3. CASE task[t].pc = "kill" BY <3>2, <3>3 DEF Stages, Whole
    <3>4. CASE task[t].pc = "clear"
      <4>1. j = task[t].jti BY <2>1, <3>2, <3>4 DEF Cleared
      <4>. QED BY <3>4, <4>1 DEF Stages, Whole
    <3>. QED BY <3>3, <3>4
  <2>. QED BY <2>1 DEF Superseded, Revoking, Whole
<1>. QED BY <1>6, <1>7, <1>8, <1>9, <1>10, <1>11, <1>12 DEF Whole

\* A login reads the row of its client.
LEMMA FindOK ==
    ASSUME Core, Ties, Whole, NEW t \in Tasks, task[t].pc = "find",
           task'[t].pc = "mint", task'[t].cl = task[t].cl, task'[t].op = task[t].op,
           task'[t].old = lastJti[task[t].cl], \A u \in Tasks : u # t => task'[u] = task[u],
           overlapped' = IF LoggingIn(task[t].cl) # {} THEN overlapped \cup {task[t].cl} ELSE overlapped,
           UNCHANGED <<isActive, lastJti, revoked, rev, owner, issued, leaving>>
    PROVE  Whole'
<1>1. /\ task'[t].pc = "mint" /\ task'[t].cl = task[t].cl /\ task'[t].old = lastJti[task[t].cl]
      /\ \A u \in Tasks : u # t => task'[u] = task[u]
  OBVIOUS
<1>2. task[t].cl \in Clients BY DEF Ties, TaskOK
<1>3. overlapped \subseteq overlapped' OBVIOUS
<1>4. Alone'
  <2>1. ASSUME NEW u \in Tasks, u # t, task'[u].cl = task[t].cl, task'[u].pc \in Working
        PROVE  task[t].cl \in overlapped'
    <3>1. task'[u] = task[u] /\ task[u].op = "login" BY <1>1, <2>1 DEF Ties, TaskOK, Working
    <3>2. u \in LoggingIn(task[t].cl) BY <2>1, <3>1 DEF LoggingIn, Working
    <3>. QED BY <3>2
  <2>. QED BY <1>1, <1>3, <2>1 DEF Alone, Whole
<1>5. Replacing' BY <1>1, <1>3 DEF Replacing, Whole
<1>6. Condemned' BY <1>1 DEF Condemned, Revoking, Whole
<1>7. Fresh'
  <2>1. ASSUME NEW u \in Tasks, task'[u].pc = "store" PROVE Secret(u)'
    <3>1. u # t /\ task'[u] = task[u] /\ task[u].pc = "store" BY <1>1, <2>1
    <3>2. Secret(u) BY <3>1 DEF Fresh, Whole
    <3>3. task'[t].old # task[u].jti BY <1>1, <1>2, <3>2 DEF Secret
    <3>. QED BY <1>1, <3>1, <3>2, <3>3 DEF Secret, Serving
  <2>. QED BY <2>1 DEF Fresh
<1>8. Stages'
  <2>1. rev[t].pc = "none" BY DEF Ties
  <2>. QED BY <1>1, <2>1 DEF Stages, Whole, Serving
<1>9. Foreseen' BY <1>1 DEF Foreseen, Ending, Whole
<1>10. Superseded' BY <1>3 DEF Superseded, Revoking, Whole
<1>. QED BY <1>4, <1>5, <1>6, <1>7, <1>8, <1>9, <1>10 DEF Whole

\* A login mints a session and has the former one revoked.
LEMMA MintOK ==
    ASSUME Core, Ties, Whole, NEW t \in Tasks, LoginMint(t)
    PROVE  Whole'
<1>. DEFINE k == Cardinality(Minted) + 1
<1>1. PICK new \in Jtis : new = k BY DEF LoginMint
<1>2. task[t].pc = "mint" /\ UNCHANGED <<isActive, lastJti, revoked, issued, overlapped, leaving>>
  BY DEF LoginMint, db, ghosts
<1>3. new \notin Minted BY <1>1, NewSession
<1>4. /\ task'[t].pc = "store" /\ task'[t].cl = task[t].cl /\ task'[t].jti = new
      /\ task'[t].old = task[t].old /\ \A u \in Tasks : u # t => task'[u] = task[u]
  <2>. DEFINE job == [task[t] EXCEPT !.pc = "store", !.jti = new]
  <2>1. task' = [task EXCEPT ![t] = job] BY <1>1 DEF LoginMint
  <2>2. job.pc = "store" /\ job.cl = task[t].cl /\ job.jti = new /\ job.old = task[t].old
    BY DEF Core, Task
  <2>. HIDE DEF job
  <2>. QED BY <2>1, <2>2 DEF Core
<1>5. /\ \A r \in Revokers : r # new => rev'[r] = rev[r]
      /\ task[t].old = NoJti => UNCHANGED rev
      /\ task[t].old # NoJti => rev'[new].pc = "setex" /\ rev'[new].jti = task[t].old
  <2>. DEFINE start == StartRevoke(task[t].node, task[t].old)
  <2>1. rev' = IF task[t].old # NoJti THEN [rev EXCEPT ![new] = start] ELSE rev BY <1>1 DEF LoginMint
  <2>2. start.pc = "setex" /\ start.jti = task[t].old BY DEF StartRevoke
  <2>. HIDE DEF start
  <2>. QED BY <2>1, <2>2, Bounds DEF Core
<1>6. \A j \in Jtis : j # new => owner'[j] = owner[j] BY <1>1 DEF LoginMint, Core
<1>7. new \in Revokers /\ new \notin Tasks /\ rev[new].pc = "none" BY <1>3, Bounds DEF Ties
<1>8. \A i : Revoking(i) => Revoking(i)' BY <1>5, <1>7 DEF Revoking
<1>9. \A u \in Tasks : task'[u].pc \in Working <=> task[u].pc \in Working
  BY <1>2, <1>4 DEF Working
<1>10. \A u \in Tasks : task'[u].cl = task[u].cl /\ task'[u].old = task[u].old BY <1>4
<1>11. Alone' BY <1>2, <1>9, <1>10 DEF Alone, Whole
<1>12. Replacing' BY <1>2, <1>9, <1>10 DEF Replacing, Whole
<1>13. Condemned'
  <2>1. ASSUME NEW j, j = task[t].old, j # NoJti PROVE Revoking(j)'
    BY <1>5, <1>7, <2>1 DEF Revoking
  <2>2. ASSUME NEW u \in Tasks, task'[u].pc = "store", NEW j, j = task'[u].old, j # NoJti
        PROVE  j \in revoked' \/ Revoking(j)'
    <3>1. CASE u = t BY <1>4, <2>1, <2>2, <3>1
    <3>2. CASE u # t BY <1>2, <1>4, <1>8, <2>2, <3>2 DEF Condemned, Whole
    <3>. QED BY <3>1, <3>2
  <2>3. \A u \in Tasks : task'[u].pc = "store" /\ task'[u].old # NoJti =>
           task'[u].old \in revoked' \/ \E r \in Revokers : rev'[r].pc # "none" /\ rev'[r].jti = task'[u].old
    BY <2>2 DEF Revoking
  <2>. QED BY <2>3 DEF Condemned, Revoking
<1>14. Fresh'
  <2>1. Secret(t)'
    <3>1. new \notin revoked \cup issued BY <1>3 DEF Ties, Core
    <3>2. \A c \in Clients : lastJti[c] # new BY <1>3, Bounds DEF Ties, Minted
    <3>3. \A u \in Tasks : /\ task[u].old # new
                           /\ task[u].pc \in Serving \cup {"store"} => task[u].jti # new
      <4>1. \A u \in Tasks : TaskOK(task[u]) BY DEF Ties
      <4>2. owner[new] = NoClient BY <1>3 DEF Minted
      <4>3. \A u \in Tasks : task[u].pc \in Serving \cup {"store"} => task[u].cl \in Clients
        BY <4>1 DEF TaskOK, Serving
      <4>4. \A u \in Tasks : task[u].old # NoJti => task[u].cl \in Clients BY <4>1 DEF TaskOK
      <4>. QED BY <4>1, <4>2, <4>3, <4>4, Bounds DEF TaskOK
    <3>4. \A r \in Revokers : rev[r].pc # "none" => rev[r].jti # new BY <1>3 DEF Core
    <3>5. \A r \in Revokers : rev'[r].pc # "none" => rev'[r].jti # new
      BY <1>5, <1>7, <3>3, <3>4
    <3>. QED BY <1>2, <1>4, <3>1, <3>2, <3>3, <3>5 DEF Secret
  <2>2. ASSUME NEW u \in Tasks, u # t, task'[u].pc = "store" PROVE Secret(u)'
    <3>1. task'[u] = task[u] /\ task[u].pc = "store" BY <1>4, <2>2
    <3>2. Secret(u) BY <3>1 DEF Fresh, Whole
    <3>3. task[u].jti # new BY <1>3, <3>1, Bounds DEF Ties, TaskOK, Minted
    <3>4. \A r \in Revokers : rev'[r].pc # "none" => rev'[r].jti # task[u].jti
      BY <1>5, <1>7, <3>2 DEF Secret
    <3>. QED BY <1>2, <1>4, <3>1, <3>2, <3>3, <3>4 DEF Secret
  <2>. QED BY <2>1, <2>2 DEF Fresh
<1>15. Stages'
  <2>1. rev[t].pc = "none" BY <1>2 DEF Ties
  <2>2. \A u \in Tasks : rev'[u] = rev[u] BY <1>5, <1>7, Bounds
  <2>3. \A r \in Revokers : rev'[r].pc \in {"local", "publish"} => rev'[r].jti \in revoked
    BY <1>5, <1>7 DEF Stages, Whole
  <2>. QED BY <1>2, <1>4, <2>1, <2>2, <2>3 DEF Stages, Whole, Serving
<1>16. Foreseen'
  <2>1. \A j : Ending(j) => Ending(j)' BY <1>2, <1>4 DEF Ending
  <2>2. ASSUME NEW j, j = task[t].old PROVE Ending(j)' BY <1>4, <2>2 DEF Ending
  <2>3. ASSUME NEW c \in isActive, NEW j, j = lastJti[c],
               j \in revoked \/ \E i \in Jtis : rev'[i].pc # "none" /\ rev'[i].jti = j
        PROVE  Ending(j)'
    <3>1. CASE j = task[t].old BY <2>2, <3>1
    <3>2. CASE j # task[t].old
      <4>1. \A i \in Jtis : rev'[i].pc # "none" /\ rev'[i].jti = j => rev[i].pc # "none" /\ rev[i].jti = j
        BY <1>5, <1>7, <3>2, Bounds
      <4>. QED BY <2>1, <2>3, <4>1 DEF Foreseen, Whole
    <3>. QED BY <3>1, <3>2
  <2>. QED BY <1>2, <2>3 DEF Foreseen
<1>17. Superseded'
  <2>1. \A j \in issued : j \in Jtis /\ j \in Minted BY DEF Core, Minted
  <2>2. \A j \in issued : owner'[j] = owner[j] BY <1>3, <1>6, <2>1
  <2>. QED BY <1>2, <1>8, <2>2 DEF Superseded, Whole
<1>. QED BY <1>11, <1>12, <1>13, <1>14, <1>15, <1>16, <1>17 DEF Whole

\* A login stores its session over the former one and hands it out.
LEMMA StoreOK ==
    ASSUME TypeOK, Core, Ties, Whole, NEW t \in Tasks, task[t].pc = "store", End(t),
           lastJti' = [lastJti EXCEPT ![task[t].cl] = task[t].jti],
           issued' = issued \cup {task[t].jti},
           UNCHANGED <<isActive, revoked, rev, owner, overlapped, leaving>>
    PROVE  Whole'
<1>1. task'[t] = IdleTask /\ \A u \in Tasks : u # t => task'[u] = task[u] BY EndTask
<1>2. task[t].cl \in Clients /\ task[t].jti \in Jtis /\ owner[task[t].jti] = task[t].cl
  BY DEF Ties, TaskOK
<1>3. lastJti'[task[t].cl] = task[t].jti /\ \A c \in Clients : c # task[t].cl => lastJti'[c] = lastJti[c]
  BY <1>2 DEF Core
<1>4. Secret(t) BY DEF Fresh, Whole
<1>5. \A u \in Tasks : task'[u].pc \in Working \cup Serving => u # t /\ task'[u] = task[u]
  BY <1>1 DEF Working, Serving, IdleTask
<1>6. Alone' BY <1>5 DEF Alone, Whole
<1>7. Replacing'
  <2>1. ASSUME NEW u \in Tasks, task'[u].pc \in Working
        PROVE  task'[u].cl \in overlapped \cup leaving \/ lastJti'[task'[u].cl] \in {task'[u].old, NoJti}
    <3>1. u # t /\ task'[u] = task[u] /\ task[u].pc \in Working BY <1>5, <2>1
    <3>2. task[u].cl \in Clients BY <3>1 DEF Ties, TaskOK, Working
    <3>3. CASE task[u].cl = task[t].cl BY <3>1, <3>3 DEF Alone, Whole, Working
    <3>4. CASE task[u].cl # task[t].cl BY <1>3, <3>1, <3>2, <3>4 DEF Replacing, Whole
    <3>. QED BY <3>3, <3>4
  <2>. QED BY <2>1 DEF Replacing
<1>8. Condemned' BY <1>5 DEF Condemned, Revoking, Whole, Working
<1>9. Fresh'
  <2>1. ASSUME NEW u \in Tasks, task'[u].pc = "store" PROVE Secret(u)'
    <3>1. u # t /\ task'[u] = task[u] /\ task[u].pc = "store" BY <1>5, <2>1 DEF Working
    <3>2. Secret(u) BY <3>1 DEF Fresh, Whole
    <3>3. task[u].jti # task[t].jti BY <3>1, <3>2 DEF Secret
    <3>4. \A c \in Clients : lastJti'[c] # task[u].jti BY <1>3, <3>2, <3>3 DEF Secret
    <3>5. IdleTask.old # task[u].jti /\ IdleTask.pc \notin Serving \cup {"store"}
      BY <3>1, NoJtiFree DEF IdleTask, Serving
    <3>. QED BY <1>1, <3>1, <3>2, <3>3, <3>4, <3>5 DEF Secret
  <2>. QED BY <2>1 DEF Fresh
<1>10. Stages'
  <2>1. rev[t].pc = "none" BY DEF Ties
  <2>. QED BY <1>1, <1>5, <2>1 DEF Stages, Whole, Serving, IdleTask
<1>11. Foreseen'
  <2>1. ASSUME NEW c \in isActive, NEW j, lastJti'[c] = j, c \in Clients,
               j \in revoked \/ \E i \in Jtis : rev[i].pc # "none" /\ rev[i].jti = j
        PROVE  Ending(j)'
    <3>1. c # task[t].cl BY <1>3, <1>4, <2>1, Bounds DEF Secret
    <3>2. lastJti[c] = j /\ j # NoJti BY <1>3, <2>1, <3>1, NoJtiFree, Bounds
    <3>3. PICK u \in Tasks : \/ task[u].pc = "store" /\ task[u].old = j
                             \/ task[u].pc \in {"revoke", "clear"} /\ task[u].jti = j
      BY <2>1, <3>2 DEF Foreseen, Ending, Whole
    <3>4. u # t
      <4>1. SUFFICES ASSUME u = t PROVE FALSE OBVIOUS
      <4>2. owner[j] = task[t].cl BY <3>2, <3>3, <4>1 DEF Ties, TaskOK
      <4>. QED BY <2>1, <3>1, <3>2, <4>2 DEF Ties
    <3>. QED BY <1>1, <3>3, <3>4 DEF Ending
  <2>2. isActive \subseteq Clients BY DEF TypeOK
  <2>. QED BY <2>1, <2>2 DEF Foreseen
<1>12. Superseded'
  <2>1. ASSUME NEW j \in issued, owner[j] = task[t].cl, j # task[t].jti
        PROVE  j \in revoked \/ Revoking(j) \/ owner[j] \in overlapped \cup leaving
    <3>1. CASE lastJti[owner[j]] = j
      <4>1. owner[j] \in overlapped \cup leaving \/ j \in {task[t].old, NoJti}
        BY <2>1, <3>1 DEF Replacing, Whole, Working
      <4>2. j # NoJti BY Bounds DEF Core, Minted
      <4>. QED BY <4>1, <4>2 DEF Condemned, Whole
    <3>. QED BY <3>1 DEF Superseded, Whole
  <2>2. ASSUME NEW j \in issued, owner[j] # task[t].cl
        PROVE  lastJti'[owner[j]] = lastJti[owner[j]]
    BY <1>3, <2>2 DEF Core, Minted
  <2>. QED BY <1>2, <1>3, <2>1, <2>2 DEF Superseded, Revoking, Whole
<1>. QED BY <1>6, <1>7, <1>8, <1>9, <1>10, <1>11, <1>12 DEF Whole

\* SETEX: what is revoked from here on is revoked by the request that ends it.
LEMMA RevokedOK ==
    ASSUME TypeOK, Core, Ties, Whole, NEW r \in Revokers, rev[r].pc = "setex",
           revoked' = revoked \cup {rev[r].jti}, rev' = [rev EXCEPT ![r].pc = "local"],
           UNCHANGED <<isActive, lastJti, task, owner, issued, overlapped, leaving>>
    PROVE  Whole'
<1>1. PICK k \in Jtis : k = rev[r].jti BY DEF Core, Minted
<1>2. /\ rev'[r].pc = "local" /\ rev'[r].jti = k /\ \A q \in Revokers : q # r => rev'[q] = rev[q]
  BY <1>1 DEF Core, Revoke
<1>3. /\ \A q \in Revokers : rev'[q].pc # "none" <=> rev[q].pc # "none"
      /\ \A q \in Revokers : rev'[q].jti = rev[q].jti
  BY <1>1, <1>2
<1>4. \A i : Revoking(i) => Revoking(i)' BY <1>3 DEF Revoking
<1>5. Alone' BY DEF Alone, Whole
<1>6. Replacing' BY DEF Replacing, Whole
<1>7. Condemned' BY <1>4 DEF Condemned, Whole
<1>8. Fresh'
  <2>1. ASSUME NEW u \in Tasks, task[u].pc = "store" PROVE Secret(u)'
    <3>1. Secret(u) BY <2>1 DEF Fresh, Whole
    <3>. QED BY <1>3, <3>1 DEF Secret
  <2>. QED BY <2>1 DEF Fresh
<1>9. Stages'
  <2>1. \A q \in Revokers : rev'[q].pc \in {"local", "publish"} => rev'[q].jti \in revoked'
    BY <1>1, <1>2 DEF Stages, Whole
  <2>2. \A t \in Tasks : rev'[t].pc # "none" => rev[t].pc # "none" /\ rev'[t].jti = rev[t].jti
    BY <1>3, Bounds
  <2>. QED BY <2>1, <2>2 DEF Stages, Whole
<1>10. Foreseen'
  <2>1. ASSUME NEW c \in isActive, k = lastJti[c], c \in Clients, r \in Tasks PROVE Ending(k)
    <3>1. task[r].pc = "revoke" /\ TaskOK(task[r]) BY <2>1 DEF Ties
    <3>2. k = IF task[r].op = "logout" THEN task[r].jti ELSE task[r].old
      BY <1>1, <2>1 DEF Stages, Whole
    <3>3. CASE task[r].op = "logout" BY <2>1, <3>1, <3>2, <3>3 DEF Ending
    <3>4. CASE task[r].op # "logout"
      <4>1. task[r].op = "deactivate" /\ task[r].cl \notin isActive
        BY <2>1, <3>1, <3>4 DEF TaskOK, Stages, Whole
      <4>2. owner[k] = task[r].cl BY <3>1, <3>2, <3>4, Bounds DEF TaskOK
      <4>3. owner[k] = c BY <2>1, Bounds DEF Ties
      <4>. QED BY <2>1, <4>1, <4>2, <4>3
    <3>. QED BY <3>3, <3>4
  <2>2. ASSUME NEW c \in isActive, k = lastJti[c], r \in Jtis PROVE Ending(k)
    BY <1>1, <2>2 DEF Foreseen, Whole
  <2>3. isActive \subseteq Clients BY DEF TypeOK
  <2>4. \A c \in isActive : lastJti[c] = k => Ending(k) BY <2>1, <2>2, <2>3, Bounds
  <2>5. ASSUME NEW c \in isActive,
               lastJti[c] \in revoked' \/ \E j \in Jtis : rev'[j].pc # "none" /\ rev'[j].jti = lastJti[c]
        PROVE  Ending(lastJti[c])
    <3>1. CASE lastJti[c] = k BY <2>4, <3>1
    <3>2. CASE lastJti[c] # k
      <4>1. lastJti[c] \in revoked \/ \E j \in Jtis : rev[j].pc # "none" /\ rev[j].jti = lastJti[c]
        BY <1>1, <1>3, <2>5, <3>2, Bounds
      <4>. QED BY <4>1 DEF Foreseen, Whole
    <3>. QED BY <3>1, <3>2
  <2>. QED BY <2>5 DEF Foreseen, Ending
<1>11. Superseded' BY <1>4 DEF Superseded, Whole
<1>. QED BY <1>5, <1>6, <1>7, <1>8, <1>9, <1>10, <1>11 DEF Whole

\* The revocation is announced.
LEMMA AnnouncedOK ==
    ASSUME Core, Ties, Whole, NEW r \in Revokers, rev[r].pc = "local",
           rev' = [rev EXCEPT ![r].pc = "publish"],
           UNCHANGED <<isActive, lastJti, revoked, task, owner, issued, overlapped, leaving>>
    PROVE  Whole'
<1>1. /\ rev'[r].pc = "publish" /\ rev'[r].jti = rev[r].jti
      /\ \A q \in Revokers : q # r => rev'[q] = rev[q]
  BY DEF Core, Revoke
<1>2. /\ \A q \in Revokers : rev'[q].pc # "none" <=> rev[q].pc # "none"
      /\ \A q \in Revokers : rev'[q].jti = rev[q].jti
      /\ \A q \in Revokers : rev'[q].pc \in {"local", "publish"} => rev[q].pc \in {"local", "publish"}
  BY <1>1
<1>3. \A i : Revoking(i) => Revoking(i)' BY <1>2 DEF Revoking
<1>4. Alone' BY DEF Alone, Whole
<1>5. Replacing' BY DEF Replacing, Whole
<1>6. Condemned' BY <1>3 DEF Condemned, Whole
<1>7. Fresh' BY <1>2 DEF Fresh, Secret, Whole
<1>8. Stages' BY <1>2, Bounds DEF Stages, Whole
<1>9. Foreseen' BY <1>2, Bounds DEF Foreseen, Ending, Whole
<1>10. Superseded' BY <1>3 DEF Superseded, Whole
<1>. QED BY <1>4, <1>5, <1>6, <1>7, <1>8, <1>9, <1>10 DEF Whole

\* The revocation is over, and the request that waited for it goes on.
LEMMA PublishedOK ==
    ASSUME TypeOK, Core, Ties, Whole, NEW r \in Revokers, rev[r].pc = "publish",
           rev' = [rev EXCEPT ![r] = NoRevoke], Resume(r),
           UNCHANGED <<isActive, lastJti, revoked, owner, issued, overlapped, leaving>>
    PROVE  Whole'
<1>1. /\ rev'[r].pc = "none" /\ \A q \in Revokers : q # r => rev'[q] = rev[q]
  BY DEF Core, NoRevoke
<1>2. \A q \in Revokers : rev'[q].pc # "none" => rev'[q] = rev[q] BY <1>1
<1>3. \A i : i \notin revoked /\ Revoking(i) => Revoking(i)'
  BY <1>1 DEF Revoking, Stages, Whole
<1>4. "clear" \in TaskStates BY DEF TaskStates
<1>5. r \in Tasks => task[r].pc = "revoke" /\ TaskOK(task[r]) BY DEF Ties
<1>6. /\ \A u \in Tasks : u # r => task'[u] = task[u]
      /\ r \in Tasks /\ task[r].op = "logout" =>
            /\ task'[r].pc = "clear" /\ task'[r].jti = task[r].jti /\ task'[r].cl = task[r].cl
            /\ task'[r].old = task[r].old /\ task'[r].op = task[r].op
      /\ r \in Tasks /\ task[r].op # "logout" => task'[r] = IdleTask
  BY <1>4, StepTask, EndTask DEF Resume
<1>7. \A u \in Tasks : task'[u].pc \in Working \cup {"kill", "revoke"} => task'[u] = task[u]
  BY <1>6 DEF Working, IdleTask
<1>8. Alone' BY <1>7 DEF Alone, Whole
<1>9. Replacing' BY <1>7 DEF Replacing, Whole
<1>10. Condemned' BY <1>3, <1>7 DEF Condemned, Whole, Working
<1>11. Fresh'
  <2>1. ASSUME NEW u \in Tasks, task'[u].pc = "store" PROVE Secret(u)'
    <3>1. u # r /\ task'[u] = task[u] /\ task[u].pc = "store"
      BY <1>6, <2>1 DEF IdleTask
    <3>2. Secret(u) /\ task[u].jti # NoJti BY <3>1, NoJtiFree DEF Fresh, Whole
    <3>3. \A v \in Tasks : task'[v].old \in {task[v].old, NoJti} BY <1>6 DEF IdleTask
    <3>4. \A v \in Tasks : task'[v].pc \in Serving \cup {"store"} =>
             task[v].pc \in Serving \cup {"store"} /\ task'[v].jti = task[v].jti
      BY <1>5, <1>6 DEF IdleTask, Serving
    <3>. QED BY <1>2, <3>1, <3>2, <3>3, <3>4 DEF Secret
  <2>. QED BY <2>1 DEF Fresh
<1>12. Stages'
  <2>1. \A u \in Tasks : task'[u].pc \in Serving => task'[u].jti \in issued
    BY <1>5, <1>6 DEF IdleTask, Serving, Stages, Whole
  <2>2. \A u \in Tasks : task'[u].pc = "clear" => task'[u].jti \in revoked
    BY <1>6 DEF IdleTask, Stages, Whole
  <2>3. \A u \in Tasks : rev'[u].pc # "none" => u # r /\ rev'[u] = rev[u] /\ task'[u] = task[u]
    BY <1>1, <1>6, Bounds
  <2>. QED BY <1>2, <1>7, <2>1, <2>2, <2>3 DEF Stages, Whole
<1>13. Foreseen'
  <2>1. ASSUME NEW c \in isActive, NEW j, j = lastJti[c], c \in Clients,
               j \in revoked \/ \E i \in Jtis : rev'[i].pc # "none" /\ rev'[i].jti = j
        PROVE  Ending(j)'
    <3>1. j # NoJti BY <2>1, <1>2, NoJtiFree, Bounds
    <3>2. Ending(j) BY <1>2, <2>1, Bounds DEF Foreseen, Whole
    <3>3. PICK u \in Tasks : \/ task[u].pc = "store" /\ task[u].old = j
                             \/ task[u].pc \in {"revoke", "clear"} /\ task[u].jti = j
      BY <3>2 DEF Ending
    <3>4. CASE u = r /\ task[r].op # "logout"
      <4>1. task[r].op = "deactivate" /\ task[r].cl \notin isActive
        BY <1>5, <3>4 DEF TaskOK, Stages, Whole
      <4>2. owner[j] = task[r].cl BY <1>5, <3>3, <3>4 DEF TaskOK, Serving
      <4>. QED BY <2>1, <3>1, <4>1, <4>2 DEF Ties
    <3>5. CASE u = r /\ task[r].op = "logout" BY <1>5, <1>6, <3>3, <3>5 DEF Ending
    <3>6. CASE u # r BY <1>6, <3>3, <3>6 DEF Ending
    <3>. QED BY <3>4, <3>5, <3>6
  <2>2. isActive \subseteq Clients BY DEF TypeOK
  <2>. QED BY <2>1, <2>2 DEF Foreseen
<1>14. Superseded' BY <1>3 DEF Superseded, Whole
<1>. QED BY <1>8, <1>9, <1>10, <1>11, <1>12, <1>13, <1>14 DEF Whole

LEMMA FailureStays == (NoFault \/ \E kind : Fault(kind)) => failed \subseteq failed'
BY DEF NoFault, Fault

LEMMA FailuresStay == ASSUME [Next]_vars PROVE failed \subseteq failed'
<1>1. ASSUME NEW t \in Tasks, VerifyNext(t) PROVE failed \subseteq failed'
  BY <1>1, FailureStays DEF VerifyNext, VerifyStart, VerifyRecheck, VerifyLoad, VerifyFill
<1>2. ASSUME NEW t \in Tasks, LogoutNext(t) \/ DeactivateNext(t) PROVE failed \subseteq failed'
  BY <1>2, FailureStays DEF LogoutNext, LogoutSecure, LogoutClear, DeactivateNext, DeactivateKill,
     DeactivateRead, DeactivateOff
<1>3. ASSUME NEW t \in Tasks, LoginNext(t) PROVE failed \subseteq failed'
  BY <1>3, FailureStays DEF LoginNext, LoginFind, LoginMint, LoginStore
<1>4. ASSUME NEW t \in Tasks, NEW n \in Nodes, NEW c \in Clients, NEW h \in Challenges,
             LoginChallenge(t, n, c, h)
      PROVE  failed \subseteq failed'
  BY <1>4, FailureStays DEF LoginChallenge
<1>5. ASSUME NEW r \in Revokers, RevokeNext(r) PROVE failed \subseteq failed'
  BY <1>5, FailureStays DEF RevokeNext, RevokeSet, RevokeLocal, RevokePublish
<1>6. ASSUME NEW n \in Nodes, Crash(n) PROVE failed \subseteq failed'
  BY <1>6, FailureStays DEF Crash
<1>7. CASE Aside
  BY <1>7, FailureStays DEF Aside, ListenerNext, Connect, Receive, LinkBreaks, SilenceEnds, CacheExpire,
     NewChallenge, ChallengeExpire, SignUp, vars
<1>. QED BY <1>1, <1>2, <1>3, <1>4, <1>5, <1>6, <1>7, Steps

LEMMA FaultBreaks ==
    ASSUME NEW kind \in {"redis", "db", "crash"}, Fault(kind)
    PROVE  Broken'
BY DEF Fault, Broken

LEMMA VerifyWhole ==
    ASSUME TypeOK, Ties, Whole, NEW t \in Tasks, VerifyNext(t)
    PROVE  Whole'
<1>0. Core /\ TaskOK(task[t]) BY Halves DEF Ties
<1>1. /\ UNCHANGED <<isActive, lastJti, revoked, rev, owner, issued, overlapped>>
      /\ task[t].pc \in {"idle", "recheck", "load", "fill"}
  BY DEF VerifyNext, VerifyStart, VerifyRecheck, VerifyLoad, VerifyFill, db, sessions, ghosts
<1>2. task[t].pc # "idle" => task[t].jti \in issued /\ task[t].cl \in Clients
  BY <1>0, <1>1 DEF Stages, Whole, Serving, TaskOK
<1>3. ASSUME NEW n \in Nodes, NEW j \in Jtis, NEW op \in Routes, VerifyStart(t, n, op, j)
      PROVE  Whole'
  <2>1. PICK pc \in {"load", "recheck", "secure", "kill"} :
           task' = [task EXCEPT ![t] = [IdleTask EXCEPT !.pc = pc, !.op = op, !.node = n,
                          !.cl = owner[j], !.jti = j, !.seen = localCache[n][j]]]
    BY <1>3 DEF VerifyStart, FirstStep
  <2>. DEFINE new == [IdleTask EXCEPT !.pc = pc, !.op = op, !.node = n,
                          !.cl = owner[j], !.jti = j, !.seen = localCache[n][j]]
  <2>2. new.pc = pc /\ new.cl = owner[j] /\ new.jti = j /\ new.old = NoJti BY DEF IdleTask
  <2>. HIDE DEF new
  <2>3. task'[t] = new /\ \A u \in Tasks : u # t => task'[u] = task[u] BY <1>0, <2>1 DEF Core, new
  <2>4. j \in issued /\ leaving' = IF task'[t].pc = "kill" THEN leaving \cup {owner[j]} ELSE leaving
    BY <1>3 DEF VerifyStart
  <2>. QED BY <1>0, <1>1, <2>2, <2>3, <2>4, QuietOK
\* A step that ends the request, or lets it into its route.
<1>4. ASSUME Enter(t) \/ End(t), Leave(t), task[t].pc # "idle" PROVE Whole'
  <2>1. "secure" \in TaskStates /\ "kill" \in TaskStates BY DEF TaskStates
  <2>2. /\ \A u \in Tasks : u # t => task'[u] = task[u]
        /\ \/ task'[t] = IdleTask
           \/ /\ task'[t].pc \in {"secure", "kill"} /\ task'[t].jti = task[t].jti
              /\ task'[t].cl = task[t].cl /\ task'[t].old = task[t].old
    BY <1>0, <1>4, <2>1, StepTask, EndTask DEF Enter, FirstStep
  <2>3. leaving \subseteq leaving' /\ (task'[t].pc = "kill" => task[t].cl \in leaving')
    BY <1>4 DEF Leave
  <2>4. CASE task'[t] = IdleTask
    <3>1. task'[t].pc = "idle" /\ task'[t].old = NoJti BY <2>4 DEF IdleTask
    <3>. QED BY <1>0, <1>1, <2>2, <2>3, <3>1, QuietOK DEF Serving
  <2>5. CASE task'[t] # IdleTask
    <3>1. /\ task'[t].pc \in {"secure", "kill"} /\ task'[t].jti = task[t].jti
          /\ task'[t].cl = task[t].cl /\ task'[t].old = task[t].old
      BY <2>2, <2>5
    <3>. QED BY <1>0, <1>1, <1>2, <1>4, <2>2, <2>3, <3>1, QuietOK
  <2>. QED BY <2>4, <2>5
<1>5. CASE VerifyRecheck(t) BY <1>4, <1>5 DEF VerifyRecheck
<1>6. CASE VerifyFill(t) BY <1>4, <1>6 DEF VerifyFill
<1>7. CASE VerifyLoad(t)
  <2>1. UNCHANGED leaving /\ task[t].pc = "load" BY <1>7 DEF VerifyLoad, ghosts
  <2>2. CASE End(t)
    <3>1. UNCHANGED leaving => Leave(t)
      <4>1. task'[t].pc = "idle" BY <1>0, <2>2, EndTask DEF IdleTask
      <4>. QED BY <4>1 DEF Leave
    <3>. QED BY <1>4, <2>1, <2>2, <3>1
  <2>3. ASSUME NEW v, task' = [task EXCEPT ![t].pc = "fill", ![t].seen = v] PROVE Whole'
    <3>. DEFINE new == [task[t] EXCEPT !.pc = "fill", !.seen = v]
    <3>1. task' = [task EXCEPT ![t] = new] BY <2>3
    <3>2. new.pc = "fill" /\ new.jti = task[t].jti /\ new.old = task[t].old BY <1>0 DEF Core, Task
    <3>. HIDE DEF new
    <3>3. task'[t] = new /\ \A u \in Tasks : u # t => task'[u] = task[u] BY <1>0, <3>1 DEF Core
    <3>. QED BY <1>0, <1>1, <1>2, <2>1, <3>2, <3>3, QuietOK
  <2>. QED BY <1>7, <2>2, <2>3 DEF VerifyLoad
<1>. QED BY <1>3, <1>5, <1>6, <1>7 DEF VerifyNext

\* A request that ends early, or that reads or writes nothing others rely on.
LEMMA EndWhole ==
    ASSUME TypeOK, Ties, Whole, NEW t \in Tasks, End(t), task[t].pc \notin {"store", "revoke", "clear"},
           UNCHANGED <<lastJti, revoked, rev, owner, issued, overlapped, leaving>>,
           isActive' \subseteq isActive
    PROVE  Whole'
<1>1. task'[t] = IdleTask /\ \A u \in Tasks : u # t => task'[u] = task[u] BY Halves, EndTask
<1>2. task'[t].pc = "idle" /\ task'[t].old = NoJti BY <1>1 DEF IdleTask
<1>. QED BY <1>1, <1>2, Halves, QuietOK DEF Serving

LEMMA LogoutWhole ==
    ASSUME TypeOK, Ties, Whole, ~Broken', NEW t \in Tasks, LogoutNext(t)
    PROVE  Whole'
<1>0. Core /\ TaskOK(task[t]) BY Halves DEF Ties
<1>1. ~Fault("redis") /\ ~Fault("db") BY FaultBreaks
<1>2. CASE LogoutSecure(t)
  <2>1. task[t].pc = "secure" /\ UNCHANGED <<isActive, lastJti, revoked, owner, issued, overlapped, leaving>>
    BY <1>2 DEF LogoutSecure, db, sessions, ghosts
  <2>2. task[t].op = "logout" /\ task[t].jti \in Jtis BY <1>0, <2>1 DEF TaskOK, Serving
  <2>3. CASE End(t) /\ UNCHANGED rev BY <2>1, <2>3, EndWhole
  <2>4. CASE Step(t, "revoke") /\ rev' = [rev EXCEPT ![t] = StartRevoke(task[t].node, task[t].jti)]
    BY <1>0, <2>1, <2>2, <2>4, StartOK
  <2>. QED BY <1>2, <2>3, <2>4 DEF LogoutSecure
<1>3. CASE LogoutClear(t)
  <2>1. /\ task[t].pc = "clear" /\ lastJti' = Cleared(t) /\ End(t)
        /\ UNCHANGED <<isActive, revoked, rev, owner, issued, overlapped, leaving>>
    BY <1>1, <1>3 DEF LogoutClear, sessions, ghosts
  <2>. QED BY <1>0, <2>1, ClearOK
<1>. QED BY <1>2, <1>3 DEF LogoutNext

LEMMA DeactivateWhole ==
    ASSUME TypeOK, Ties, Whole, ~Broken', NEW t \in Tasks, DeactivateNext(t)
    PROVE  Whole'
<1>0. Core /\ TaskOK(task[t]) BY Halves DEF Ties
<1>1. ~Fault("redis") /\ ~Fault("db") BY FaultBreaks
<1>2. CASE DeactivateKill(t)
  <2>1. /\ task[t].pc = "kill" /\ lastJti' = [lastJti EXCEPT ![task[t].cl] = NoJti] /\ Step(t, "read")
        /\ UNCHANGED <<isActive, revoked, rev, owner, issued, overlapped, leaving>>
    BY <1>1, <1>2 DEF DeactivateKill, sessions, ghosts
  <2>. QED BY <1>0, <2>1, ClearOK
<1>3. CASE DeactivateRead(t)
  <2>1. /\ task[t].pc = "read"
        /\ UNCHANGED <<isActive, lastJti, revoked, rev, owner, issued, overlapped, leaving>>
    BY <1>3 DEF DeactivateRead, db, sessions, ghosts
  <2>2. task' = [task EXCEPT ![t].pc = "off", ![t].old = lastJti[task[t].cl]]
    BY <1>1, <1>3 DEF DeactivateRead
  <2>. DEFINE new == [task[t] EXCEPT !.pc = "off", !.old = lastJti[task[t].cl]]
  <2>3. task' = [task EXCEPT ![t] = new] BY <2>2
  <2>4. new.pc = "off" /\ new.jti = task[t].jti /\ new.old = lastJti[task[t].cl]
    BY <1>0 DEF Core, Task
  <2>. HIDE DEF new
  <2>5. task'[t] = new /\ \A u \in Tasks : u # t => task'[u] = task[u] BY <1>0, <2>3 DEF Core
  <2>6. task[t].cl \in Clients /\ task[t].jti \in issued
    BY <1>0, <2>1 DEF TaskOK, Stages, Whole, Serving
  <2>. QED BY <1>0, <2>1, <2>4, <2>5, <2>6, QuietOK
<1>4. CASE DeactivateOff(t)
  <2>1. /\ task[t].pc = "off" /\ isActive' = isActive \ {task[t].cl}
        /\ UNCHANGED <<lastJti, revoked, owner, issued, overlapped, leaving>>
    BY <1>1, <1>4 DEF DeactivateOff, sessions, ghosts
  <2>2. task[t].op = "deactivate" BY <1>0, <2>1 DEF TaskOK
  <2>3. CASE End(t) /\ UNCHANGED rev BY <2>1, <2>3, EndWhole
  <2>4. CASE /\ task[t].old # NoJti /\ Step(t, "revoke")
             /\ rev' = [rev EXCEPT ![t] = StartRevoke(task[t].node, task[t].old)]
    <3>1. task[t].old \in Jtis BY <1>0, <2>4 DEF TaskOK
    <3>. QED BY <1>0, <2>1, <2>2, <2>4, <3>1, StartOK
  <2>. QED BY <1>4, <2>3, <2>4 DEF DeactivateOff
<1>. QED BY <1>2, <1>3, <1>4 DEF DeactivateNext

LEMMA LoginWhole ==
    ASSUME TypeOK, Ties, Whole, ~Broken', NEW t \in Tasks,
           \/ LoginNext(t)
           \/ \E n \in Nodes, c \in Clients, h \in Challenges : LoginChallenge(t, n, c, h)
    PROVE  Whole'
<1>0. Core /\ TaskOK(task[t]) BY Halves DEF Ties
<1>1. ~Fault("redis") /\ ~Fault("db") BY FaultBreaks
<1>2. ASSUME NEW n \in Nodes, NEW c \in Clients, NEW h \in Challenges, LoginChallenge(t, n, c, h)
      PROVE  Whole'
  <2>1. /\ task[t].pc = "idle" /\ task' = [task EXCEPT ![t] = LoginTask(n, c)]
        /\ UNCHANGED <<isActive, lastJti, revoked, rev, owner, issued, overlapped, leaving>>
    BY <1>1, <1>2 DEF LoginChallenge, db, sessions, ghosts
  <2>2. LoginTask(n, c).pc = "find" /\ LoginTask(n, c).old = NoJti BY DEF LoginTask, IdleTask
  <2>3. task'[t] = LoginTask(n, c) /\ \A u \in Tasks : u # t => task'[u] = task[u]
    BY <1>0, <2>1 DEF Core
  <2>. QED BY <1>0, <2>1, <2>2, <2>3, QuietOK DEF Serving
<1>3. CASE LoginFind(t)
  <2>1. task[t].pc = "find" /\ UNCHANGED <<isActive, lastJti, revoked, rev, owner, issued, leaving>>
    BY <1>3 DEF LoginFind, db, sessions
  <2>2. CASE End(t) /\ UNCHANGED overlapped BY <2>1, <2>2, EndWhole
  <2>3. CASE /\ task' = [task EXCEPT ![t].pc = "mint", ![t].old = lastJti[task[t].cl]]
             /\ overlapped' = IF LoggingIn(task[t].cl) # {} THEN overlapped \cup {task[t].cl} ELSE overlapped
    <3>. DEFINE new == [task[t] EXCEPT !.pc = "mint", !.old = lastJti[task[t].cl]]
    <3>1. task' = [task EXCEPT ![t] = new] BY <2>3
    <3>2. new.pc = "mint" /\ new.cl = task[t].cl /\ new.op = task[t].op /\ new.old = lastJti[task[t].cl]
      BY <1>0 DEF Core, Task
    <3>. HIDE DEF new
    <3>3. task'[t] = new /\ \A u \in Tasks : u # t => task'[u] = task[u] BY <1>0, <3>1 DEF Core
    <3>. QED BY <1>0, <2>1, <2>3, <3>2, <3>3, FindOK
  <2>. QED BY <1>3, <2>2, <2>3 DEF LoginFind
<1>4. CASE LoginMint(t) BY <1>0, <1>4, MintOK
<1>5. CASE LoginStore(t)
  <2>1. /\ task[t].pc = "store" /\ End(t)
        /\ lastJti' = [lastJti EXCEPT ![task[t].cl] = task[t].jti]
        /\ issued' = issued \cup {task[t].jti}
        /\ UNCHANGED <<isActive, revoked, rev, owner, overlapped, leaving>>
    BY <1>1, <1>5 DEF LoginStore, ghosts
  <2>. QED BY <1>0, <2>1, StoreOK
<1>. QED BY <1>2, <1>3, <1>4, <1>5 DEF LoginNext

LEMMA RevokeWhole ==
    ASSUME TypeOK, Ties, Whole, ~Broken', NEW r \in Revokers, RevokeNext(r)
    PROVE  Whole'
<1>0. Core BY Halves
<1>1. ~Fault("redis") BY FaultBreaks
<1>2. UNCHANGED <<isActive, lastJti, owner, issued, overlapped, leaving>>
  BY DEF RevokeNext, RevokeSet, RevokeLocal, RevokePublish, db, sessions
<1>3. CASE RevokeSet(r) BY <1>0, <1>1, <1>2, <1>3, RevokedOK DEF RevokeSet
<1>4. CASE RevokeLocal(r) BY <1>0, <1>2, <1>4, AnnouncedOK DEF RevokeLocal
<1>5. CASE RevokePublish(r) BY <1>0, <1>1, <1>2, <1>5, PublishedOK DEF RevokePublish
<1>. QED BY <1>3, <1>4, <1>5 DEF RevokeNext

LEMMA WholeFrame ==
    ASSUME Whole, UNCHANGED <<isActive, lastJti, revoked, task, rev, owner, issued, overlapped, leaving>>
    PROVE  Whole'
BY DEF Whole, Alone, Replacing, Condemned, Fresh, Secret, Stages, Foreseen, Ending, Superseded, Revoking

\* As long as no call fails and no process dies, the steps of overlapping
\* logins, logouts and deactivations of any number of clients keep Whole.
THEOREM SoundAlways == Spec => []Sound
<1>1. Init => Whole
  <2>1. SUFFICES ASSUME Init PROVE Whole OBVIOUS
  <2>2. /\ \A t \in Tasks : task[t] = IdleTask
        /\ \A r \in Revokers : rev[r] = NoRevoke
        /\ \A c \in Clients : lastJti[c] = NoJti
        /\ revoked = {} /\ issued = {} /\ isActive = Clients
    BY <2>1 DEF Init
  <2>3. IdleTask.pc = "idle" /\ NoRevoke.pc = "none" BY DEF IdleTask, NoRevoke
  <2>4. Alone /\ Replacing /\ Condemned /\ Fresh
    BY <2>2, <2>3 DEF Alone, Replacing, Condemned, Fresh, Working
  <2>5. Stages BY <2>2, <2>3, Bounds DEF Stages, Serving
  <2>6. Foreseen /\ Superseded BY <2>2, <2>3, Bounds DEF Foreseen, Superseded
  <2>. QED BY <2>4, <2>5, <2>6 DEF Whole
<1>2. ASSUME TypeOK, Ties, Sound, [Next]_vars, ~Broken' PROVE Whole'
  <2>1. Whole BY <1>2, FailuresStay DEF Sound, Broken
  <2>2. ASSUME NEW n \in Nodes PROVE ~Crash(n) BY <1>2, FaultBreaks DEF Crash
  <2>3. CASE Aside BY <2>1, <2>3, AsideKeeps, WholeFrame DEF db, sessions
  <2>. QED BY <1>2, <2>1, <2>2, <2>3, Steps, VerifyWhole, LogoutWhole, DeactivateWhole, LoginWhole, RevokeWhole
<1>3. TypeOK /\ Ties /\ Sound /\ [Next]_vars => Sound' BY <1>2 DEF Sound
<1>4. Init => Sound BY <1>1 DEF Sound
<1>. QED BY <1>3, <1>4, TypeCorrect, PTL DEF Spec

\* For any number of logins, logouts and deactivations that overlap: while no
\* call fails, the session that the row of an active client names still works,
\* or the request that is about to replace or end it is under way.
THEOREM LastWorks == Spec => []LastIsLive
<1>1. Sound => LastIsLive BY DEF Sound, Whole, Foreseen, Ending, LastIsLive, Broken
<1>. QED BY <1>1, SoundAlways, PTL

\* For any number of logins that overlap: while no call fails, a session that
\* was handed out and is no longer its client's last one is revoked or about to
\* be, unless two logins of the client overlapped or it is leaving.
THEOREM FormerIsRevoked == Spec => []SupersededIsRevoked
<1>1. Sound => SupersededIsRevoked BY DEF Sound, Whole, Superseded, SupersededIsRevoked, Broken
<1>. QED BY <1>1, SoundAlways, PTL

-------------------------------------------------------------------------------
(***************************************************************************)
(* Challenges.                                                             *)
(***************************************************************************)
Consumed == \A h \in Challenges : passed[h] <= 1 /\ (challenge[h] # "gone" => passed[h] = 0)

\* A challenge is good for one login, however many requests present it, on any
\* number of processes.
THEOREM ChallengesAreSpent == Spec => []ChallengeOnce
<1>1. Init => Consumed BY DEF Init, Consumed
<1>2. ASSUME TypeOK, Consumed, [Next]_vars PROVE Consumed'
  <2>1. CASE UNCHANGED <<challenge, passed>> BY <1>2, <2>1 DEF Consumed
  <2>2. ASSUME NEW h \in Challenges, NewChallenge(h) \/ ChallengeExpire(h) PROVE Consumed'
    BY <1>2, <2>2 DEF NewChallenge, ChallengeExpire, Consumed, TypeOK
  <2>3. ASSUME NEW t \in Tasks, NEW n \in Nodes, NEW c \in Clients, NEW h \in Challenges,
               LoginChallenge(t, n, c, h)
        PROVE  Consumed'
    <3>1. /\ challenge[h] = "live" /\ challenge' = [challenge EXCEPT ![h] = "gone"]
          /\ UNCHANGED passed \/ passed' = [passed EXCEPT ![h] = passed[h] + 1]
      BY <2>3 DEF LoginChallenge
    <3>2. passed[h] = 0 BY <1>2, <3>1 DEF Consumed
    <3>. QED BY <1>2, <3>1, <3>2 DEF Consumed, TypeOK
  <2>4. ASSUME NEW t \in Tasks, VerifyNext(t) PROVE UNCHANGED <<challenge, passed>>
    BY <2>4 DEF VerifyNext, VerifyStart, VerifyRecheck, VerifyLoad, VerifyFill
  <2>5. ASSUME NEW t \in Tasks, LogoutNext(t) \/ DeactivateNext(t) \/ LoginNext(t)
        PROVE  UNCHANGED <<challenge, passed>>
    BY <2>5 DEF LogoutNext, LogoutSecure, LogoutClear, DeactivateNext, DeactivateKill,
       DeactivateRead, DeactivateOff, LoginNext, LoginFind, LoginMint, LoginStore
  <2>6. ASSUME NEW r \in Revokers, RevokeNext(r) PROVE UNCHANGED <<challenge, passed>>
    BY <2>6 DEF RevokeNext, RevokeSet, RevokeLocal, RevokePublish
  <2>7. ASSUME NEW n \in Nodes, ListenerNext(n) \/ LinkBreaks(n) \/ SilenceEnds(n) \/ Crash(n)
        PROVE  UNCHANGED <<challenge, passed>>
    BY <2>7 DEF ListenerNext, Connect, Receive, LinkBreaks, SilenceEnds, Crash
  <2>8. ASSUME NEW n \in Nodes, NEW j \in Jtis, CacheExpire(n, j) PROVE UNCHANGED <<challenge, passed>>
    BY <2>8 DEF CacheExpire
  <2>9. CASE UNCHANGED vars BY <2>1, <2>9 DEF vars
  <2>. QED BY <1>2, <2>1, <2>2, <2>3, <2>4, <2>5, <2>6, <2>7, <2>8, <2>9 DEF Next, SignUp
<1>3. Consumed => ChallengeOnce BY DEF Consumed, ChallengeOnce
<1>. QED BY <1>1, <1>2, <1>3, TypeCorrect, PTL DEF Spec

-------------------------------------------------------------------------------
(***************************************************************************)
(* The service is a store of sessions.                                     *)
(***************************************************************************)
Asked == {"kill", "read", "off"}

\* What its steps as a store rest on, whatever failed.
StoreInv ==
    /\ Fresh
    /\ \A t \in Tasks : task[t].pc \in Serving => task[t].jti \in issued
    /\ \A t \in Tasks : task[t].pc \in Asked => task[t].cl \in leaving

\* A task goes on, or ends, without a new session.
Goes(t) ==
    /\ task'[t].pc # "store"
    /\ task'[t].old \in {NoJti, task[t].old} \cup {lastJti[c] : c \in Clients}
    /\ task'[t].pc \in Serving => task'[t].jti \in issued
    /\ task'[t].pc \in Asked => task'[t].cl \in leaving'

\* The sessions whose logins come to their end.
Stored == {task[t].jti : t \in {u \in Tasks : task[u].pc = "store" /\ task'[u].pc # "store"}}

LEMMA StoreFrame ==
    ASSUME Core, Ties, StoreInv, \A t \in Tasks : task'[t] = task[t] \/ Goes(t),
           \A r \in Revokers : rev'[r].pc # "none" =>
              \/ rev[r].pc # "none" /\ rev'[r].jti = rev[r].jti
              \/ \E t \in Tasks : \/ rev'[r].jti = task[t].old
                                  \/ rev'[r].jti = task[t].jti /\ task[t].pc \in Serving,
           \A j \in revoked' : j \in revoked \/ \E r \in Revokers : rev[r].pc # "none" /\ rev[r].jti = j,
           \A c \in Clients : lastJti'[c] \in {NoJti, lastJti[c]} \cup Stored,
           issued \subseteq issued', issued' \subseteq issued \cup Stored, leaving \subseteq leaving'
    PROVE  StoreInv'
<1>1. ASSUME NEW t \in Tasks, task'[t].pc = "store" PROVE Secret(t)'
  <2>1. task'[t] = task[t] /\ task[t].pc = "store" BY <1>1 DEF Goes
  <2>2. Secret(t) /\ task[t].jti # NoJti BY <2>1, NoJtiFree DEF StoreInv, Fresh
  <2>3. task[t].jti \notin Stored BY <1>1, <2>2 DEF Stored, Secret
  <2>4. task[t].jti \notin revoked' \cup issued' BY <2>2, <2>3 DEF Secret
  <2>5. \A c \in Clients : lastJti'[c] # task[t].jti BY <2>2, <2>3 DEF Secret
  <2>6. \A r \in Revokers : rev'[r].pc # "none" => rev'[r].jti # task[t].jti
    <3>1. \A u \in Tasks : task[u].pc \in Serving => task[u].jti # task[t].jti
      BY <2>1, <2>2 DEF Secret, Serving
    <3>. QED BY <2>2, <3>1 DEF Secret
  <2>7. ASSUME NEW u \in Tasks
        PROVE  /\ task'[u].old # task[t].jti
               /\ u # t /\ task'[u].pc \in Serving \cup {"store"} => task'[u].jti # task[t].jti
    <3>1. CASE task'[u] = task[u] BY <2>2, <3>1 DEF Secret
    <3>2. CASE Goes(u) BY <2>2, <3>2 DEF Goes, Secret
    <3>. QED BY <3>1, <3>2
  <2>. QED BY <2>1, <2>4, <2>5, <2>6, <2>7 DEF Secret
<1>2. \A t \in Tasks : task'[t].pc \in Serving => task'[t].jti \in issued' BY DEF Goes, StoreInv
<1>3. \A t \in Tasks : task'[t].pc \in Asked => task'[t].cl \in leaving' BY DEF Goes, StoreInv
<1>. QED BY <1>1, <1>2, <1>3 DEF StoreInv, Fresh

(***************************************************************************)
(* The steps of the store, in the variables of the service.                *)
(***************************************************************************)
TrustedBy == [n \in Nodes |-> Trusted(n)]

LEMMA StoreStutters ==
    ASSUME UNCHANGED <<owner, issued, revoked, TrustedBy, isActive, leaving>>
    PROVE  [Store!Next]_(Store!vars)
BY DEF Store!vars, TrustedBy

LEMMA StoreMakes ==
    ASSUME NEW j \in Jtis, NEW c \in Clients, owner[j] = NoClient, owner' = [owner EXCEPT ![j] = c],
           UNCHANGED <<issued, revoked, TrustedBy, isActive, leaving>>
    PROVE  [Store!Next]_(Store!vars)
BY DEF Store!Next, Store!Make, TrustedBy

LEMMA StoreGives ==
    ASSUME NEW j \in Jtis, owner[j] # NoClient, j \notin revoked, issued' = issued \cup {j},
           UNCHANGED <<owner, revoked, TrustedBy, isActive, leaving>>
    PROVE  [Store!Next]_(Store!vars)
BY DEF Store!Next, Store!Give, TrustedBy

LEMMA StoreEnds ==
    ASSUME NEW j \in Jtis, owner[j] # NoClient, revoked' = revoked \cup {j},
           UNCHANGED <<owner, issued, TrustedBy, isActive, leaving>>
    PROVE  [Store!Next]_(Store!vars)
BY DEF Store!Next, Store!End, TrustedBy

LEMMA StoreTrusts ==
    ASSUME NEW n \in Nodes, NEW j \in Jtis, j \in issued \ revoked,
           \A m \in Nodes : Trusted(m)' = IF m = n THEN Trusted(m) \cup {j} ELSE Trusted(m),
           UNCHANGED <<owner, issued, revoked, isActive, leaving>>
    PROVE  [Store!Next]_(Store!vars)
<1>1. TrustedBy' = [TrustedBy EXCEPT ![n] = TrustedBy[n] \cup {j}] BY DEF TrustedBy
<1>. QED BY <1>1 DEF Store!Next, Store!Trust, TrustedBy

LEMMA StoreDistrusts ==
    ASSUME NEW n \in Nodes, Trusted(n)' \subseteq Trusted(n),
           \A m \in Nodes : m # n => Trusted(m)' = Trusted(m),
           UNCHANGED <<owner, issued, revoked, isActive, leaving>>
    PROVE  [Store!Next]_(Store!vars)
<1>1. TrustedBy' = [TrustedBy EXCEPT ![n] = Trusted(n)'] BY DEF TrustedBy
<1>2. Trusted(n)' \in SUBSET TrustedBy[n] BY DEF TrustedBy
<1>. QED BY <1>1, <1>2 DEF Store!Next, Store!Distrust, TrustedBy

LEMMA StoreAsks ==
    ASSUME NEW c \in Clients, NEW j \in issued, owner[j] = c,
           j \notin revoked \/ \E n \in Nodes : j \in Trusted(n),
           leaving' = leaving \cup {c},
           UNCHANGED <<owner, issued, revoked, TrustedBy, isActive>>
    PROVE  [Store!Next]_(Store!vars)
BY DEF Store!Next, Store!Ask, TrustedBy

LEMMA StoreLeaves ==
    ASSUME NEW c \in Clients, c \in leaving, isActive' = isActive \ {c},
           UNCHANGED <<owner, issued, revoked, TrustedBy, leaving>>
    PROVE  [Store!Next]_(Store!vars)
BY DEF Store!Next, Store!Leave, TrustedBy

\* An answer of Redis that is about to enter a cache.
Filling(t, n, j) == task[t].pc = "fill" /\ task[t].seen = "valid" /\ task[t].node = n /\ task[t].jti = j

\* Only caches and answers under way make a process trust a session.
LEMMA TrustedSame ==
    ASSUME UNCHANGED localCache,
           \A t \in Tasks : task'[t] = task[t] \/ (task[t].pc # "fill" /\ task'[t].pc # "fill")
    PROVE  UNCHANGED TrustedBy
<1>1. \A n \in Nodes : Trusted(n)' = Trusted(n) BY DEF Trusted
<1>. QED BY <1>1 DEF TrustedBy

\* A session is taken out of one cache.
LEMMA TrustedForget ==
    ASSUME Loose, NEW n \in Nodes, NEW j \in Jtis, Forget(n, j),
           \A t \in Tasks : task'[t] = task[t] \/ (task[t].pc # "fill" /\ task'[t].pc # "fill")
    PROVE  Trusted(n)' \subseteq Trusted(n) /\ \A m \in Nodes : m # n => Trusted(m)' = Trusted(m)
<1>1. /\ \A i \in Jtis : localCache'[n][i] = "valid" => localCache[n][i] = "valid"
      /\ \A m \in Nodes : m # n => localCache'[m] = localCache[m]
  BY DEF Forget, Loose
<1>2. \A t \in Tasks : task'[t].pc = "fill" <=> task[t].pc = "fill" /\ task'[t] = task[t] OBVIOUS
<1>3. Trusted(n)' \subseteq Trusted(n) BY <1>1, <1>2 DEF Trusted
<1>4. ASSUME NEW m \in Nodes, m # n PROVE Trusted(m)' = Trusted(m) BY <1>1, <1>2, <1>4 DEF Trusted
<1>. QED BY <1>3, <1>4

(***************************************************************************)
(* Each step of the service is one of the store or none.                   *)
(***************************************************************************)
LEMMA VerifyStore ==
    ASSUME TypeOK, Ties, StoreInv, NEW t \in Tasks, VerifyNext(t)
    PROVE  StoreInv' /\ [Store!Next]_(Store!vars)
<1>0. Core /\ Loose /\ TaskOK(task[t]) BY Halves DEF Ties
<1>1. /\ UNCHANGED <<isActive, lastJti, revoked, rev, owner, issued>>
      /\ task[t].pc \in {"idle", "recheck", "load", "fill"}
  <2>1. ASSUME NEW n \in Nodes, NEW j \in Jtis, NEW op \in Routes, VerifyStart(t, n, op, j)
        PROVE  UNCHANGED <<isActive, lastJti, revoked, rev, owner, issued>> /\ task[t].pc = "idle"
    BY <2>1 DEF VerifyStart, db, sessions
  <2>2. CASE VerifyRecheck(t) BY <2>2 DEF VerifyRecheck, db, sessions
  <2>3. CASE VerifyLoad(t) BY <2>3 DEF VerifyLoad, db, sessions
  <2>4. CASE VerifyFill(t) BY <2>4 DEF VerifyFill, db, sessions
  <2>. QED BY <2>1, <2>2, <2>3, <2>4 DEF VerifyNext
<1>2. task[t].pc # "idle" =>
         /\ task[t].jti \in issued /\ task[t].jti \in Jtis /\ owner[task[t].jti] = task[t].cl
         /\ task[t].cl \in Clients /\ task[t].node \in Nodes
  BY <1>0, <1>1 DEF StoreInv, Serving, TaskOK
<1>3. ASSUME \A u \in Tasks : u # t => task'[u] = task[u], Goes(t), leaving \subseteq leaving'
      PROVE  StoreInv'
  BY <1>0, <1>1, <1>3, StoreFrame
\* The request asks for a deactivation, or for nothing that the store knows.
<1>4. ASSUME UNCHANGED TrustedBy, NEW c \in Clients, NEW j \in issued, owner[j] = c,
             j \notin revoked \/ \E n \in Nodes : j \in Trusted(n),
             leaving' = IF task'[t].pc = "kill" THEN leaving \cup {c} ELSE leaving
      PROVE  [Store!Next]_(Store!vars)
  <2>1. CASE task'[t].pc = "kill" BY <1>1, <1>4, <2>1, StoreAsks
  <2>2. CASE task'[t].pc # "kill" BY <1>1, <1>4, <2>2, StoreStutters
  <2>. QED BY <2>1, <2>2
<1>5. ASSUME NEW n \in Nodes, NEW j \in Jtis, NEW op \in Routes, VerifyStart(t, n, op, j)
      PROVE  StoreInv' /\ [Store!Next]_(Store!vars)
  <2>1. PICK pc \in {"load", "recheck", "secure", "kill"} :
           /\ task' = [task EXCEPT ![t] = [IdleTask EXCEPT !.pc = pc, !.op = op, !.node = n,
                          !.cl = owner[j], !.jti = j, !.seen = localCache[n][j]]]
           /\ pc = "kill" => localCache[n][j] = "valid"
    BY <1>5 DEF VerifyStart, FirstStep
  <2>. DEFINE new == [IdleTask EXCEPT !.pc = pc, !.op = op, !.node = n,
                          !.cl = owner[j], !.jti = j, !.seen = localCache[n][j]]
  <2>2. new.pc = pc /\ new.cl = owner[j] /\ new.jti = j /\ new.old = NoJti BY DEF IdleTask
  <2>. HIDE DEF new
  <2>3. task'[t] = new /\ \A u \in Tasks : u # t => task'[u] = task[u] BY <1>0, <2>1 DEF Core, new
  <2>4. /\ j \in issued /\ task[t].pc = "idle" /\ UNCHANGED localCache
        /\ leaving' = IF task'[t].pc = "kill" THEN leaving \cup {owner[j]} ELSE leaving
    BY <1>5 DEF VerifyStart
  <2>5. Goes(t) BY <2>2, <2>3, <2>4 DEF Goes, Asked
  <2>6. UNCHANGED TrustedBy BY <2>2, <2>3, <2>4, TrustedSame
  <2>7. owner[j] \in Clients BY <1>0, <2>4 DEF Core, Minted
  <2>8. CASE pc = "kill"
    <3>1. j \in Trusted(n) BY <2>1, <2>8 DEF Trusted
    <3>. QED BY <1>3, <1>4, <2>3, <2>4, <2>5, <2>6, <2>7, <3>1
  <2>9. CASE pc # "kill"
    <3>1. UNCHANGED leaving BY <2>2, <2>3, <2>4, <2>9
    <3>. QED BY <1>1, <1>3, <2>3, <2>5, <2>6, <3>1, StoreStutters
  <2>. QED BY <2>8, <2>9
\* A step that ends the request, or lets it into its route.
<1>6. ASSUME Enter(t) \/ End(t), Leave(t), task[t].pc # "idle"
      PROVE  /\ \A u \in Tasks : u # t => task'[u] = task[u]
             /\ task'[t].pc \in {"idle", "secure", "kill"} /\ Goes(t) /\ leaving \subseteq leaving'
  <2>1. "secure" \in TaskStates /\ "kill" \in TaskStates BY DEF TaskStates
  <2>2. /\ \A u \in Tasks : u # t => task'[u] = task[u]
        /\ \/ task'[t] = IdleTask
           \/ /\ task'[t].pc \in {"secure", "kill"} /\ task'[t].jti = task[t].jti
              /\ task'[t].cl = task[t].cl /\ task'[t].old = task[t].old
    BY <1>0, <1>6, <2>1, StepTask, EndTask DEF Enter, FirstStep
  <2>3. leaving \subseteq leaving' /\ (task'[t].pc = "kill" => task[t].cl \in leaving')
    BY <1>6 DEF Leave
  <2>4. CASE task'[t] = IdleTask
    <3>1. task'[t].pc = "idle" /\ task'[t].old = NoJti BY <2>4 DEF IdleTask
    <3>. QED BY <2>2, <2>3, <3>1 DEF Goes, Serving, Asked
  <2>5. CASE task'[t] # IdleTask
    <3>1. /\ task'[t].pc \in {"secure", "kill"} /\ task'[t].jti = task[t].jti
          /\ task'[t].cl = task[t].cl /\ task'[t].old = task[t].old
      BY <2>2, <2>5
    <3>. QED BY <1>2, <1>6, <2>2, <2>3, <3>1 DEF Goes, Asked
  <2>. QED BY <2>4, <2>5
<1>7. CASE VerifyRecheck(t)
  <2>1. task[t].pc = "recheck" /\ Leave(t) /\ (Enter(t) \/ End(t)) BY <1>7 DEF VerifyRecheck
  <2>2. StoreInv' /\ task'[t].pc # "fill" /\ \A u \in Tasks : u # t => task'[u] = task[u]
    BY <1>3, <1>6, <2>1
  <2>3. CASE Forget(task[t].node, task[t].jti) /\ End(t)
    <3>1. task'[t].pc = "idle" BY <1>0, <2>3, EndTask DEF IdleTask
    <3>2. UNCHANGED leaving BY <2>1, <3>1 DEF Leave
    <3>3. PICK n \in Nodes, k \in Jtis : n = task[t].node /\ k = task[t].jti BY <1>2, <2>1
    <3>4. Trusted(n)' \subseteq Trusted(n) /\ \A m \in Nodes : m # n => Trusted(m)' = Trusted(m)
      BY <1>0, <2>1, <2>2, <2>3, <3>3, TrustedForget
    <3>. QED BY <1>1, <2>2, <3>2, <3>4, StoreDistrusts
  <2>4. CASE KeepCache /\ (End(t) \/ task[t].jti \notin revoked)
    <3>1. UNCHANGED TrustedBy BY <2>1, <2>2, <2>4, TrustedSame DEF KeepCache
    <3>2. leaving' = IF task'[t].pc = "kill" THEN leaving \cup {task[t].cl} ELSE leaving
      BY <2>1 DEF Leave
    <3>3. CASE End(t)
      <4>1. task'[t].pc = "idle" BY <1>0, <3>3, EndTask DEF IdleTask
      <4>. QED BY <1>1, <2>2, <3>1, <3>2, <4>1, StoreStutters
    <3>4. CASE task[t].jti \notin revoked BY <1>2, <1>4, <2>1, <2>2, <3>1, <3>2, <3>4
    <3>. QED BY <2>4, <3>3, <3>4
  <2>. QED BY <1>7, <2>3, <2>4 DEF VerifyRecheck
<1>8. CASE VerifyLoad(t)
  <2>1. UNCHANGED <<leaving, localCache>> /\ task[t].pc = "load" BY <1>8 DEF VerifyLoad, ghosts
  <2>2. CASE End(t)
    <3>1. task'[t].pc = "idle" BY <1>0, <2>2, EndTask DEF IdleTask
    <3>2. Leave(t) BY <2>1, <3>1 DEF Leave
    <3>3. StoreInv' /\ \A u \in Tasks : u # t => task'[u] = task[u] BY <1>3, <1>6, <2>1, <2>2, <3>2
    <3>4. UNCHANGED TrustedBy BY <2>1, <3>1, <3>3, TrustedSame
    <3>. QED BY <1>1, <2>1, <3>3, <3>4, StoreStutters
  <2>3. ASSUME NEW v \in {"valid", "revoked"}, v = "valid" => task[t].jti \notin revoked,
               task' = [task EXCEPT ![t].pc = "fill", ![t].seen = v]
        PROVE  StoreInv' /\ [Store!Next]_(Store!vars)
    <3>. DEFINE new == [task[t] EXCEPT !.pc = "fill", !.seen = v]
    <3>1. task' = [task EXCEPT ![t] = new] BY <2>3
    <3>2. /\ new.pc = "fill" /\ new.seen = v /\ new.jti = task[t].jti /\ new.old = task[t].old
          /\ new.node = task[t].node
      BY <1>0 DEF Core, Task
    <3>. HIDE DEF new
    <3>3. task'[t] = new /\ \A u \in Tasks : u # t => task'[u] = task[u] BY <1>0, <3>1 DEF Core
    <3>4. Goes(t) BY <1>2, <2>1, <3>2, <3>3 DEF Goes, Asked
    <3>5. StoreInv' BY <1>3, <2>1, <3>3, <3>4
    <3>6. \A m \in Nodes : Trusted(m)' = IF v = "valid" /\ m = task[t].node
                                         THEN Trusted(m) \cup {task[t].jti} ELSE Trusted(m)
      <4>1. ASSUME NEW m \in Nodes, NEW j \in Jtis
            PROVE  (\E u \in Tasks : Filling(u, m, j))' <=>
                      \/ \E u \in Tasks : Filling(u, m, j)
                      \/ v = "valid" /\ m = task[t].node /\ j = task[t].jti
        <5>1. ~Filling(t, m, j) BY <2>1 DEF Filling
        <5>2. Filling(t, m, j)' <=> v = "valid" /\ m = task[t].node /\ j = task[t].jti
          BY <3>2, <3>3 DEF Filling
        <5>3. \A u \in Tasks : u # t => (Filling(u, m, j)' <=> Filling(u, m, j)) BY <3>3 DEF Filling
        <5>. QED BY <5>1, <5>2, <5>3
      <4>2. \A m \in Nodes : Trusted(m) = {j \in Jtis : localCache[m][j] = "valid"
                                                           \/ \E u \in Tasks : Filling(u, m, j)}
        BY DEF Trusted, Filling
      <4>3. \A m \in Nodes : Trusted(m)' = {j \in Jtis : localCache[m][j] = "valid"
                                                           \/ (\E u \in Tasks : Filling(u, m, j))'}
        BY <2>1 DEF Trusted, Filling
      <4>. QED BY <1>2, <2>1, <4>1, <4>2, <4>3
    <3>7. CASE v = "valid" BY <1>1, <1>2, <2>1, <2>3, <3>5, <3>6, <3>7, StoreTrusts
    <3>8. CASE v # "valid"
      <4>1. UNCHANGED TrustedBy BY <3>6, <3>8 DEF TrustedBy
      <4>. QED BY <1>1, <2>1, <3>5, <4>1, StoreStutters
    <3>. QED BY <3>7, <3>8
  <2>. QED BY <1>8, <2>2, <2>3 DEF VerifyLoad
<1>9. CASE VerifyFill(t)
  <2>0. PICK n \in Nodes, k \in Jtis : n = task[t].node /\ k = task[t].jti BY <1>2, <1>9 DEF VerifyFill
  <2>1. /\ task[t].pc = "fill" /\ Leave(t) /\ (Enter(t) \/ End(t))
        /\ localCache' = [localCache EXCEPT ![n][k] = task[t].seen]
        /\ task[t].seen # "valid" => End(t)
    BY <1>9, <2>0 DEF VerifyFill
  <2>2. StoreInv' /\ task'[t].pc # "fill" /\ \A u \in Tasks : u # t => task'[u] = task[u]
    BY <1>3, <1>6, <2>1
  <2>3. /\ localCache'[n][k] = task[t].seen
        /\ \A j \in Jtis : j # k => localCache'[n][j] = localCache[n][j]
        /\ \A m \in Nodes : m # n => localCache'[m] = localCache[m]
    BY <1>0, <2>1 DEF Loose
  <2>4. /\ \A u \in Tasks, m \in Nodes, j \in Jtis : u # t => (Filling(u, m, j)' <=> Filling(u, m, j))
        /\ \A m \in Nodes, j \in Jtis :
              /\ ~Filling(t, m, j)'
              /\ Filling(t, m, j) <=> task[t].seen = "valid" /\ m = n /\ j = k
    BY <2>0, <2>1, <2>2 DEF Filling
  <2>5. ASSUME NEW m \in Nodes, NEW j \in Jtis
        PROVE  j \in Trusted(m)' <=> IF m = n /\ j = k
                                     THEN task[t].seen = "valid" \/ \E u \in Tasks : u # t /\ Filling(u, m, j)
                                     ELSE j \in Trusted(m)
    <3>1. j \in Trusted(m) <=> localCache[m][j] = "valid" \/ \E u \in Tasks : Filling(u, m, j)
      BY DEF Trusted, Filling
    <3>2. j \in Trusted(m)' <=> localCache'[m][j] = "valid" \/ \E u \in Tasks : Filling(u, m, j)'
      BY DEF Trusted, Filling
    <3>3. (\E u \in Tasks : Filling(u, m, j)') <=> \E u \in Tasks : u # t /\ Filling(u, m, j) BY <2>4
    <3>4. CASE m = n /\ j = k BY <2>3, <3>2, <3>3, <3>4
    <3>5. CASE ~(m = n /\ j = k)
      <4>1. localCache'[m][j] = localCache[m][j] BY <2>3, <3>5
      <4>2. (\E u \in Tasks : Filling(u, m, j)) <=> \E u \in Tasks : u # t /\ Filling(u, m, j) BY <2>4, <3>5
      <4>. QED BY <3>1, <3>2, <3>3, <3>5, <4>1, <4>2
    <3>. QED BY <3>4, <3>5
  <2>6. /\ \A m \in Nodes : Trusted(m) \subseteq Jtis /\ Trusted(m)' \subseteq Jtis
        /\ \A j \in Jtis : (\E u \in Tasks : Filling(u, n, j)) => j \in Trusted(n)
    BY DEF Trusted, Filling
  <2>7. \A m \in Nodes : m # n => Trusted(m)' = Trusted(m) BY <2>5, <2>6
  <2>8. CASE task[t].seen = "valid"
    <3>1. k \in Trusted(n) /\ k \in Trusted(n)' BY <2>4, <2>5, <2>6, <2>8
    <3>2. Trusted(n)' = Trusted(n) BY <2>5, <2>6, <3>1
    <3>3. UNCHANGED TrustedBy BY <2>7, <3>2 DEF TrustedBy
    <3>4. leaving' = IF task'[t].pc = "kill" THEN leaving \cup {task[t].cl} ELSE leaving
      BY <2>1 DEF Leave
    <3>. QED BY <1>2, <1>4, <2>0, <2>1, <2>2, <3>1, <3>3, <3>4
  <2>9. CASE task[t].seen # "valid"
    <3>1. task'[t].pc = "idle" BY <1>0, <2>1, <2>9, EndTask DEF IdleTask
    <3>2. UNCHANGED leaving BY <2>1, <3>1 DEF Leave
    <3>3. Trusted(n)' \subseteq Trusted(n) BY <2>5, <2>6, <2>9
    <3>. QED BY <1>1, <2>2, <2>7, <3>2, <3>3, StoreDistrusts
  <2>. QED BY <2>8, <2>9
<1>. QED BY <1>5, <1>7, <1>8, <1>9 DEF VerifyNext

\* A step of a task that no cache and no answer under way takes part in.
LEMMA TaskStore ==
    ASSUME TypeOK, Ties, StoreInv, NEW t \in Tasks, LogoutNext(t) \/ DeactivateNext(t)
    PROVE  StoreInv' /\ [Store!Next]_(Store!vars)
<1>0. Core /\ Loose /\ TaskOK(task[t]) /\ task[t] \in Task BY Halves DEF Ties, Core
<1>1. /\ UNCHANGED <<revoked, localCache, owner, issued, leaving>>
      /\ task[t].pc \in {"secure", "clear", "kill", "read", "off"}
  BY DEF LogoutNext, LogoutSecure, LogoutClear, DeactivateNext, DeactivateKill, DeactivateRead, DeactivateOff,
         sessions, ghosts
<1>2. /\ task[t].jti \in issued /\ task[t].cl \in Clients
      /\ task[t].pc \in Asked => task[t].cl \in leaving
  BY <1>0, <1>1 DEF StoreInv, Serving, TaskOK
\* What the task becomes.
<1>3. /\ \A u \in Tasks : u # t => task'[u] = task[u]
      /\ Goes(t) /\ task'[t].pc # "fill"
  <2>1. CASE End(t)
    <3>1. task'[t] = IdleTask /\ \A u \in Tasks : u # t => task'[u] = task[u] BY <1>0, <2>1, EndTask
    <3>. QED BY <3>1 DEF IdleTask, Goes, Serving, Asked
  <2>2. ASSUME NEW pc \in {"revoke", "read"}, Step(t, pc), pc = "read" => task[t].pc = "kill"
        PROVE  /\ \A u \in Tasks : u # t => task'[u] = task[u]
               /\ Goes(t) /\ task'[t].pc # "fill"
    <3>1. pc \in TaskStates BY DEF TaskStates
    <3>2. /\ task'[t].pc = pc /\ task'[t].cl = task[t].cl /\ task'[t].jti = task[t].jti
          /\ task'[t].old = task[t].old /\ \A u \in Tasks : u # t => task'[u] = task[u]
      BY <1>0, <2>2, <3>1, StepTask
    <3>3. task'[t].pc \in Asked => task'[t].cl \in leaving' BY <1>1, <1>2, <2>2, <3>2 DEF Asked
    <3>. QED BY <1>2, <2>2, <3>2, <3>3 DEF Goes
  <2>3. CASE task[t].pc = "read" /\ task' = [task EXCEPT ![t].pc = "off", ![t].old = lastJti[task[t].cl]]
    <3>. DEFINE new == [task[t] EXCEPT !.pc = "off", !.old = lastJti[task[t].cl]]
    <3>1. task' = [task EXCEPT ![t] = new] BY <2>3
    <3>2. /\ new.pc = "off" /\ new.cl = task[t].cl /\ new.jti = task[t].jti
          /\ new.old = lastJti[task[t].cl]
      BY <1>0 DEF Task
    <3>. HIDE DEF new
    <3>3. task'[t] = new /\ \A u \in Tasks : u # t => task'[u] = task[u] BY <1>0, <3>1 DEF Core
    <3>4. task'[t].old \in {lastJti[c] : c \in Clients} BY <1>2, <3>2, <3>3
    <3>5. task'[t].pc \in Asked => task'[t].cl \in leaving' BY <1>1, <1>2, <2>3, <3>2, <3>3 DEF Asked
    <3>6. task'[t].old = lastJti[task[t].cl] /\ task[t].cl \in Clients BY <1>2, <3>2, <3>3
    <3>. QED BY <1>2, <2>3, <3>2, <3>3, <3>4, <3>5, <3>6 DEF Goes
  <2>. QED BY <2>1, <2>2, <2>3 DEF LogoutNext, LogoutSecure, LogoutClear, DeactivateNext, DeactivateKill,
                                   DeactivateRead, DeactivateOff
<1>4. \A r \in Revokers : rev'[r].pc # "none" =>
         \/ rev[r].pc # "none" /\ rev'[r].jti = rev[r].jti
         \/ rev'[r].jti \in {task[t].old, task[t].jti}
  <2>1. \/ UNCHANGED rev
        \/ \E j \in {task[t].old, task[t].jti} : rev' = [rev EXCEPT ![t] = StartRevoke(task[t].node, j)]
    BY DEF LogoutNext, LogoutSecure, LogoutClear, DeactivateNext, DeactivateKill, DeactivateRead, DeactivateOff
  <2>2. CASE UNCHANGED rev BY <2>2
  <2>3. ASSUME NEW j \in {task[t].old, task[t].jti}, rev' = [rev EXCEPT ![t] = StartRevoke(task[t].node, j)],
               NEW r \in Revokers, rev'[r].pc # "none"
        PROVE  \/ rev[r].pc # "none" /\ rev'[r].jti = rev[r].jti
               \/ rev'[r].jti \in {task[t].old, task[t].jti}
    <3>1. CASE r = t
      <4>1. rev'[r] = StartRevoke(task[t].node, j) BY <1>0, <2>3, <3>1 DEF Core
      <4>. QED BY <2>3, <4>1 DEF StartRevoke
    <3>2. CASE r # t BY <1>0, <2>3, <3>2 DEF Core
    <3>. QED BY <3>1, <3>2
  <2>. QED BY <2>1, <2>2, <2>3
<1>5. \A c \in Clients : lastJti'[c] \in {NoJti, lastJti[c]}
  <2>1. lastJti' \in {lastJti, [lastJti EXCEPT ![task[t].cl] = NoJti]}
    BY DEF LogoutNext, LogoutSecure, LogoutClear, Cleared, DeactivateNext, DeactivateKill, DeactivateRead,
           DeactivateOff, db
  <2>. QED BY <1>0, <2>1 DEF Core
<1>6. StoreInv'
  <2>1. task[t].pc \in Serving BY <1>1 DEF Serving
  <2>. QED BY <1>0, <1>1, <1>3, <1>4, <1>5, <2>1, StoreFrame
<1>7. UNCHANGED TrustedBy BY <1>1, <1>3, TrustedSame
<1>8. isActive' = isActive \/ (task[t].pc = "off" /\ isActive' = isActive \ {task[t].cl})
  BY DEF LogoutNext, LogoutSecure, LogoutClear, DeactivateNext, DeactivateKill, DeactivateRead, DeactivateOff, db
<1>9. [Store!Next]_(Store!vars)
  <2>1. CASE isActive' = isActive BY <1>1, <1>7, <2>1, StoreStutters
  <2>2. CASE task[t].pc = "off" /\ isActive' = isActive \ {task[t].cl}
    BY <1>1, <1>2, <1>7, <2>2, StoreLeaves DEF Asked
  <2>. QED BY <1>8, <2>1, <2>2
<1>. QED BY <1>6, <1>9

LEMMA LoginsStore ==
    ASSUME TypeOK, Ties, StoreInv, NEW t \in Tasks,
           \/ LoginNext(t)
           \/ \E n \in Nodes, c \in Clients, h \in Challenges : LoginChallenge(t, n, c, h)
    PROVE  StoreInv' /\ [Store!Next]_(Store!vars)
<1>0. Core /\ Loose /\ TaskOK(task[t]) /\ task[t] \in Task BY Halves DEF Ties, Core
<1>1. UNCHANGED <<revoked, localCache, isActive, leaving>>
  BY DEF LoginNext, LoginFind, LoginMint, LoginStore, LoginChallenge, db, ghosts
\* A login that comes to no session.
<1>2. ASSUME \A u \in Tasks : u # t => task'[u] = task[u], Goes(t), task'[t].pc # "fill", task[t].pc # "fill",
             UNCHANGED <<lastJti, rev, owner, issued>>
      PROVE  StoreInv' /\ [Store!Next]_(Store!vars)
  <2>1. StoreInv' BY <1>0, <1>1, <1>2, StoreFrame
  <2>2. UNCHANGED TrustedBy BY <1>1, <1>2, TrustedSame
  <2>. QED BY <1>1, <1>2, <2>1, <2>2, StoreStutters
<1>3. ASSUME End(t)
      PROVE  /\ \A u \in Tasks : u # t => task'[u] = task[u]
             /\ Goes(t) /\ task'[t].pc # "fill" /\ task'[t].pc = "idle"
  <2>1. task'[t] = IdleTask /\ \A u \in Tasks : u # t => task'[u] = task[u] BY <1>0, <1>3, EndTask
  <2>. QED BY <2>1 DEF IdleTask, Goes, Serving, Asked
<1>4. ASSUME NEW n \in Nodes, NEW c \in Clients, NEW h \in Challenges, LoginChallenge(t, n, c, h)
      PROVE  StoreInv' /\ [Store!Next]_(Store!vars)
  <2>1. /\ task[t].pc = "idle" /\ UNCHANGED <<lastJti, rev, owner, issued>>
        /\ UNCHANGED task \/ task' = [task EXCEPT ![t] = LoginTask(n, c)]
    BY <1>4 DEF LoginChallenge, db, sessions
  <2>2. CASE task' = [task EXCEPT ![t] = LoginTask(n, c)]
    <3>1. task'[t] = LoginTask(n, c) /\ \A u \in Tasks : u # t => task'[u] = task[u]
      BY <1>0, <2>2 DEF Core
    <3>2. LoginTask(n, c).pc = "find" /\ LoginTask(n, c).old = NoJti BY DEF LoginTask, IdleTask
    <3>3. Goes(t) BY <3>1, <3>2 DEF Goes, Serving, Asked
    <3>. QED BY <1>2, <2>1, <3>1, <3>2, <3>3
  <2>3. CASE UNCHANGED task
    <3>1. StoreInv' BY <1>0, <1>1, <2>1, <2>3, StoreFrame
    <3>2. UNCHANGED TrustedBy BY <1>1, <2>3, TrustedSame
    <3>. QED BY <1>1, <2>1, <3>1, <3>2, StoreStutters
  <2>. QED BY <2>1, <2>2, <2>3
<1>5. CASE LoginFind(t)
  <2>1. task[t].pc = "find" /\ UNCHANGED <<lastJti, rev, owner, issued>> BY <1>5 DEF LoginFind, db, sessions
  <2>2. CASE End(t) BY <1>2, <1>3, <2>1, <2>2
  <2>3. CASE task' = [task EXCEPT ![t].pc = "mint", ![t].old = lastJti[task[t].cl]]
    <3>. DEFINE new == [task[t] EXCEPT !.pc = "mint", !.old = lastJti[task[t].cl]]
    <3>1. task' = [task EXCEPT ![t] = new] BY <2>3
    <3>2. new.pc = "mint" /\ new.old = lastJti[task[t].cl] BY <1>0 DEF Task
    <3>. HIDE DEF new
    <3>3. task'[t] = new /\ \A u \in Tasks : u # t => task'[u] = task[u] BY <1>0, <3>1 DEF Core
    <3>4. task[t].cl \in Clients BY <1>0, <2>1 DEF TaskOK
    <3>5. Goes(t) BY <3>2, <3>3, <3>4 DEF Goes, Serving, Asked
    <3>. QED BY <1>2, <2>1, <3>2, <3>3, <3>5
  <2>. QED BY <1>5, <2>2, <2>3 DEF LoginFind
\* Nobody knows the session that is made.
<1>6. CASE LoginMint(t)
  <2>. DEFINE new == Cardinality(Minted) + 1
              job == [task[t] EXCEPT !.pc = "store", !.jti = new]
  <2>1. /\ task[t].pc = "mint" /\ new \in Jtis
        /\ owner' = [owner EXCEPT ![new] = task[t].cl]
        /\ rev' = IF task[t].old # NoJti
                  THEN [rev EXCEPT ![new] = StartRevoke(task[t].node, task[t].old)] ELSE rev
        /\ task' = [task EXCEPT ![t] = job]
        /\ UNCHANGED <<lastJti, issued>>
    BY <1>6 DEF LoginMint, db
  <2>2. new \notin Minted BY <1>0, <2>1, NewSession
  <2>3. task[t].cl \in Clients BY <1>0, <2>1 DEF TaskOK
  <2>4. job.pc = "store" /\ job.jti = new /\ job.old = task[t].old BY <1>0 DEF Task
  <2>. HIDE DEF job, new
  <2>5. task'[t] = job /\ \A u \in Tasks : u # t => task'[u] = task[u] BY <1>0, <2>1 DEF Core
  <2>6. \A u \in Tasks : /\ task[u].old # new
                         /\ task[u].pc \in Serving \cup {"store"} => task[u].jti # new
    BY <2>1, <2>2, Bounds DEF Ties, TaskOK, Minted, Serving
  <2>7. new \notin revoked \cup issued /\ \A c \in Clients : lastJti[c] # new
    BY <1>0, <2>1, <2>2, Bounds DEF Ties, Core, Minted
  <2>8. ASSUME NEW r \in Revokers, rev'[r].pc # "none"
        PROVE  (rev[r].pc # "none" /\ rev'[r].jti = rev[r].jti) \/ rev'[r].jti = task[t].old
    <3>1. CASE r # new \/ task[t].old = NoJti BY <1>0, <2>1, <2>8, <3>1 DEF Core
    <3>2. CASE r = new /\ task[t].old # NoJti
      <4>1. rev'[r] = StartRevoke(task[t].node, task[t].old) BY <1>0, <2>1, <3>2 DEF Core
      <4>. QED BY <4>1 DEF StartRevoke
    <3>. QED BY <3>1, <3>2
  <2>9. \A r \in Revokers : rev[r].pc # "none" => rev[r].jti # new BY <1>0, <2>2 DEF Core
  <2>10. Secret(t)'
    <3>1. task'[t].jti = new BY <2>4, <2>5
    <3>2. \A r \in Revokers : rev'[r].pc # "none" => rev'[r].jti # new BY <2>6, <2>8, <2>9
    <3>3. \A u \in Tasks : /\ task'[u].old # new
                           /\ u # t /\ task'[u].pc \in Serving \cup {"store"} => task'[u].jti # new
      BY <2>4, <2>5, <2>6
    <3>. QED BY <1>1, <2>1, <2>7, <3>1, <3>2, <3>3 DEF Secret
  <2>11. ASSUME NEW u \in Tasks, u # t, task[u].pc = "store" PROVE Secret(u)'
    <3>1. Secret(u) /\ task[u].jti # new BY <2>6, <2>11 DEF StoreInv, Fresh
    <3>2. \A r \in Revokers : rev'[r].pc # "none" => rev'[r].jti # task[u].jti
      BY <2>8, <3>1 DEF Secret
    <3>3. \A v \in Tasks : /\ task'[v].old # task[u].jti
                           /\ v # u /\ task'[v].pc \in Serving \cup {"store"} => task'[v].jti # task[u].jti
      BY <2>4, <2>5, <3>1 DEF Secret
    <3>. QED BY <1>1, <2>1, <2>5, <2>11, <3>1, <3>2, <3>3 DEF Secret
  <2>12. StoreInv'
    <3>1. Fresh' BY <2>5, <2>10, <2>11 DEF Fresh
    <3>2. \A u \in Tasks : /\ task'[u].pc \in Serving => task'[u].jti \in issued
                           /\ task'[u].pc \in Asked => task'[u].cl \in leaving
      BY <2>4, <2>5 DEF StoreInv, Serving, Asked
    <3>. QED BY <1>1, <2>1, <3>1, <3>2 DEF StoreInv
  <2>13. UNCHANGED TrustedBy BY <1>1, <2>1, <2>4, <2>5, TrustedSame
  <2>14. owner[new] = NoClient BY <1>0, <2>1, <2>2 DEF Core, Minted
  <2>15. [Store!Next]_(Store!vars) BY <1>1, <2>1, <2>3, <2>13, <2>14, StoreMakes
  <2>. QED BY <2>12, <2>15
<1>7. CASE LoginStore(t)
  <2>1. /\ task[t].pc = "store" /\ End(t) /\ UNCHANGED <<rev, owner>>
        /\ lastJti' \in {lastJti, [lastJti EXCEPT ![task[t].cl] = task[t].jti]}
        /\ issued' = issued \/ issued' = issued \cup {task[t].jti}
    BY <1>7 DEF LoginStore
  <2>2. /\ \A u \in Tasks : u # t => task'[u] = task[u]
        /\ Goes(t) /\ task'[t].pc = "idle"
    BY <1>3, <2>1
  <2>3. task[t].jti \in Stored BY <2>1, <2>2 DEF Stored
  <2>4. \A c \in Clients : lastJti'[c] \in {NoJti, lastJti[c]} \cup Stored BY <1>0, <2>1, <2>3 DEF Core
  <2>5. StoreInv' BY <1>0, <1>1, <2>1, <2>2, <2>3, <2>4, StoreFrame
  <2>6. UNCHANGED TrustedBy BY <1>1, <2>1, <2>2, TrustedSame
  <2>7. task[t].jti \in Jtis /\ owner[task[t].jti] # NoClient
    BY <1>0, <2>1, Bounds DEF TaskOK
  <2>8. task[t].jti \notin revoked BY <2>1 DEF StoreInv, Fresh, Secret
  <2>9. CASE issued' = issued BY <1>1, <2>1, <2>5, <2>6, <2>9, StoreStutters
  <2>10. CASE issued' = issued \cup {task[t].jti} BY <1>1, <2>1, <2>5, <2>6, <2>7, <2>8, <2>10, StoreGives
  <2>. QED BY <2>1, <2>9, <2>10
<1>. QED BY <1>4, <1>5, <1>6, <1>7 DEF LoginNext

LEMMA RevokeStore ==
    ASSUME TypeOK, Ties, StoreInv, NEW r \in Revokers, RevokeNext(r)
    PROVE  StoreInv' /\ [Store!Next]_(Store!vars)
<1>0. Core /\ Loose /\ rev[r] \in Revoke BY Halves DEF Core
<1>1. PICK k \in Jtis : /\ rev[r].pc # "none" /\ rev[r].node \in Nodes /\ rev[r].jti = k
                        /\ owner[k] # NoClient
  BY <1>0 DEF RevokeNext, RevokeSet, RevokeLocal, RevokePublish, Core, Minted
<1>2. UNCHANGED <<isActive, lastJti, owner, issued, leaving>>
  BY DEF RevokeNext, RevokeSet, RevokeLocal, RevokePublish, db, sessions
<1>3. \A q \in Revokers : rev'[q].pc # "none" => rev[q].pc # "none" /\ rev'[q].jti = rev[q].jti
  <2>1. rev' = [rev EXCEPT ![r] = NoRevoke] \/ \E pc : rev' = [rev EXCEPT ![r].pc = pc]
    BY DEF RevokeNext, RevokeSet, RevokeLocal, RevokePublish
  <2>2. CASE rev' = [rev EXCEPT ![r] = NoRevoke] BY <1>0, <2>2 DEF Core, NoRevoke
  <2>3. ASSUME NEW pc, rev' = [rev EXCEPT ![r].pc = pc]
        PROVE  \A q \in Revokers : rev'[q].pc # "none" => rev[q].pc # "none" /\ rev'[q].jti = rev[q].jti
    <3>. DEFINE new == [rev[r] EXCEPT !.pc = pc]
    <3>1. rev' = [rev EXCEPT ![r] = new] BY <2>3
    <3>2. new.jti = rev[r].jti BY <1>0 DEF Revoke
    <3>. HIDE DEF new
    <3>3. rev'[r] = new /\ \A q \in Revokers : q # r => rev'[q] = rev[q] BY <1>0, <3>1 DEF Core
    <3>. QED BY <1>1, <3>2, <3>3
  <2>. QED BY <2>1, <2>2, <2>3
\* The task that waits for the revocation ends, or clears its row.
<1>4. \A t \in Tasks : task'[t] = task[t] \/ (Goes(t) /\ task[t].pc # "fill" /\ task'[t].pc # "fill")
  <2>1. CASE UNCHANGED task BY <2>1
  <2>2. ASSUME r \in Tasks, End(r) \/ Step(r, "clear")
        PROVE  \A t \in Tasks : task'[t] = task[t] \/ (Goes(t) /\ task[t].pc # "fill" /\ task'[t].pc # "fill")
    <3>1. task[r].pc = "revoke" BY <1>1, <2>2 DEF Ties
    <3>2. "clear" \in TaskStates BY DEF TaskStates
    <3>3. /\ \A t \in Tasks : t # r => task'[t] = task[t]
          /\ \/ task'[r] = IdleTask
             \/ task'[r].pc = "clear" /\ task'[r].old = task[r].old /\ task'[r].jti = task[r].jti
      BY <1>0, <2>2, <3>2, StepTask, EndTask
    <3>4. task[r].jti \in issued BY <2>2, <3>1 DEF StoreInv, Serving
    <3>5. CASE task'[r] = IdleTask
      <4>1. task'[r].pc = "idle" /\ task'[r].old = NoJti BY <3>5 DEF IdleTask
      <4>. QED BY <3>1, <3>3, <4>1 DEF Goes, Serving, Asked
    <3>6. CASE task'[r].pc = "clear" /\ task'[r].old = task[r].old /\ task'[r].jti = task[r].jti
      BY <3>1, <3>3, <3>4, <3>6 DEF Goes, Asked
    <3>. QED BY <3>3, <3>5, <3>6
  <2>. QED BY <2>1, <2>2 DEF RevokeNext, RevokeSet, RevokeLocal, RevokePublish, Resume
<1>5. revoked' = revoked \/ (revoked' = revoked \cup {k} /\ UNCHANGED localCache)
  BY <1>1 DEF RevokeNext, RevokeSet, RevokeLocal, RevokePublish
<1>6. StoreInv' BY <1>0, <1>1, <1>2, <1>3, <1>4, <1>5, StoreFrame
<1>7. [Store!Next]_(Store!vars)
  <2>1. CASE UNCHANGED localCache
    <3>1. UNCHANGED TrustedBy BY <1>4, <2>1, TrustedSame
    <3>2. CASE revoked' = revoked BY <1>2, <3>1, <3>2, StoreStutters
    <3>3. CASE revoked' = revoked \cup {k} BY <1>1, <1>2, <3>1, <3>3, StoreEnds
    <3>. QED BY <1>5, <3>2, <3>3
  <2>2. CASE RevokeLocal(r)
    <3>1. PICK n \in Nodes : n = rev[r].node BY <1>1
    <3>2. Forget(n, k) /\ UNCHANGED revoked BY <1>1, <2>2, <3>1 DEF RevokeLocal
    <3>3. Trusted(n)' \subseteq Trusted(n) /\ \A m \in Nodes : m # n => Trusted(m)' = Trusted(m)
      BY <1>0, <1>4, <3>2, TrustedForget
    <3>. QED BY <1>2, <3>2, <3>3, StoreDistrusts
  <2>. QED BY <2>1, <2>2 DEF RevokeNext, RevokeSet, RevokePublish
<1>. QED BY <1>6, <1>7

\* A process that dies forgets what it trusted, and nothing else is lost to the store.
LEMMA CrashStore ==
    ASSUME TypeOK, Ties, StoreInv, NEW n \in Nodes, Crash(n)
    PROVE  StoreInv' /\ [Store!Next]_(Store!vars)
<1>0. Core /\ Loose BY Halves
<1>1. /\ localCache' = [localCache EXCEPT ![n] = EmptyCache]
      /\ task' = [t \in Tasks |-> IF task[t].node = n THEN IdleTask ELSE task[t]]
      /\ rev' = [r \in Revokers |-> IF rev[r].node = n THEN NoRevoke ELSE rev[r]]
      /\ UNCHANGED <<isActive, lastJti, revoked, owner, issued, leaving>>
  BY DEF Crash, db, sessions
<1>2. /\ \A r \in Revokers : rev'[r].pc # "none" => rev'[r] = rev[r]
      /\ IdleTask.pc = "idle" /\ IdleTask.old = NoJti
  BY <1>1 DEF NoRevoke, IdleTask
<1>3. \A t \in Tasks : task'[t] = task[t] \/ Goes(t) BY <1>1, <1>2 DEF Goes, Serving, Asked
<1>4. StoreInv' BY <1>0, <1>1, <1>2, <1>3, StoreFrame
<1>5. /\ \A j \in Jtis : localCache'[n][j] # "valid"
      /\ \A m \in Nodes : m # n => localCache'[m] = localCache[m]
  BY <1>0, <1>1 DEF EmptyCache, Loose
<1>6. \A t \in Tasks : /\ task'[t].pc = "fill" => task[t].node # n
                       /\ task[t].node # n => task'[t] = task[t]
  BY <1>1, <1>2
<1>7. Trusted(n)' \subseteq Trusted(n) BY <1>5, <1>6 DEF Trusted
<1>8. ASSUME NEW m \in Nodes, m # n PROVE Trusted(m)' = Trusted(m)
  <2>1. ASSUME NEW t \in Tasks, NEW j \in Jtis PROVE Filling(t, m, j)' <=> Filling(t, m, j)
    BY <1>1, <1>2, <1>6, <1>8 DEF Filling
  <2>2. Trusted(m) = {j \in Jtis : localCache[m][j] = "valid" \/ \E t \in Tasks : Filling(t, m, j)}
    BY DEF Trusted, Filling
  <2>3. Trusted(m)' = {j \in Jtis : localCache'[m][j] = "valid" \/ \E t \in Tasks : Filling(t, m, j)'}
    BY DEF Trusted, Filling
  <2>. QED BY <1>5, <1>8, <2>1, <2>2, <2>3
<1>. QED BY <1>1, <1>4, <1>7, <1>8, StoreDistrusts

LEMMA AsideStore ==
    ASSUME TypeOK, Ties, StoreInv, Aside
    PROVE  StoreInv' /\ [Store!Next]_(Store!vars)
<1>0. Core /\ Loose BY Halves
<1>1. UNCHANGED <<isActive, lastJti, revoked, task, rev, owner, issued, leaving>>
  BY AsideKeeps DEF db, sessions
<1>2. StoreInv' BY <1>0, <1>1, StoreFrame
<1>3. ASSUME NEW n \in Nodes, NEW j \in Jtis, Forget(n, j) PROVE [Store!Next]_(Store!vars)
  <2>1. Trusted(n)' \subseteq Trusted(n) /\ \A m \in Nodes : m # n => Trusted(m)' = Trusted(m)
    BY <1>0, <1>1, <1>3, TrustedForget
  <2>. QED BY <1>1, <2>1, StoreDistrusts
<1>4. ASSUME UNCHANGED localCache PROVE [Store!Next]_(Store!vars)
  <2>1. UNCHANGED TrustedBy BY <1>1, <1>4, TrustedSame
  <2>. QED BY <1>1, <2>1, StoreStutters
<1>5. ASSUME NEW n \in Nodes, Receive(n) PROVE [Store!Next]_(Store!vars)
  <2>1. chan[n] \in Seq(Jtis) /\ chan[n] # <<>> BY <1>0, <1>5 DEF Loose, Receive
  <2>2. Head(chan[n]) \in Jtis BY <2>1, HeadTailProperties
  <2>. QED BY <1>3, <1>5, <2>2 DEF Receive
<1>6. ASSUME NEW n \in Nodes, NEW j \in Jtis, CacheExpire(n, j) PROVE [Store!Next]_(Store!vars)
  BY <1>3, <1>6 DEF CacheExpire
<1>7. \/ UNCHANGED localCache
      \/ \E n \in Nodes : Receive(n)
      \/ \E n \in Nodes, j \in Jtis : CacheExpire(n, j)
  BY DEF Aside, ListenerNext, Connect, LinkBreaks, SilenceEnds, NewChallenge, ChallengeExpire, SignUp, vars
<1>. QED BY <1>2, <1>4, <1>5, <1>6, <1>7

LEMMA StoreStep == TypeOK /\ Ties /\ StoreInv /\ [Next]_vars => StoreInv' /\ [Store!Next]_(Store!vars)
BY Steps, VerifyStore, TaskStore, LoginsStore, RevokeStore, CrashStore, AsideStore

LEMMA StoreInit == Init => StoreInv /\ Store!Init
<1>. SUFFICES ASSUME Init PROVE StoreInv /\ Store!Init OBVIOUS
<1>1. /\ \A t \in Tasks : task[t].pc = "idle"
      /\ \A n \in Nodes, j \in Jtis : localCache[n][j] = "none"
  BY DEF Init, IdleTask, EmptyCache
<1>2. StoreInv BY <1>1 DEF StoreInv, Fresh, Serving, Asked
<1>3. [n \in Nodes |-> Trusted(n)] = [n \in Nodes |-> {}] BY <1>1 DEF Trusted
<1>. QED BY <1>2, <1>3 DEF Init, Store!Init

(***************************************************************************)
(* What the store promises, of its own steps.                              *)
(***************************************************************************)
GivenInv == /\ \A n \in Nodes : TrustedBy[n] \subseteq issued
            /\ \A c \in leaving : \E j \in issued : owner[j] = c
            /\ Clients \ isActive \subseteq leaving
            /\ \A j \in issued : owner[j] # NoClient
            /\ DOMAIN owner = Jtis /\ issued \subseteq Jtis

LEMMA StoreKeeps ==
    ASSUME GivenInv, [Store!Next]_(Store!vars)
    PROVE  /\ GivenInv'
           /\ \A n \in Nodes, j \in revoked : j \notin TrustedBy[n] => j \notin TrustedBy'[n]
           /\ \A j \in Jtis : owner[j] # NoClient => owner'[j] = owner[j]
           /\ revoked \cap (issued' \ issued) = {}
<1>. DOMAIN TrustedBy' = Nodes BY DEF TrustedBy
<1>1. CASE UNCHANGED Store!vars
  <2>1. UNCHANGED <<owner, issued, revoked, TrustedBy, isActive, leaving>> BY <1>1 DEF Store!vars, TrustedBy
  <2>. QED BY <2>1 DEF GivenInv
<1>2. ASSUME NEW j \in Jtis, Store!Give(j)
      PROVE  /\ owner[j] # NoClient /\ j \notin revoked /\ issued' = issued \cup {j}
             /\ UNCHANGED <<owner, revoked, TrustedBy, isActive, leaving>>
  BY <1>2 DEF Store!Give, TrustedBy
<1>3. ASSUME NEW j \in Jtis, Store!End(j) PROVE UNCHANGED <<owner, issued, TrustedBy, isActive, leaving>>
  BY <1>3 DEF Store!End, TrustedBy
<1>4. ASSUME NEW j \in Jtis, NEW c \in Clients, Store!Make(j, c)
      PROVE  /\ owner[j] = NoClient /\ owner' = [owner EXCEPT ![j] = c]
             /\ UNCHANGED <<issued, revoked, TrustedBy, isActive, leaving>>
  BY <1>4 DEF Store!Make, TrustedBy
<1>5. ASSUME NEW n \in Nodes, NEW j \in Jtis, Store!Trust(n, j)
      PROVE  /\ j \in issued \ revoked /\ TrustedBy' = [TrustedBy EXCEPT ![n] = TrustedBy[n] \cup {j}]
             /\ UNCHANGED <<owner, issued, revoked, isActive, leaving>>
  BY <1>5 DEF Store!Trust, TrustedBy
<1>6. ASSUME NEW n \in Nodes, Store!Distrust(n)
      PROVE  /\ \E S \in SUBSET TrustedBy[n] : TrustedBy' = [TrustedBy EXCEPT ![n] = S]
             /\ UNCHANGED <<owner, issued, revoked, isActive, leaving>>
  BY <1>6 DEF Store!Distrust, TrustedBy
<1>7. ASSUME NEW c \in Clients, Store!Ask(c)
      PROVE  /\ \E j \in issued : owner[j] = c
             /\ leaving' = leaving \cup {c} /\ UNCHANGED <<owner, issued, revoked, TrustedBy, isActive>>
  BY <1>7 DEF Store!Ask, TrustedBy
<1>8. ASSUME NEW c \in Clients, Store!Leave(c)
      PROVE  /\ c \in leaving /\ isActive' = isActive \ {c}
             /\ UNCHANGED <<owner, issued, revoked, TrustedBy, leaving>>
  BY <1>8 DEF Store!Leave, TrustedBy
<1>9. ASSUME NEW j \in Jtis, Store!Give(j) \/ Store!End(j)
      PROVE  /\ GivenInv'
             /\ UNCHANGED <<owner, TrustedBy>> /\ revoked \cap (issued' \ issued) = {}
  BY <1>2, <1>3, <1>9 DEF GivenInv
<1>10. ASSUME NEW j \in Jtis, NEW c \in Clients, Store!Make(j, c)
       PROVE  /\ GivenInv' /\ UNCHANGED <<TrustedBy, issued>>
              /\ \A i \in Jtis : owner[i] # NoClient => owner'[i] = owner[i]
  BY <1>4, <1>10 DEF GivenInv
<1>11. ASSUME NEW n \in Nodes, NEW j \in Jtis, Store!Trust(n, j)
       PROVE  /\ GivenInv' /\ UNCHANGED <<owner, issued>>
              /\ \A m \in Nodes, i \in revoked : i \notin TrustedBy[m] => i \notin TrustedBy'[m]
  BY <1>5, <1>11 DEF GivenInv
<1>12. ASSUME NEW n \in Nodes, Store!Distrust(n)
       PROVE  /\ GivenInv' /\ UNCHANGED <<owner, issued>>
              /\ \A m \in Nodes, i \in revoked : i \notin TrustedBy[m] => i \notin TrustedBy'[m]
  BY <1>6, <1>12 DEF GivenInv
<1>13. ASSUME NEW c \in Clients, Store!Ask(c) \/ Store!Leave(c)
       PROVE  GivenInv' /\ UNCHANGED <<owner, issued, TrustedBy>>
  BY <1>7, <1>8, <1>13 DEF GivenInv
<1>14. ASSUME Store!Next
       PROVE  /\ GivenInv'
              /\ \A n \in Nodes, j \in revoked : j \notin TrustedBy[n] => j \notin TrustedBy'[n]
              /\ \A j \in Jtis : owner[j] # NoClient => owner'[j] = owner[j]
              /\ revoked \cap (issued' \ issued) = {}
  BY <1>9, <1>10, <1>11, <1>12, <1>13, <1>14 DEF Store!Next
<1>. QED BY <1>1, <1>14

\* The promises of the store hold of every implementation of it.
LEMMA StorePromises ==
    Store!Spec => /\ []Store!TrustedWereGiven /\ []Store!LeaversAsked
                  /\ Store!RefusedForGood /\ Store!SessionsAreKept
<1>1. Store!Init => GivenInv BY DEF Store!Init, GivenInv, TrustedBy
<1>2. GivenInv /\ [Store!Next]_(Store!vars) => GivenInv' BY StoreKeeps
<1>3. GivenInv => Store!TrustedWereGiven /\ Store!LeaversAsked
  BY DEF GivenInv, Store!TrustedWereGiven, Store!LeaversAsked, TrustedBy
<1>4. GivenInv /\ [Store!Next]_(Store!vars) => [Store!Refused]_(Store!vars)
  <2>. SUFFICES ASSUME GivenInv, [Store!Next]_(Store!vars) PROVE Store!Refused OBVIOUS
  <2>1. \A n \in Nodes, j \in revoked : j \notin TrustedBy[n] => j \notin TrustedBy'[n] BY StoreKeeps
  <2>. QED BY <2>1 DEF Store!Refused, TrustedBy
<1>5. GivenInv /\ [Store!Next]_(Store!vars) => [Store!Kept]_(Store!vars)
  BY StoreKeeps DEF Store!Kept
<1>. QED BY <1>1, <1>2, <1>3, <1>4, <1>5, PTL DEF Store!Spec, Store!RefusedForGood, Store!SessionsAreKept

\* Whatever links, calls and processes fail, for any number of processes and
\* sessions: the caches, revocations, announcements and requests of the service
\* implement the store. No process comes to trust a session that has ended,
\* nobody receives one, and only who asked for it is deactivated (IsStore).
THEOREM ServiceIsStore == Spec => IsStore
<1>1. TypeOK /\ Ties /\ StoreInv /\ [Next]_vars => StoreInv' /\ [Store!Next]_(Store!vars) BY StoreStep
<1>. QED BY <1>1, StoreInit, TypeCorrect, PTL DEF Spec, IsStore, Store!Spec

\* So a process that refuses a session which has ended refuses it for good, a
\* process trusts only sessions that were handed out, and a client that is
\* deactivated had asked with a session of its own.
THEOREM ServiceKeepsPromises ==
    Spec => /\ []Store!TrustedWereGiven /\ []Store!LeaversAsked
            /\ Store!RefusedForGood /\ Store!SessionsAreKept
<1>. QED BY ServiceIsStore, StorePromises DEF IsStore

===============================================================================
