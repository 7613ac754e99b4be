-------------------------- MODULE ApplicationsProofs --------------------------
(***************************************************************************)
(* Applications implements BoundedStaleness for any number of requests and *)
(* operations, any time to live and any number of crashes, and a cached    *)
(* answer or the view is behind the row only for the reasons that          *)
(* StaleOnlyIfMissed and ViewBehindOnlyIfLapsed name.                      *)
(*                                                                         *)
(* The refinement rests on Tied: what is cached was current when it was    *)
(* read, an entry is not older than its time to live, and a request holds  *)
(* what was current that long ago.                                         *)
(***************************************************************************)
EXTENDS Applications, TLAPS

\* The version v is the current one, or was until the hour h or later.
Since(v, h) == v = row.n \/ (v \in 0..(row.n - 1) /\ ended[v] >= h)

Holding == {"fill", "validate"}

\* A request that goes on with a row has one that its key finds.
Holds ==
    \A r \in Requests : req[r].at \in Holding =>
       /\ req[r].row \in Rows
       /\ req[r].at = "fill" => req[r].row.state \in Findable(req[r].kind)

Tied ==
    /\ \A k \in Kinds : cache[k] # None =>
          /\ cache[k].at <= now /\ now - cache[k].at <= Ttl
          /\ Since(cache[k].row.n, cache[k].at)
    /\ \A r \in Requests : req[r].at = "fill" => Since(req[r].row.n, now)
    /\ \A r \in Requests : req[r].at = "validate" => Since(req[r].row.n, now - Ttl)

-------------------------------------------------------------------------------
(***************************************************************************)
(* Types.                                                                  *)
(***************************************************************************)
LEMMA Bounds ==
    /\ Ttl \in Nat \ {0} /\ MaxVersion \in Nat /\ MaxHour \in Nat /\ MaxCrashes \in Nat
    /\ None \notin Entries /\ None \notin Rows /\ None \notin Nat
BY ConstantsAssumption

LEMMA BusyType ==
    ASSUME TypeOK, NEW r \in Requests, req[r].at \in Steps
    PROVE  req[r] \in [at : Steps, kind : Kinds, row : Rows \cup {None}]
<1>1. req[r] \in RequestStates BY DEF TypeOK
<1>2. req[r] # Idle BY DEF Idle, Steps
<1>3. req[r] \notin [at : Verdicts, row : Rows \cup {None}]
  <2>1. \A x \in [at : Verdicts, row : Rows \cup {None}] : x.at \in Verdicts OBVIOUS
  <2>. QED BY <2>1 DEF Steps, Verdicts
<1>. QED BY <1>1, <1>2, <1>3 DEF RequestStates

LEMMA OpType ==
    ASSUME TypeOK, NEW o \in Operations, op[o] # Idle
    PROVE  op[o] \in [at : {"trigger", "keys", "delete"}, left : SUBSET Kinds]
BY DEF TypeOK, OperationStates

LEMMA ResolveType ==
    ASSUME TypeOK, Holds, NEW r \in Requests, Begin(r) \/ Resolve(r)
    PROVE  TypeOK' /\ Holds'
<1>1. \A new \in RequestStates :
         /\ req' = [req EXCEPT ![r] = new]
         /\ new.at \in Holding =>
               /\ new.row \in Rows
               /\ new.at = "fill" => new.row.state \in Findable(new.kind)
         => req' \in [Requests -> RequestStates] /\ Holds'
  BY DEF TypeOK, Holds
<1>2. CASE Begin(r)
  <2>1. PICK k \in Kinds : req' = [req EXCEPT ![r] = Fresh(k)] BY <1>2 DEF Begin
  <2>2. Fresh(k) \in RequestStates /\ Fresh(k).at \notin Holding
    BY DEF Fresh, RequestStates, Steps, Holding
  <2>. QED BY <1>1, <1>2, <2>1, <2>2 DEF Begin, developer, TypeOK
<1>3. CASE GetHit(r)
  <2>1. req[r] \in [at : Steps, kind : Kinds, row : Rows \cup {None}]
    BY <1>3, BusyType DEF GetHit, Steps
  <2>2. cache[req[r].kind].row \in Rows BY <1>3, <2>1 DEF GetHit, TypeOK, Entries
  <2>. DEFINE new == [req[r] EXCEPT !.at = "validate", !.row = cache[req[r].kind].row]
  <2>3. new \in RequestStates /\ new.at = "validate" /\ new.row \in Rows
    BY <2>1, <2>2 DEF RequestStates, Steps
  <2>4. req' = [req EXCEPT ![r] = new] BY <1>3 DEF GetHit
  <2>5. req' \in [Requests -> RequestStates] /\ Holds' BY <1>1, <2>3, <2>4 DEF Holding
  <2>. QED BY <1>3, <2>5 DEF GetHit, developer, TypeOK
<1>4. CASE GetMiss(r)
  <2>1. req[r] \in [at : Steps, kind : Kinds, row : Rows \cup {None}]
    BY <1>4, BusyType DEF GetMiss, Steps
  <2>. DEFINE new == [req[r] EXCEPT !.at = "select"]
  <2>2. new \in RequestStates /\ new.at = "select" BY <2>1 DEF RequestStates, Steps
  <2>3. req' = [req EXCEPT ![r] = new] BY <1>4 DEF GetMiss
  <2>4. req' \in [Requests -> RequestStates] /\ Holds' BY <1>1, <2>2, <2>3 DEF Holding
  <2>. QED BY <1>4, <2>4 DEF GetMiss, developer, TypeOK
<1>5. CASE Select(r)
  <2>1. req[r] \in [at : Steps, kind : Kinds, row : Rows \cup {None}]
    BY <1>5, BusyType DEF Select, Steps
  <2>2. CASE Found(req[r].kind) /\ req' = [req EXCEPT ![r].at = "fill", ![r].row = row]
    <3>. DEFINE new == [req[r] EXCEPT !.at = "fill", !.row = row]
    <3>1. new \in RequestStates /\ new.row \in Rows /\ new.row.state \in Findable(new.kind)
      BY <2>1, <2>2 DEF RequestStates, Steps, TypeOK, Found
    <3>2. req' = [req EXCEPT ![r] = new] BY <2>2
    <3>. QED BY <1>1, <1>5, <3>1, <3>2 DEF Select, developer, TypeOK
  <2>3. ASSUME NEW v \in Verdicts, NEW seen \in Rows \cup {None}, End(r, v, seen)
        PROVE  TypeOK' /\ Holds'
    <3>1. [at |-> v, row |-> seen] \in RequestStates /\ v \notin Holding
      BY DEF RequestStates, Verdicts, Holding
    <3>2. req' = [req EXCEPT ![r] = [at |-> v, row |-> seen]] BY <2>3 DEF End
    <3>. QED BY <1>1, <1>5, <3>1, <3>2 DEF Select, developer, TypeOK
  <2>4. row \in Rows BY DEF TypeOK
  <2>. QED BY <1>5, <2>2, <2>3, <2>4 DEF Select, Verdicts
<1>6. CASE Fill(r)
  <2>1. req[r] \in [at : Steps, kind : Kinds, row : Rows \cup {None}]
    BY <1>6, BusyType DEF Fill, Steps
  <2>2. req[r].row \in Rows /\ req[r].row.state \in Findable(req[r].kind)
    BY <1>6 DEF Fill, Holds, Holding
  <2>. DEFINE new == [req[r] EXCEPT !.at = "validate"]
              entry == [row |-> req[r].row, at |-> now, late |-> req[r].row # row]
  <2>3. new \in RequestStates /\ new.at = "validate" /\ new.row \in Rows
    BY <2>1, <2>2 DEF RequestStates, Steps
  <2>4. req' = [req EXCEPT ![r] = new] BY <1>6 DEF Fill
  <2>5. req' \in [Requests -> RequestStates] /\ Holds' BY <1>1, <2>3, <2>4 DEF Holding
  <2>6. entry \in Entries
    <3>1. (req[r].row # row) \in BOOLEAN OBVIOUS
    <3>. QED BY <2>2, <3>1 DEF Entries, TypeOK
  <2>7. /\ cache' = [cache EXCEPT ![req[r].kind] = entry] \/ cache' = cache
        /\ missed' \subseteq missed
    BY <1>6 DEF Fill
  <2>8. /\ cache' \in [Kinds -> Entries \cup {None}] /\ missed' \subseteq Kinds
        /\ \A k \in Kinds : cache'[k] # None => cache'[k].row.state \in Findable(k)
    BY <2>1, <2>2, <2>6, <2>7 DEF TypeOK
  <2>. QED BY <1>6, <2>5, <2>8 DEF Fill, developer, TypeOK
<1>7. CASE Validate(r)
  <2>1. req[r] \in [at : Steps, kind : Kinds, row : Rows \cup {None}]
    BY <1>7, BusyType DEF Validate, Steps
  <2>2. PICK v \in Verdicts, seen \in Rows \cup {None} :
           req' = [req EXCEPT ![r] = [at |-> v, row |-> seen]]
    BY <1>7, <2>1 DEF Validate, End, Verdicts
  <2>3. [at |-> v, row |-> seen] \in RequestStates /\ v \notin Holding
    BY DEF RequestStates, Verdicts, Holding
  <2>4. req' \in [Requests -> RequestStates] /\ Holds' BY <1>1, <2>2, <2>3
  <2>. QED BY <1>7, <2>4 DEF Validate, developer, TypeOK
<1>. QED BY <1>2, <1>3, <1>4, <1>5, <1>6, <1>7 DEF Resolve

\* The steps that leave requests and time alone.
LEMMA ChangeType ==
    ASSUME TypeOK, NEW state \in States, Change(state)
    PROVE  row' \in Rows /\ ended' \in [0..(row'.n - 1) -> Hours]
<1>1. row.n \in 0..MaxVersion /\ row.n + 1 \in Versions
  BY Bounds DEF Change, TypeOK, Rows, Versions
<1>2. row' = [n |-> row.n + 1, state |-> state] BY DEF Change
<1>3. row'.n - 1 = row.n /\ row' \in Rows BY <1>1, <1>2 DEF Rows
<1>4. ended' = [v \in 0..row.n |-> IF v = row.n THEN now ELSE ended[v]] BY DEF Change
<1>5. \A v \in 0..row.n : v = row.n \/ v \in 0..(row.n - 1) BY <1>1
<1>6. now \in Hours /\ \A v \in 0..(row.n - 1) : ended[v] \in Hours BY DEF TypeOK
<1>7. ended' \in [0..row.n -> Hours] BY <1>4, <1>5, <1>6
<1>. QED BY <1>3, <1>7

LEMMA OperateType ==
    ASSUME TypeOK, Holds, NEW o \in Operations, Operate(o)
    PROVE  TypeOK' /\ Holds'
<1>0. UNCHANGED <<now, req, crashes>>
  BY DEF Operate, Create, Update, ChangeUnannounced, Deactivate, Trigger, ReadKeys, Delete, GiveUp,
         serving
<1>1. Holds' BY <1>0 DEF Holds
<1>2. \A new \in OperationStates :
         op' = [op EXCEPT ![o] = new] => op' \in [Operations -> OperationStates]
  BY DEF TypeOK
<1>3. /\ \A at \in {"trigger", "keys", "delete"} : [at |-> at, left |-> Kinds] \in OperationStates
      /\ Idle \in OperationStates
  BY DEF OperationStates
<1>4. \A at \in {"trigger", "keys", "delete"} :
         Proceed(o, at) => op' \in [Operations -> OperationStates]
  BY <1>2, <1>3 DEF Proceed
<1>5. \A state \in States :
         Change(state) => row' \in Rows /\ ended' \in [0..(row'.n - 1) -> Hours]
  BY ChangeType
<1>6. CASE Create(o) BY <1>0, <1>1, <1>5, <1>6 DEF Create, States, TypeOK
<1>7. CASE Update(o) BY <1>0, <1>1, <1>4, <1>5, <1>7 DEF Update, States, TypeOK
<1>8. CASE ChangeUnannounced(o) BY <1>0, <1>1, <1>5, <1>8 DEF ChangeUnannounced, States, TypeOK
<1>9. CASE Deactivate(o) BY <1>0, <1>1, <1>4, <1>5, <1>9 DEF Deactivate, States, TypeOK
<1>10. CASE Trigger(o) BY <1>0, <1>1, <1>4, <1>10 DEF Trigger, TypeOK
<1>11. CASE ReadKeys(o) BY <1>0, <1>1, <1>4, <1>11 DEF ReadKeys, TypeOK
<1>12. CASE Delete(o)
  <2>1. op[o] \in [at : {"trigger", "keys", "delete"}, left : SUBSET Kinds]
    BY <1>12, OpType DEF Delete, Idle
  <2>2. PICK k \in op[o].left :
           /\ cache' = [cache EXCEPT ![k] = None] /\ missed' = missed \ {k}
           /\ op' = [op EXCEPT ![o] = IF op[o].left = {k} THEN Idle ELSE [op[o] EXCEPT !.left = @ \ {k}]]
    BY <1>12 DEF Delete
  <2>3. [op[o] EXCEPT !.left = @ \ {k}] \in OperationStates BY <2>1 DEF OperationStates
  <2>4. op' \in [Operations -> OperationStates] BY <2>2, <2>3, <1>2, <1>3
  <2>5. /\ cache' \in [Kinds -> Entries \cup {None}] /\ missed' \subseteq Kinds
        /\ \A j \in Kinds : cache'[j] # None => cache'[j].row.state \in Findable(j)
    BY <2>1, <2>2 DEF TypeOK
  <2>. QED BY <1>0, <1>1, <1>12, <2>4, <2>5 DEF Delete, TypeOK
<1>13. CASE GiveUp(o)
  <2>1. op[o] \in [at : {"trigger", "keys", "delete"}, left : SUBSET Kinds]
    BY <1>13, OpType DEF GiveUp, Idle
  <2>2. op' \in [Operations -> OperationStates] BY <1>13, <1>2, <1>3 DEF GiveUp
  <2>. QED BY <1>0, <1>1, <1>13, <2>1, <2>2 DEF GiveUp, TypeOK
<1>. QED BY <1>6, <1>7, <1>8, <1>9, <1>10, <1>11, <1>12, <1>13 DEF Operate

LEMMA TypeStep ==
    ASSUME TypeOK, Holds, [Next]_vars
    PROVE  TypeOK' /\ Holds'
<1>1. CASE \E r \in Requests : Begin(r) \/ Resolve(r) BY <1>1, ResolveType
<1>2. CASE \E o \in Operations : Operate(o) BY <1>2, OperateType
<1>3. CASE RefreshDebounced \/ Release \/ RefreshPlain
  <2>1. view' \in Rows /\ lapsed' \in BOOLEAN
    BY <1>3 DEF RefreshDebounced, Release, RefreshPlain, Refreshed, TypeOK
  <2>. QED BY <1>3, <2>1 DEF RefreshDebounced, Release, RefreshPlain, auth, TypeOK, Holds
<1>4. ASSUME NEW k \in Kinds, Expire(k) PROVE TypeOK' /\ Holds'
  <2>1. /\ cache' \in [Kinds -> Entries \cup {None}] /\ missed' \subseteq Kinds
        /\ \A j \in Kinds : cache'[j] # None => cache'[j].row.state \in Findable(j)
    BY <1>4 DEF Expire, TypeOK
  <2>. QED BY <1>4, <2>1 DEF Expire, developer, TypeOK, Holds
<1>5. CASE HourEnds
  <2>1. now' \in Hours BY <1>5, Bounds DEF HourEnds, TypeOK, Hours
  <2>. QED BY <1>5, <2>1 DEF HourEnds, developer, TypeOK, Holds
<1>6. CASE Crash
  <2>1. crashes' \in 0..MaxCrashes BY <1>6, Bounds DEF Crash, TypeOK
  <2>2. req' \in [Requests -> RequestStates] /\ op' \in [Operations -> OperationStates] /\ Holds'
    BY <1>6 DEF Crash, RequestStates, OperationStates, Holds, Idle, Holding
  <2>. QED BY <1>6, <2>1, <2>2 DEF Crash, TypeOK
<1>7. CASE UNCHANGED vars BY <1>7 DEF vars, TypeOK, Holds
<1>. QED BY <1>1, <1>2, <1>3, <1>4, <1>5, <1>6, <1>7 DEF Next

LEMMA InitType == Init => TypeOK /\ Holds
<1>. SUFFICES ASSUME Init PROVE TypeOK /\ Holds OBVIOUS
<1>1. Absent \in Rows /\ Absent.n = 0
  BY Bounds DEF Absent, Rows, Versions, States
<1>2. ended \in [0..(row.n - 1) -> Hours]
  <2>1. 0..(row.n - 1) = {} BY <1>1 DEF Init
  <2>. QED BY <2>1 DEF Init
<1>3. 0 \in Hours /\ 0 \in 0..MaxCrashes BY Bounds DEF Hours
<1>. QED BY <1>1, <1>2, <1>3
     DEF Init, TypeOK, Holds, RequestStates, OperationStates, Idle, Holding

-------------------------------------------------------------------------------
(***************************************************************************)
(* What is cached or held was current not long ago.                        *)
(***************************************************************************)
LEMMA Numbers ==
    ASSUME TypeOK
    PROVE  /\ now \in Nat /\ row.n \in Nat
           /\ \A v \in 0..(row.n - 1) : ended[v] \in Nat
           /\ \A k \in Kinds : cache[k] # None =>
                 cache[k].at \in Nat /\ cache[k].row \in Rows /\ cache[k].row.n \in Nat
BY DEF TypeOK, Hours, Rows, Versions, Entries

\* A change of the row ends its version now.
LEMMA SinceChange ==
    ASSUME TypeOK, NEW state, Change(state), NEW v, NEW h \in Int, h <= now, Since(v, h)
    PROVE  Since(v, h)'
<1>1. row'.n = row.n + 1 /\ row.n \in Nat /\ now \in Nat BY Numbers DEF Change
<1>2. ended' = [w \in 0..row.n |-> IF w = row.n THEN now ELSE ended[w]] BY DEF Change
<1>3. v \in 0..row.n BY <1>1 DEF Since
<1>4. ended'[v] >= h
  <2>1. CASE v = row.n BY <2>1, <1>1, <1>2, <1>3
  <2>2. CASE v # row.n BY <2>2, <1>2, <1>3 DEF Since
  <2>. QED BY <2>1, <2>2
<1>. QED BY <1>1, <1>3, <1>4 DEF Since

LEMMA TiedFrame ==
    ASSUME Tied, UNCHANGED <<now, row, ended, cache, req>>
    PROVE  Tied'
BY DEF Tied, Since

LEMMA TiedResolve ==
    ASSUME TypeOK, Holds, Tied, NEW r \in Requests, Begin(r) \/ Resolve(r)
    PROVE  Tied'
<1>0. UNCHANGED <<now, row, ended>>
  BY DEF Begin, Resolve, GetHit, GetMiss, Select, Fill, Validate, developer
<1>1. \A v, h : Since(v, h)' <=> Since(v, h) BY <1>0 DEF Since
<1>2. now \in Nat /\ Ttl \in Nat \ {0} BY Numbers, Bounds
<1>3. \A new :
         /\ req' = [req EXCEPT ![r] = new]
         /\ new.at = "fill" => Since(new.row.n, now)
         /\ new.at = "validate" => Since(new.row.n, now - Ttl)
         => /\ \A q \in Requests : req'[q].at = "fill" => Since(req'[q].row.n, now)
            /\ \A q \in Requests : req'[q].at = "validate" => Since(req'[q].row.n, now - Ttl)
  BY DEF Tied, TypeOK
<1>4. CASE Begin(r)
  <2>1. PICK k \in Kinds : req' = [req EXCEPT ![r] = Fresh(k)] BY <1>4 DEF Begin
  <2>. QED BY <1>4, <1>0, <1>1, <1>3, <2>1 DEF Begin, Fresh, Tied
<1>5. CASE GetHit(r)
  <2>1. req[r] \in [at : Steps, kind : Kinds, row : Rows \cup {None}]
    BY <1>5, BusyType DEF GetHit, Steps
  <2>. DEFINE e == cache[req[r].kind]
              new == [req[r] EXCEPT !.at = "validate", !.row = e.row]
  <2>2. e.at \in Nat /\ now - e.at <= Ttl /\ Since(e.row.n, e.at) /\ e.row.n \in Nat
    BY <1>5, <2>1, Numbers DEF GetHit, Tied
  <2>3. Since(e.row.n, now - Ttl) BY <1>2, <2>2, Numbers DEF Since
  <2>4. new.at = "validate" /\ new.row = e.row BY <2>1
  <2>5. req' = [req EXCEPT ![r] = new] BY <1>5 DEF GetHit
  <2>. QED BY <1>5, <1>0, <1>1, <1>3, <2>3, <2>4, <2>5 DEF GetHit, Tied
<1>6. CASE GetMiss(r)
  <2>1. req[r] \in [at : Steps, kind : Kinds, row : Rows \cup {None}]
    BY <1>6, BusyType DEF GetMiss, Steps
  <2>. DEFINE new == [req[r] EXCEPT !.at = "select"]
  <2>2. new.at = "select" /\ req' = [req EXCEPT ![r] = new] BY <1>6, <2>1 DEF GetMiss
  <2>. QED BY <1>6, <1>0, <1>1, <1>3, <2>2 DEF GetMiss, Tied
<1>7. CASE Select(r)
  <2>1. req[r] \in [at : Steps, kind : Kinds, row : Rows \cup {None}]
    BY <1>7, BusyType DEF Select, Steps
  <2>2. PICK new : /\ req' = [req EXCEPT ![r] = new]
                   /\ new.at = "fill" => new.row = row
                   /\ new.at # "validate"
    <3>1. CASE req' = [req EXCEPT ![r].at = "fill", ![r].row = row]
      <4>. DEFINE new == [req[r] EXCEPT !.at = "fill", !.row = row]
      <4>1. req' = [req EXCEPT ![r] = new] /\ new.at = "fill" /\ new.row = row BY <3>1, <2>1
      <4>. QED BY <4>1
    <3>2. ASSUME NEW v \in {"not found", "error"}, NEW seen, End(r, v, seen)
          PROVE  \E new : /\ req' = [req EXCEPT ![r] = new]
                          /\ new.at = "fill" => new.row = row
                          /\ new.at # "validate"
      <4>. DEFINE new == [at |-> v, row |-> seen]
      <4>1. req' = [req EXCEPT ![r] = new] BY <3>2 DEF End
      <4>2. new.at \notin {"fill", "validate"} OBVIOUS
      <4>. QED BY <4>1, <4>2
    <3>. QED BY <1>7, <3>1, <3>2 DEF Select
  <2>3. Since(row.n, now) BY DEF Since
  <2>. QED BY <1>7, <1>0, <1>1, <1>3, <2>2, <2>3 DEF Select, Tied
<1>8. CASE Fill(r)
  <2>1. req[r] \in [at : Steps, kind : Kinds, row : Rows \cup {None}]
    BY <1>8, BusyType DEF Fill, Steps
  <2>. DEFINE new == [req[r] EXCEPT !.at = "validate"]
              entry == [row |-> req[r].row, at |-> now, late |-> req[r].row # row]
  <2>2. req' = [req EXCEPT ![r] = new] /\ new.at = "validate" /\ new.row = req[r].row
    BY <1>8, <2>1 DEF Fill
  <2>3. Since(req[r].row.n, now) BY <1>8 DEF Fill, Tied
  <2>4. Since(req[r].row.n, now - Ttl) BY <1>2, <2>3, Numbers DEF Since
  <2>5. cache' = [cache EXCEPT ![req[r].kind] = entry] \/ cache' = cache BY <1>8 DEF Fill
  <2>6. \A k \in Kinds : cache'[k] # None =>
           cache'[k].at <= now /\ now - cache'[k].at <= Ttl /\ Since(cache'[k].row.n, cache'[k].at)
    <3>1. entry.at = now /\ entry.row = req[r].row OBVIOUS
    <3>2. \A k \in Kinds : cache'[k] = entry \/ cache'[k] = cache[k] BY <2>5 DEF TypeOK
    <3>. QED BY <3>1, <3>2, <2>3, <1>2 DEF Tied
  <2>. QED BY <1>0, <1>1, <1>3, <2>2, <2>4, <2>6 DEF Tied
<1>9. CASE Validate(r)
  <2>0. PICK v \in Verdicts : \E seen : req' = [req EXCEPT ![r] = [at |-> v, row |-> seen]]
    BY <1>9 DEF Validate, End, Verdicts
  <2>1. PICK seen : req' = [req EXCEPT ![r] = [at |-> v, row |-> seen]] BY <2>0
  <2>2. [at |-> v, row |-> seen].at \notin {"fill", "validate"} BY DEF Verdicts
  <2>. QED BY <1>9, <1>0, <1>1, <1>3, <2>1, <2>2 DEF Validate, Tied
<1>. QED BY <1>4, <1>5, <1>6, <1>7, <1>8, <1>9 DEF Resolve

LEMMA TiedOperate ==
    ASSUME TypeOK, Holds, Tied, NEW o \in Operations, Operate(o)
    PROVE  Tied'
<1>0. UNCHANGED <<now, req, crashes>>
  BY DEF Operate, Create, Update, ChangeUnannounced, Deactivate, Trigger, ReadKeys, Delete, GiveUp,
         serving
<1>1. ASSUME NEW state, Change(state), UNCHANGED cache PROVE Tied'
  <2>. DEFINE Later(v, h) == v = row'.n \/ (v \in 0..(row'.n - 1) /\ ended'[v] >= h)
  <2>1. ASSUME NEW v, NEW h \in Int, h <= now, Since(v, h) PROVE Later(v, h)
    <3>1. Since(v, h)' BY <1>1, <2>1, SinceChange
    <3>. QED BY <3>1 DEF Since
  <2>2. now \in Nat /\ now <= now /\ now - Ttl \in Int /\ now - Ttl <= now BY Numbers, Bounds
  <2>. HIDE DEF Later
  <2>3. \A k \in Kinds : cache[k] # None =>
           cache[k].at <= now /\ now - cache[k].at <= Ttl /\ Later(cache[k].row.n, cache[k].at)
    BY <2>1, Numbers DEF Tied
  <2>4. \A r \in Requests : req[r].at = "fill" => Later(req[r].row.n, now)
    BY <2>1, <2>2 DEF Tied
  <2>5. \A r \in Requests : req[r].at = "validate" => Later(req[r].row.n, now - Ttl)
    BY <2>1, <2>2 DEF Tied
  <2>. QED BY <1>0, <1>1, <2>3, <2>4, <2>5 DEF Tied, Since, Later
<1>2. CASE Create(o) \/ Update(o) \/ ChangeUnannounced(o) \/ Deactivate(o)
  BY <1>1, <1>2 DEF Create, Update, ChangeUnannounced, Deactivate
<1>3. CASE Trigger(o) BY <1>0, <1>3, TiedFrame DEF Trigger
<1>4. CASE ReadKeys(o) BY <1>0, <1>4, TiedFrame DEF ReadKeys
<1>5. CASE GiveUp(o) BY <1>0, <1>5, TiedFrame DEF GiveUp
<1>6. CASE Delete(o)
  <2>1. PICK k \in op[o].left : cache' = [cache EXCEPT ![k] = None] BY <1>6 DEF Delete
  <2>2. \A j \in Kinds : cache'[j] # None => cache'[j] = cache[j] BY <2>1 DEF TypeOK
  <2>3. UNCHANGED <<row, ended>> BY <1>6 DEF Delete
  <2>. QED BY <1>0, <2>2, <2>3 DEF Tied, Since
<1>. QED BY <1>2, <1>3, <1>4, <1>5, <1>6 DEF Operate

LEMMA TiedStep ==
    ASSUME TypeOK, Holds, Tied, [Next]_vars
    PROVE  Tied'
<1>1. CASE \E r \in Requests : Begin(r) \/ Resolve(r) BY <1>1, TiedResolve
<1>2. CASE \E o \in Operations : Operate(o) BY <1>2, TiedOperate
<1>3. CASE RefreshDebounced \/ Release \/ RefreshPlain
  BY <1>3, TiedFrame DEF RefreshDebounced, Release, RefreshPlain, auth
<1>4. ASSUME NEW k \in Kinds, Expire(k) PROVE Tied'
  <2>1. cache' = [cache EXCEPT ![k] = None] BY <1>4 DEF Expire
  <2>2. \A j \in Kinds : cache'[j] # None => cache'[j] = cache[j] BY <2>1 DEF TypeOK
  <2>. QED BY <1>4, <2>2 DEF Expire, developer, Tied, Since
<1>5. CASE HourEnds
  <2>1. now' = now + 1 /\ UNCHANGED <<cache, req, row, ended>> BY <1>5 DEF HourEnds, developer
  <2>2. \A r \in Requests : req'[r].at \notin {"fill", "validate"}
    BY <1>5, <2>1 DEF HourEnds, Busy, Steps
  <2>3. \A k \in Kinds : cache[k] # None => now - cache[k].at < Ttl
    BY <1>5, Numbers, Bounds DEF HourEnds, Overdue
  <2>4. \A k \in Kinds : cache[k] # None =>
           cache[k].at <= now' /\ now' - cache[k].at <= Ttl /\ Since(cache[k].row.n, cache[k].at)
    BY <2>1, <2>3, Numbers, Bounds DEF Tied
  <2>. QED BY <2>1, <2>2, <2>4 DEF Tied, Since
<1>6. CASE Crash
  <2>1. \A r \in Requests : req'[r].at = "idle" BY <1>6 DEF Crash, Idle
  <2>2. UNCHANGED <<now, row, cache, ended>> BY <1>6 DEF Crash
  <2>. QED BY <2>1, <2>2 DEF Tied, Since
<1>7. CASE UNCHANGED vars BY <1>7, TiedFrame DEF vars
<1>. QED BY <1>1, <1>2, <1>3, <1>4, <1>5, <1>6, <1>7 DEF Next

LEMMA InitTied == Init => Tied
BY DEF Init, Tied, Idle

-------------------------------------------------------------------------------
(***************************************************************************)
(* What is cached is the row of the moment, or it is known why not.        *)
(***************************************************************************)
Unseen ==
    row.state = "absent" =>
       /\ \A k \in Kinds : cache[k] = None
       /\ \A r \in Requests : req[r].at # "fill"

Explained == StaleOnlyIfMissed /\ Unseen

LEMMA ExplainedFrame ==
    ASSUME Explained, UNCHANGED <<row, cache, op, missed>>,
           \A r \in Requests : req'[r].at = "fill" => req[r].at = "fill"
    PROVE  Explained'
BY DEF Explained, StaleOnlyIfMissed, Unseen, Pending

LEMMA ExplainedResolve ==
    ASSUME TypeOK, Holds, Explained, NEW r \in Requests, Begin(r) \/ Resolve(r)
    PROVE  Explained'
<1>1. UNCHANGED <<row, op>>
  BY DEF Begin, Resolve, GetHit, GetMiss, Select, Fill, Validate, developer
<1>2. CASE Begin(r) \/ GetHit(r) \/ GetMiss(r) \/ Validate(r)
  <2>1. UNCHANGED <<cache, missed>> BY <1>2 DEF Begin, GetHit, GetMiss, Validate
  <2>2. \A q \in Requests : q # r => req'[q] = req[q]
    BY <1>2 DEF Begin, GetHit, GetMiss, Validate, End, TypeOK
  <2>3. req'[r].at # "fill"
    <3>1. CASE Begin(r) BY <3>1 DEF Begin, Fresh, TypeOK
    <3>2. CASE GetHit(r) \/ GetMiss(r)
      <4>1. req[r] \in [at : Steps, kind : Kinds, row : Rows \cup {None}]
        BY <3>2, BusyType DEF GetHit, GetMiss, Steps
      <4>. QED BY <3>2, <4>1 DEF GetHit, GetMiss, TypeOK
    <3>3. CASE Validate(r) BY <3>3 DEF Validate, End, TypeOK
    <3>. QED BY <1>2, <3>1, <3>2, <3>3
  <2>. QED BY <1>1, <2>1, <2>2, <2>3, ExplainedFrame
<1>3. CASE Select(r)
  <2>1. UNCHANGED <<cache, missed>> BY <1>3 DEF Select
  <2>2. StaleOnlyIfMissed' BY <1>1, <2>1 DEF Explained, StaleOnlyIfMissed, Pending
  <2>3. row.state = "absent" => \A q \in Requests : req'[q].at # "fill"
    <3>. SUFFICES ASSUME row.state = "absent", NEW q \in Requests PROVE req'[q].at # "fill"
      OBVIOUS
    <3>1. req[q].at # "fill" BY DEF Explained, Unseen
    <3>2. ~Found(req[r].kind) BY DEF Found, Findable
    <3>3. End(r, "not found", row) \/ End(r, "error", None) BY <1>3, <3>2 DEF Select
    <3>4. PICK v \in {"not found", "error"} :
             \E seen : req' = [req EXCEPT ![r] = [at |-> v, row |-> seen]]
      BY <3>3 DEF End
    <3>4a. PICK seen : req' = [req EXCEPT ![r] = [at |-> v, row |-> seen]] BY <3>4
    <3>5. [at |-> v, row |-> seen].at # "fill" OBVIOUS
    <3>. QED BY <3>1, <3>4a, <3>5 DEF TypeOK
  <2>. QED BY <1>1, <2>1, <2>2, <2>3 DEF Explained, Unseen
<1>4. CASE Fill(r)
  <2>1. req[r] \in [at : Steps, kind : Kinds, row : Rows \cup {None}]
    BY <1>4, BusyType DEF Fill, Steps
  <2>. DEFINE j == req[r].kind
              entry == [row |-> req[r].row, at |-> now, late |-> req[r].row # row]
  <2>2. row.state # "absent" BY <1>4 DEF Fill, Explained, Unseen
  <2>3. CASE cache' = [cache EXCEPT ![j] = entry] /\ missed' = missed \ {j}
    <3>1. entry.row # row => entry.late OBVIOUS
    <3>2. \A k \in Kinds : k # j => cache'[k] = cache[k] /\ (k \in missed => k \in missed')
      BY <2>3 DEF TypeOK
    <3>3. cache'[j] = entry BY <2>3, <2>1 DEF TypeOK
    <3>. QED BY <1>1, <2>1, <2>2, <3>1, <3>2, <3>3
         DEF Explained, StaleOnlyIfMissed, Unseen, Pending
  <2>4. CASE UNCHANGED <<cache, missed>>
    BY <1>1, <2>2, <2>4 DEF Explained, StaleOnlyIfMissed, Unseen, Pending
  <2>. QED BY <1>4, <2>3, <2>4 DEF Fill
<1>. QED BY <1>2, <1>3, <1>4 DEF Resolve

LEMMA ExplainedOperate ==
    ASSUME TypeOK, Holds, Explained, NEW o \in Operations, Operate(o)
    PROVE  Explained'
<1>0. UNCHANGED req
  BY DEF Operate, Create, Update, ChangeUnannounced, Deactivate, Trigger, ReadKeys, Delete, GiveUp,
         serving
<1>1. \A state \in States : Change(state) => row'.state = state BY DEF Change
<1>2. \A at \in {"trigger", "keys", "delete"} :
         Proceed(o, at) => \A k \in Kinds : Pending(o, k)'
  BY DEF Proceed, Pending, TypeOK
<1>3. CASE Create(o)
  <2>1. \A k \in Kinds : cache'[k] = None BY <1>3 DEF Create, Explained, Unseen
  <2>. QED BY <1>3, <1>1, <2>1 DEF Create, Explained, StaleOnlyIfMissed, Unseen, States
<1>4. CASE Update(o) \/ Deactivate(o)
  <2>1. row'.state # "absent" BY <1>4, <1>1 DEF Update, Deactivate, States
  <2>2. Proceed(o, "trigger") BY <1>4 DEF Update, Deactivate
  <2>. QED BY <1>2, <2>1, <2>2 DEF Explained, StaleOnlyIfMissed, Unseen
<1>5. CASE ChangeUnannounced(o)
  <2>1. row'.state # "absent" BY <1>5, <1>1 DEF ChangeUnannounced, States
  <2>. QED BY <1>5, <2>1 DEF ChangeUnannounced, Explained, StaleOnlyIfMissed, Unseen
<1>6. CASE Trigger(o) \/ ReadKeys(o)
  <2>1. UNCHANGED <<row, cache, missed>> BY <1>6 DEF Trigger, ReadKeys
  <2>2. \A k \in Kinds : Pending(o, k)' BY <1>6, <1>2 DEF Trigger, ReadKeys
  <2>. QED BY <1>0, <2>1, <2>2 DEF Explained, StaleOnlyIfMissed, Unseen
<1>7. CASE Delete(o)
  <2>1. op[o] \in [at : {"trigger", "keys", "delete"}, left : SUBSET Kinds]
    BY <1>7, OpType DEF Delete, Idle
  <2>2. PICK k \in op[o].left :
           /\ cache' = [cache EXCEPT ![k] = None] /\ missed' = missed \ {k}
           /\ op' = [op EXCEPT ![o] = IF op[o].left = {k} THEN Idle ELSE [op[o] EXCEPT !.left = @ \ {k}]]
    BY <1>7 DEF Delete
  <2>3. UNCHANGED row BY <1>7 DEF Delete
  <2>4. ASSUME NEW j \in Kinds, j # k PROVE \A p \in Operations : Pending(p, j) => Pending(p, j)'
    <3>1. Pending(o, j) => Pending(o, j)'
      <4>1. CASE op[o].left = {k} BY <4>1, <2>4 DEF Pending
      <4>2. CASE op[o].left # {k}
        <5>1. op'[o] = [op[o] EXCEPT !.left = @ \ {k}] BY <2>2, <4>2 DEF TypeOK
        <5>. QED BY <5>1, <2>1, <2>4 DEF Pending
      <4>. QED BY <4>1, <4>2
    <3>2. \A p \in Operations : p # o => op'[p] = op[p] BY <2>2 DEF TypeOK
    <3>. QED BY <3>1, <3>2 DEF Pending
  <2>5. \A j \in Kinds : cache'[j] # None => j # k /\ cache'[j] = cache[j] BY <2>1, <2>2 DEF TypeOK
  <2>6. StaleOnlyIfMissed' BY <2>2, <2>3, <2>4, <2>5 DEF Explained, StaleOnlyIfMissed
  <2>7. Unseen' BY <1>0, <2>2, <2>3 DEF Explained, Unseen, TypeOK
  <2>. QED BY <2>6, <2>7 DEF Explained
<1>8. CASE GiveUp(o)
  <2>1. UNCHANGED <<row, cache>> /\ missed' = missed \cup op[o].left BY <1>8 DEF GiveUp
  <2>2. \A p \in Operations : p # o => op'[p] = op[p] BY <1>8 DEF GiveUp, TypeOK
  <2>3. \A j \in Kinds, p \in Operations : Pending(p, j) => Pending(p, j)' \/ j \in missed'
    BY <2>1, <2>2 DEF Pending
  <2>. QED BY <1>0, <2>1, <2>3 DEF Explained, StaleOnlyIfMissed, Unseen
<1>. QED BY <1>3, <1>4, <1>5, <1>6, <1>7, <1>8 DEF Operate

LEMMA ExplainedStep ==
    ASSUME TypeOK, Holds, Explained, [Next]_vars
    PROVE  Explained'
<1>1. CASE \E r \in Requests : Begin(r) \/ Resolve(r) BY <1>1, ExplainedResolve
<1>2. CASE \E o \in Operations : Operate(o) BY <1>2, ExplainedOperate
<1>3. CASE RefreshDebounced \/ Release \/ RefreshPlain
  BY <1>3, ExplainedFrame DEF RefreshDebounced, Release, RefreshPlain, auth
<1>4. ASSUME NEW k \in Kinds, Expire(k) PROVE Explained'
  <2>1. UNCHANGED <<row, op, req>> BY <1>4 DEF Expire, developer
  <2>2. \A j \in Kinds : cache'[j] # None => j # k /\ cache'[j] = cache[j]
    BY <1>4 DEF Expire, TypeOK
  <2>3. missed' = missed \ {k} BY <1>4 DEF Expire
  <2>4. \A j \in Kinds : cache[j] = None => cache'[j] = None BY <2>2
  <2>. QED BY <2>1, <2>2, <2>3, <2>4 DEF Explained, StaleOnlyIfMissed, Unseen, Pending
<1>5. CASE HourEnds BY <1>5, ExplainedFrame DEF HourEnds, developer
<1>6. CASE Crash
  <2>1. UNCHANGED <<row, cache>> BY <1>6 DEF Crash
  <2>2. \A k \in Kinds, o \in Operations : Pending(o, k) => k \in missed' BY <1>6 DEF Crash
  <2>3. missed \subseteq missed' BY <1>6 DEF Crash
  <2>4. \A r \in Requests : req'[r].at # "fill" BY <1>6 DEF Crash, Idle
  <2>. QED BY <2>1, <2>2, <2>3, <2>4 DEF Explained, StaleOnlyIfMissed, Unseen
<1>7. CASE UNCHANGED vars BY <1>7, ExplainedFrame DEF vars
<1>. QED BY <1>1, <1>2, <1>3, <1>4, <1>5, <1>6, <1>7 DEF Next

LEMMA InitExplained == Init => Explained
BY DEF Init, Explained, StaleOnlyIfMissed, Unseen, Idle

-------------------------------------------------------------------------------
(***************************************************************************)
(* The view is the row of the moment, or it is known why not.              *)
(***************************************************************************)
LEMMA ViewStep ==
    ASSUME TypeOK, ViewBehindOnlyIfLapsed, [Next]_vars
    PROVE  ViewBehindOnlyIfLapsed'
<1>1. CASE UNCHANGED <<row, op, view, debounced, plain, lapsed>>
  BY <1>1 DEF ViewBehindOnlyIfLapsed
<1>2. CASE \E r \in Requests : Begin(r) \/ Resolve(r)
  BY <1>1, <1>2 DEF Begin, Resolve, GetHit, GetMiss, Select, Fill, Validate, developer
<1>3. ASSUME NEW o \in Operations, Operate(o) PROVE ViewBehindOnlyIfLapsed'
  <2>1. CASE Create(o) BY <2>1 DEF Create, ViewBehindOnlyIfLapsed
  <2>2. CASE Update(o) \/ Deactivate(o)
    <3>1. op'[o].at = "trigger" BY <2>2 DEF Update, Deactivate, Proceed, TypeOK
    <3>. QED BY <3>1 DEF ViewBehindOnlyIfLapsed
  <2>3. CASE ChangeUnannounced(o) BY <2>3 DEF ChangeUnannounced, ViewBehindOnlyIfLapsed
  <2>4. CASE Trigger(o)
    <3>1. debounced' = "sleep" \/ lapsed' BY <2>4 DEF Trigger, TypeOK
    <3>. QED BY <3>1 DEF ViewBehindOnlyIfLapsed
  <2>5. CASE ReadKeys(o) \/ Delete(o) \/ GiveUp(o)
    <3>1. UNCHANGED <<row, view, debounced, plain, lapsed>> BY <2>5 DEF ReadKeys, Delete, GiveUp
    <3>2. op[o].at # "trigger" BY <2>5 DEF ReadKeys, Delete, GiveUp
    <3>3. \A p \in Operations : p # o => op'[p] = op[p]
      BY <2>5 DEF ReadKeys, Delete, GiveUp, Proceed, TypeOK
    <3>. QED BY <3>1, <3>2, <3>3 DEF ViewBehindOnlyIfLapsed
  <2>. QED BY <1>3, <2>1, <2>2, <2>3, <2>4, <2>5 DEF Operate
<1>4. CASE RefreshDebounced \/ RefreshPlain
  <2>1. UNCHANGED row BY <1>4 DEF RefreshDebounced, RefreshPlain, auth
  <2>2. view' = row \/ lapsed' BY <1>4 DEF RefreshDebounced, RefreshPlain, Refreshed
  <2>. QED BY <2>1, <2>2 DEF ViewBehindOnlyIfLapsed
<1>5. CASE Release
  BY <1>5 DEF Release, auth, ViewBehindOnlyIfLapsed
<1>6. CASE Crash BY <1>6 DEF Crash, ViewBehindOnlyIfLapsed
<1>7. CASE HourEnds \/ UNCHANGED vars \/ \E k \in Kinds : Expire(k)
  BY <1>1, <1>7 DEF HourEnds, Expire, developer, vars
<1>. QED BY <1>2, <1>3, <1>4, <1>5, <1>6, <1>7 DEF Next

-------------------------------------------------------------------------------
(***************************************************************************)
(* The refinement.                                                         *)
(***************************************************************************)
LEMMA InitRefines == Init => Answers!Init
<1>. SUFFICES ASSUME Init PROVE Answers!Init OBVIOUS
<1>1. \A r \in Requests : Answered(r) = None BY DEF Init, Answered, Idle, Verdicts
<1>. QED BY <1>1 DEF Init, Absent, Answers!Init

LEMMA ResolveRefines ==
    ASSUME TypeOK, Holds, Tied, NEW r \in Requests, Begin(r) \/ Resolve(r)
    PROVE  [Answers!Next]_(Answers!vars)
<1>. DEFINE answer == [q \in Requests |-> Answered(q)]
<1>1. UNCHANGED <<now, row, ended>>
  BY DEF Begin, Resolve, GetHit, GetMiss, Select, Fill, Validate, developer
<1>2. ASSUME NEW new, req' = [req EXCEPT ![r] = new]
      PROVE  \A q \in Requests :
                Answered(q)' = IF q # r THEN Answered(q)
                               ELSE IF new.at \in Verdicts \ {"error"} THEN new.row.n ELSE None
  BY <1>2 DEF Answered, TypeOK
<1>e. ASSUME NEW v, NEW seen, End(r, v, seen)
      PROVE  \A q \in Requests :
                Answered(q)' = IF q # r THEN Answered(q)
                               ELSE IF v \in Verdicts \ {"error"} THEN seen.n ELSE None
  <2>. DEFINE new == [at |-> v, row |-> seen]
  <2>1. new.at = v /\ new.row = seen OBVIOUS
  <2>2. req' = [req EXCEPT ![r] = new] BY <1>e DEF End
  <2>. HIDE DEF new
  <2>. QED BY <1>2, <2>1, <2>2
<1>v. {"ok", "forbidden", "not found"} \subseteq Verdicts \ {"error"} BY DEF Verdicts
<1>3. ASSUME \A q \in Requests : Answered(q)' = IF q = r THEN None ELSE Answered(q)
      PROVE  Answers!Next
  <2>1. answer' = [q \in Requests |-> IF q \in {r} THEN None ELSE answer[q]] BY <1>3
  <2>2. {r} \in SUBSET Requests OBVIOUS
  <2>. QED BY <1>1, <2>1, <2>2 DEF Answers!Next, Answers!Withdraw
<1>4. ASSUME NEW v \in 0..row.n, v = row.n \/ now - ended[v] <= Ttl,
             \A q \in Requests : Answered(q)' = IF q = r THEN v ELSE Answered(q)
      PROVE  Answers!Next
  <2>1. answer' = [answer EXCEPT ![r] = v] BY <1>4
  <2>2. DOMAIN ended = 0..(row.n - 1) BY DEF TypeOK
  <2>3. Answers!Recent(v) BY <1>4, <2>2, Numbers DEF Answers!Recent
  <2>4. Answers!Answer(r) BY <1>1, <2>1, <2>3 DEF Answers!Answer
  <2>. QED BY <2>4 DEF Answers!Next
<1>5. ASSUME \A q \in Requests : Answered(q)' = Answered(q)
      PROVE  UNCHANGED Answers!vars
  BY <1>1, <1>5 DEF Answers!vars
<1>. HIDE DEF answer
<1>6. row.n \in 0..row.n BY Numbers
<1>7. CASE Begin(r)
  <2>1. PICK k \in Kinds : req' = [req EXCEPT ![r] = Fresh(k)] BY <1>7 DEF Begin
  <2>2. Fresh(k).at \notin Verdicts BY DEF Fresh, Verdicts
  <2>. QED BY <1>2, <1>3, <2>1, <2>2
<1>8. CASE GetHit(r) \/ GetMiss(r) \/ Fill(r)
      \/ (Select(r) /\ req' = [req EXCEPT ![r].at = "fill", ![r].row = row])
  <2>1. req[r] \in [at : Steps, kind : Kinds, row : Rows \cup {None}]
    BY <1>8, BusyType DEF GetHit, GetMiss, Fill, Select, Steps
  <2>2. req'[r].at \in Steps
    <3>1. CASE GetHit(r) BY <3>1, <2>1 DEF GetHit, Steps, TypeOK
    <3>2. CASE GetMiss(r) BY <3>2, <2>1 DEF GetMiss, Steps, TypeOK
    <3>3. CASE Fill(r) BY <3>3, <2>1 DEF Fill, Steps, TypeOK
    <3>4. CASE req' = [req EXCEPT ![r].at = "fill", ![r].row = row]
      BY <3>4, <2>1 DEF Steps, TypeOK
    <3>. QED BY <1>8, <3>1, <3>2, <3>3, <3>4
  <2>3. \A q \in Requests : q # r => req'[q] = req[q]
    BY <1>8 DEF GetHit, GetMiss, Fill, Select, TypeOK
  <2>4. Answered(r) = None /\ Answered(r)' = None
    BY <2>1, <2>2 DEF Answered, Steps, Verdicts
  <2>. QED BY <1>5, <2>3, <2>4 DEF Answered
<1>9. CASE Select(r) /\ (End(r, "not found", row) \/ End(r, "error", None))
  <2>1. CASE End(r, "not found", row)
    <3>1. \A q \in Requests : Answered(q)' = IF q = r THEN row.n ELSE Answered(q)
      BY <1>e, <1>v, <2>1
    <3>. QED BY <1>4, <1>6, <3>1
  <2>2. CASE End(r, "error", None)
    <3>1. \A q \in Requests : Answered(q)' = IF q = r THEN None ELSE Answered(q)
      BY <1>e, <2>2
    <3>. QED BY <1>3, <3>1
  <2>. QED BY <1>9, <2>1, <2>2
<1>10. CASE Validate(r)
  <2>1. CASE End(r, "forbidden", req[r].row) \/ End(r, "ok", req[r].row)
    <3>1. \A q \in Requests : Answered(q)' = IF q = r THEN req[r].row.n ELSE Answered(q)
      BY <1>e, <1>v, <2>1
    <3>2. Since(req[r].row.n, now - Ttl) BY <1>10 DEF Validate, Tied
    <3>3. req[r].row.n \in 0..row.n /\ (req[r].row.n = row.n \/ now - ended[req[r].row.n] <= Ttl)
      BY <3>2, <1>6, Numbers, Bounds DEF Since
    <3>. QED BY <1>4, <3>1, <3>3
  <2>2. CASE End(r, "error", None)
    <3>1. \A q \in Requests : Answered(q)' = IF q = r THEN None ELSE Answered(q)
      BY <1>e, <2>2
    <3>. QED BY <1>3, <3>1
  <2>. QED BY <1>10, <2>1, <2>2 DEF Validate
<1>. QED BY <1>7, <1>8, <1>9, <1>10 DEF Resolve, Select

LEMMA StepRefines ==
    ASSUME TypeOK, Holds, Tied, [Next]_vars
    PROVE  [Answers!Next]_(Answers!vars)
<1>1. CASE \E r \in Requests : Begin(r) \/ Resolve(r) BY <1>1, ResolveRefines
<1>2. CASE UNCHANGED <<now, row, ended, req>> BY <1>2 DEF Answers!vars, Answered
<1>3. ASSUME NEW o \in Operations, Operate(o) PROVE [Answers!Next]_(Answers!vars)
  <2>1. CASE \E state : Change(state)
    <3>1. UNCHANGED <<now, req>>
      BY <1>3 DEF Operate, Create, Update, ChangeUnannounced, Deactivate, Trigger, ReadKeys, Delete,
                  GiveUp, serving
    <3>2. row'.n = row.n + 1 /\ ended' = [v \in 0..row.n |-> IF v = row.n THEN now ELSE ended[v]]
      BY <2>1 DEF Change
    <3>. QED BY <3>1, <3>2 DEF Answers!Next, Answers!Replace, Answered
  <2>2. CASE UNCHANGED <<now, row, ended, req>> BY <2>2, <1>2
  <2>. QED BY <1>3, <2>1, <2>2
       DEF Operate, Create, Update, ChangeUnannounced, Deactivate, Trigger, ReadKeys, Delete, GiveUp,
           serving
<1>4. CASE HourEnds
  BY <1>4 DEF HourEnds, developer, Answers!Next, Answers!HourEnds, Answered
<1>5. CASE Crash
  <2>1. \A r \in Requests : Answered(r)' = None BY <1>5 DEF Crash, Answered, Idle, Verdicts
  <2>2. UNCHANGED <<now, row, ended>> BY <1>5 DEF Crash
  <2>3. Requests \in SUBSET Requests OBVIOUS
  <2>. QED BY <2>1, <2>2, <2>3 DEF Answers!Next, Answers!Withdraw
<1>6. CASE RefreshDebounced \/ Release \/ RefreshPlain
  BY <1>2, <1>6 DEF RefreshDebounced, Release, RefreshPlain, auth
<1>7. CASE \E k \in Kinds : Expire(k) BY <1>2, <1>7 DEF Expire, developer
<1>8. CASE UNCHANGED vars BY <1>2, <1>8 DEF vars
<1>. QED BY <1>1, <1>3, <1>4, <1>5, <1>6, <1>7, <1>8 DEF Next

-------------------------------------------------------------------------------
(***************************************************************************)
(* Every reachable state has the types of TypeOK.                          *)
(***************************************************************************)
THEOREM TypeCorrect == Spec => []TypeOK
<1>. QED BY InitType, TypeStep, PTL DEF Spec

(***************************************************************************)
(* For any number of requests and operations, a cached answer is behind    *)
(* the row only while its invalidation is to come, after it was missed, or *)
(* when it was read before the change and cached after it.                 *)
(***************************************************************************)
THEOREM StaleIsExplained == Spec => []StaleOnlyIfMissed
<1>1. Explained => StaleOnlyIfMissed BY DEF Explained
<1>. QED BY <1>1, InitType, TypeStep, InitExplained, ExplainedStep, PTL DEF Spec

(***************************************************************************)
(* For any number of operations, the view is behind the row only while a   *)
(* refresh is to come or after one was lost.                               *)
(***************************************************************************)
THEOREM ViewIsExplained == Spec => []ViewBehindOnlyIfLapsed
<1>1. Init => ViewBehindOnlyIfLapsed BY DEF Init, ViewBehindOnlyIfLapsed
<1>. QED BY <1>1, InitType, TypeStep, ViewStep, PTL DEF Spec

(***************************************************************************)
(* Whatever requests, changes, failures and crashes interleave, resolving  *)
(* a key behaves as a cache whose answers are at most Ttl hours old.       *)
(***************************************************************************)
THEOREM Refinement == Spec => AnswersAreRecent
<1>. QED BY InitType, TypeStep, InitTied, TiedStep, InitRefines, StepRefines, PTL
        DEF Spec, AnswersAreRecent, Answers!Spec
===============================================================================
