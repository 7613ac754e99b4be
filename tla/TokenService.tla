----------------------------- MODULE TokenService -----------------------------
(***************************************************************************)
(* The OAuth-like tokens of a developer account                            *)
(* (src/vaultless-api/src/services/token.rs): pairs of an access and a     *)
(* refresh token, kept in Redis and, by spawned tasks, in the tables       *)
(* user_sessions and refresh_tokens. The state is that of one user; pair i *)
(* is the i-th pair minted, and a family is named by its first pair.       *)
(*                                                                         *)
(* A step is what one task does between two awaits. Nothing calls          *)
(* revoke_access_token, and the logout route fails before its handler runs *)
(* (it asks for an Extension<SessionData> that user_auth never inserts):   *)
(* neither is an action. No code deactivates a user.                       *)
(***************************************************************************)
EXTENDS Integers, FiniteSets

CONSTANTS
    Tasks,      \* requests that may be served at once
    MaxPairs,   \* bound on the pairs minted
    MaxLogins,  \* bound on those a login mints
    Requests,   \* the requests that come: "refresh", "verify", "reset"
    Expiring,   \* the keys and rows whose time may end: "session", "refresh"
    Aging,      \* bound on the pairs whose time may end
    Faults,     \* the kinds of failure that may happen
    MaxFaults   \* bound on the kinds of failure in one behaviour

Pairs == 1..MaxPairs
NoPair == 0

(***************************************************************************)
(* redis, db: a command or statement fails, or its answer is lost; crash:  *)
(* the process dies with its tasks.                                        *)
(***************************************************************************)
FaultKinds == {"redis", "db", "crash"}

ASSUME TasksAssumption == IsFiniteSet(Tasks)
ASSUME MaxPairsAssumption == MaxPairs \in Nat /\ MaxLogins \in Nat
ASSUME RequestsAssumption == /\ Requests \subseteq {"refresh", "verify", "reset"}
                             /\ Expiring \subseteq {"session", "refresh"}
ASSUME FaultsAssumption == Faults \subseteq FaultKinds /\ MaxFaults \in Nat

VARIABLES
    \* Redis
    sessionKey,      \* access tokens with a session key
    refreshKey,      \* "none", "fresh" or "used", for each refresh token
    \* PostgreSQL
    activeSessions,  \* access tokens with a row that find_by_token_hash returns
    rows,            \* refresh tokens with a row
    usedRows,        \* those with is_used
    revokedRows,     \* those with is_revoked
    \* the process
    task,            \* what each request does
    storing,         \* spawned UserSession::create
    rotating,        \* spawned RefreshToken::create or rotation that ends in pair i's row
    \* history
    minted,          \* how many pairs there are
    family,          \* the family of each pair
    parent,          \* the pair whose refresh token it was exchanged for
    held,            \* pairs a client received
    granted,         \* how many pairs each refresh token was exchanged for
    raced,           \* refresh tokens read while another exchange of them was under way
    unrecorded,      \* exchanges whose rotation found no row, failed or died
    detected,        \* families of which a reuse was answered "all tokens revoked"
    doomed,          \* access tokens that existed at a password reset
    failed           \* the kinds of failure so far

redis == <<sessionKey, refreshKey>>
db == <<activeSessions, rows, usedRows, revokedRows>>
spawned == <<storing, rotating>>
lineage == <<minted, family, parent>>
ghosts == <<granted, raced, unrecorded, detected, doomed>>
vars == <<redis, db, task, spawned, lineage, held, ghosts, failed>>

TaskStates == {"idle", "setSession", "setRefresh", "load", "mark", "setNew", "setAccess",
               "revoke", "delete", "find", "fill"}
RotationSteps == {"none", "insert", "find", "mark", "add"}

\* The type invariant: keys, rows, tasks and the pairs they speak of.
TypeOK ==
    /\ minted \in 0..MaxPairs
    /\ sessionKey \subseteq Pairs /\ refreshKey \in [Pairs -> {"none", "fresh", "used"}]
    /\ activeSessions \subseteq Pairs /\ rows \subseteq 1..minted
    /\ usedRows \subseteq rows /\ revokedRows \subseteq rows
    /\ task \in [Tasks -> [pc : TaskStates, tok : 0..MaxPairs, new : 0..MaxPairs]]
    /\ storing \subseteq 1..minted /\ rotating \in [Pairs -> RotationSteps]
    /\ family \in [Pairs -> 0..MaxPairs] /\ parent \in [Pairs -> 0..MaxPairs]
    /\ held \subseteq 1..minted /\ granted \in [Pairs -> Nat]
    /\ raced \subseteq Pairs /\ unrecorded \subseteq Pairs
    /\ detected \subseteq 1..minted /\ doomed \subseteq 1..minted
    /\ failed \subseteq FaultKinds

Idle == [pc |-> "idle", tok |-> NoPair, new |-> NoPair]

Init ==
    /\ sessionKey = {} /\ refreshKey = [r \in Pairs |-> "none"]
    /\ activeSessions = {} /\ rows = {} /\ usedRows = {} /\ revokedRows = {}
    /\ task = [t \in Tasks |-> Idle]
    /\ storing = {} /\ rotating = [i \in Pairs |-> "none"]
    /\ minted = 0 /\ family = [i \in Pairs |-> NoPair] /\ parent = [i \in Pairs |-> NoPair]
    /\ held = {} /\ granted = [r \in Pairs |-> 0] /\ raced = {} /\ unrecorded = {}
    /\ detected = {} /\ doomed = {} /\ failed = {}

\* A failure: in one behaviour each kind happens at most once, and at most
\* MaxFaults kinds do.
Fault(kind) == /\ kind \in Faults \ failed
               /\ Cardinality(failed) < MaxFaults
               /\ failed' = failed \cup {kind}
NoFault == UNCHANGED failed

Step(t, pc) == task' = [task EXCEPT ![t].pc = pc]
End(t) == task' = [task EXCEPT ![t] = Idle]

\* The bound: a request that mints starts only if a pair is left for it.
PairLeft == minted + Cardinality({t \in Tasks : task[t].pc \in {"load", "mark"}}) < MaxPairs

-----------------------------------------------------------------------------
(***************************************************************************)
(* create_token_pair, after a login that User::login_with_transaction let  *)
(* through                                                                 *)
(***************************************************************************)
LoginStart(t) ==
    LET new == minted + 1
    IN  /\ task[t].pc = "idle" /\ PairLeft
        /\ Cardinality({i \in Pairs : family[i] = i}) < MaxLogins
        /\ minted' = new /\ family' = [family EXCEPT ![new] = new]
        /\ task' = [task EXCEPT ![t] = [pc |-> "setSession", tok |-> NoPair, new |-> new]]
        /\ NoFault /\ UNCHANGED <<redis, db, spawned, parent, held, ghosts>>

LoginSession(t) ==
    /\ task[t].pc = "setSession"
    /\ \/ NoFault /\ sessionKey' = sessionKey \cup {task[t].new} /\ Step(t, "setRefresh")
       \/ Fault("redis") /\ sessionKey' \in {sessionKey, sessionKey \cup {task[t].new}} /\ End(t)
    /\ UNCHANGED <<refreshKey, db, spawned, lineage, held, ghosts>>

\* The refresh token; then both rows are left to spawned tasks.
LoginRefresh(t) ==
    LET new == task[t].new
        set == [refreshKey EXCEPT ![new] = "fresh"]
    IN  /\ task[t].pc = "setRefresh"
        /\ \/ /\ NoFault /\ refreshKey' = set
              /\ storing' = storing \cup {new} /\ rotating' = [rotating EXCEPT ![new] = "insert"]
              /\ held' = held \cup {new}
           \/ Fault("redis") /\ refreshKey' \in {refreshKey, set} /\ UNCHANGED <<spawned, held>>
        /\ End(t)
        /\ UNCHANGED <<sessionKey, db, lineage, ghosts>>

-----------------------------------------------------------------------------
(***************************************************************************)
(* refresh_token                                                           *)
(***************************************************************************)
Exchanging(r) == \/ \E t \in Tasks : task[t].pc = "mark" /\ task[t].tok = r
                 \/ \E i \in Pairs : parent[i] = r /\ rotating[i] \in {"find", "mark"}

\* The token was found good: it will be exchanged unless a call fails.
Accept(t, r) == /\ task' = [task EXCEPT ![t] = [pc |-> "mark", tok |-> r, new |-> NoPair]]
                /\ raced' = IF Exchanging(r) THEN raced \cup {r} ELSE raced
Go(t, r, pc) == /\ task' = [task EXCEPT ![t] = [pc |-> pc, tok |-> r, new |-> NoPair]]
                /\ UNCHANGED raced

\* Redis first: a fresh token is accepted, a used one is a theft, and a missing
\* one is looked up in PostgreSQL.
RefreshStart(t, r) ==
    /\ "refresh" \in Requests /\ task[t].pc = "idle" /\ r \in held /\ PairLeft
    /\ \/ refreshKey[r] = "fresh" /\ Accept(t, r)
       \/ refreshKey[r] = "used" /\ Go(t, r, "revoke")
       \/ refreshKey[r] = "none" /\ Go(t, r, "load")
    /\ NoFault
    /\ UNCHANGED <<redis, db, spawned, lineage, held, granted, unrecorded, detected, doomed>>

\* Mutant: is_used is not looked at.
RefreshLoadIgnoresUsed(t) ==
    LET r == task[t].tok
    IN  /\ task[t].pc = "load" /\ NoFault
        /\ IF r \in rows \ revokedRows THEN Accept(t, r) ELSE End(t) /\ UNCHANGED raced
        /\ UNCHANGED <<redis, db, spawned, lineage, held, granted, unrecorded, detected, doomed>>

\* find_by_hash. is_used comes before is_revoked; expires_at is not looked at.
RefreshLoad(t) ==
    LET r == task[t].tok
    IN  /\ task[t].pc = "load"
        /\ \/ NoFault /\ r \in usedRows /\ Go(t, r, "revoke")
           \/ NoFault /\ r \in rows \ (usedRows \cup revokedRows) /\ Accept(t, r)
           \/ /\ NoFault /\ (r \notin rows \/ r \in revokedRows \ usedRows)
              /\ End(t) /\ UNCHANGED raced
           \/ Fault("db") /\ End(t) /\ UNCHANGED raced
        /\ UNCHANGED <<redis, db, spawned, lineage, held, granted, unrecorded, detected, doomed>>

\* Mutant: rows that are still to come are revoked as well.
KinToCome(r) == {i \in 1..minted : family[i] = family[r]}

\* revoke_family: the rows the family has by now.
Kin(r) == {i \in rows : family[i] = family[r]}
RefreshRevoke(t) ==
    /\ task[t].pc = "revoke"
    /\ \/ NoFault /\ revokedRows' = revokedRows \cup Kin(task[t].tok) /\ Step(t, "delete")
       \/ Fault("db") /\ revokedRows' \in {revokedRows, revokedRows \cup Kin(task[t].tok)} /\ End(t)
    /\ UNCHANGED <<redis, activeSessions, rows, usedRows, spawned, lineage, held, ghosts>>

\* Only the key of the presented token is deleted, not those of its family.
RefreshDelete(t) ==
    LET r == task[t].tok
        deleted == [refreshKey EXCEPT ![r] = "none"]
    IN  /\ task[t].pc = "delete"
        /\ \/ NoFault /\ refreshKey' = deleted /\ detected' = detected \cup {family[r]}
           \/ Fault("redis") /\ refreshKey' \in {refreshKey, deleted} /\ UNCHANGED detected
        /\ End(t)
        /\ UNCHANGED <<sessionKey, db, spawned, lineage, held, granted, raced, unrecorded, doomed>>

\* Pair new is minted in exchange for r, and its rotation spawned.
Mint(r) ==
    LET new == minted + 1
    IN  /\ minted' = new
        /\ family' = [family EXCEPT ![new] = family[r]] /\ parent' = [parent EXCEPT ![new] = r]
        /\ rotating' = [rotating EXCEPT ![new] = "find"]
        /\ granted' = [granted EXCEPT ![r] = @ + 1]

\* Mutant: the rotation is not spawned.
RefreshMarkUnrotated(t) ==
    LET r == task[t].tok
        new == minted + 1
    IN  /\ task[t].pc = "mark" /\ new \in Pairs /\ NoFault
        /\ refreshKey' = [refreshKey EXCEPT ![r] = "used"]
        /\ minted' = new
        /\ family' = [family EXCEPT ![new] = family[r]] /\ parent' = [parent EXCEPT ![new] = r]
        /\ granted' = [granted EXCEPT ![r] = @ + 1]
        /\ task' = [task EXCEPT ![t].pc = "setNew", ![t].new = new]
        /\ UNCHANGED <<sessionKey, db, spawned, held, raced, unrecorded, detected, doomed>>

\* Mutant: the rotation is spawned before the token is marked, which fails.
RefreshMarkLate(t) ==
    LET r == task[t].tok
    IN  /\ task[t].pc = "mark" /\ minted < MaxPairs
        /\ Mint(r)
        /\ \/ /\ NoFault /\ refreshKey' = [refreshKey EXCEPT ![r] = "used"]
              /\ task' = [task EXCEPT ![t].pc = "setNew", ![t].new = minted']
           \/ Fault("redis") /\ End(t) /\ UNCHANGED refreshKey
        /\ UNCHANGED <<sessionKey, db, storing, held, raced, unrecorded, detected, doomed>>

\* find_by_id of the user, then the token is marked as used for 60 seconds.
\* Nothing compares it with what was read.
RefreshMark(t) ==
    LET r == task[t].tok
        used == [refreshKey EXCEPT ![r] = "used"]
    IN  /\ task[t].pc = "mark"
        /\ \/ /\ NoFault /\ minted < MaxPairs
              /\ refreshKey' = used /\ Mint(r)
              /\ task' = [task EXCEPT ![t].pc = "setNew", ![t].new = minted']
           \/ /\ Fault("db") \/ Fault("redis")
              /\ refreshKey' \in {refreshKey} \cup (IF "redis" \in failed' \ failed THEN {used} ELSE {})
              /\ End(t) /\ UNCHANGED <<lineage, rotating, granted>>
        /\ UNCHANGED <<sessionKey, db, storing, held, raced, unrecorded, detected, doomed>>

RefreshSetNew(t) ==
    LET set == [refreshKey EXCEPT ![task[t].new] = "fresh"]
    IN  /\ task[t].pc = "setNew"
        /\ \/ NoFault /\ refreshKey' = set /\ Step(t, "setAccess")
           \/ Fault("redis") /\ refreshKey' \in {refreshKey, set} /\ End(t)
        /\ UNCHANGED <<sessionKey, db, spawned, lineage, held, ghosts>>

\* The new session; only now does the client get its pair.
RefreshSetAccess(t) ==
    LET new == task[t].new
    IN  /\ task[t].pc = "setAccess"
        /\ \/ /\ NoFault /\ sessionKey' = sessionKey \cup {new}
              /\ storing' = storing \cup {new} /\ held' = held \cup {new}
           \/ /\ Fault("redis") /\ sessionKey' \in {sessionKey, sessionKey \cup {new}}
              /\ UNCHANGED <<storing, held>>
        /\ End(t)
        /\ UNCHANGED <<refreshKey, db, rotating, lineage, ghosts>>

-----------------------------------------------------------------------------
(***************************************************************************)
(* The spawned statements                                                  *)
(***************************************************************************)
StoreSession(i) ==
    /\ i \in storing /\ storing' = storing \ {i}
    /\ \/ NoFault /\ activeSessions' = activeSessions \cup {i}
       \/ Fault("db") /\ activeSessions' \in {activeSessions, activeSessions \cup {i}}
    /\ UNCHANGED <<redis, rows, usedRows, revokedRows, task, rotating, lineage, held, ghosts>>

Rotates(i, step) == rotating' = [rotating EXCEPT ![i] = step]

\* RefreshToken::create for a login, the last statement of rotate for a refresh.
StoreRefresh(i) ==
    /\ rotating[i] \in {"insert", "add"} /\ Rotates(i, "none")
    /\ \/ NoFault /\ rows' = rows \cup {i}
       \/ Fault("db") /\ rows' \in {rows, rows \cup {i}}
    /\ UNCHANGED <<redis, activeSessions, usedRows, revokedRows, task, storing, lineage, held, ghosts>>

\* The row of the old token, twice; without it nothing is recorded.
RotateFind(i) ==
    /\ rotating[i] = "find"
    /\ \/ NoFault /\ parent[i] \in rows /\ Rotates(i, "mark") /\ UNCHANGED unrecorded
       \/ /\ NoFault /\ parent[i] \notin rows
          /\ Rotates(i, "none") /\ unrecorded' = unrecorded \cup {parent[i]}
       \/ Fault("db") /\ Rotates(i, "none") /\ unrecorded' = unrecorded \cup {parent[i]}
    /\ UNCHANGED <<redis, db, task, storing, lineage, held, granted, raced, detected, doomed>>

\* Mutant: the new row is inserted before the old one is marked.
RotateMarkLater(i) ==
    /\ rotating[i] = "mark" /\ Rotates(i, "none") /\ NoFault
    /\ rows' = rows \cup {i} /\ unrecorded' = unrecorded \cup {parent[i]}
    /\ UNCHANGED <<redis, activeSessions, usedRows, revokedRows, task, storing, lineage, held, granted, raced, detected, doomed>>

RotateMark(i) ==
    LET marked == usedRows \cup {parent[i]}
    IN  /\ rotating[i] = "mark"
        /\ \/ NoFault /\ usedRows' = marked /\ Rotates(i, "add") /\ UNCHANGED unrecorded
           \/ /\ Fault("db") /\ usedRows' \in {usedRows, marked}
              /\ Rotates(i, "none") /\ unrecorded' = unrecorded \cup {parent[i]}
        /\ UNCHANGED <<redis, activeSessions, rows, revokedRows, task, storing, lineage, held, granted, raced, detected, doomed>>

-----------------------------------------------------------------------------
(***************************************************************************)
(* verify_access_token, and revoke_all_user_tokens after a password reset  *)
(***************************************************************************)
\* A session key answers at once and leaves no trace; without one, the row.
VerifyStart(t, s) ==
    /\ "verify" \in Requests /\ task[t].pc = "idle" /\ s \in held /\ s \notin sessionKey
    /\ task' = [task EXCEPT ![t] = [pc |-> "find", tok |-> s, new |-> NoPair]]
    /\ NoFault
    /\ UNCHANGED <<redis, db, spawned, lineage, held, ghosts>>

\* Mutant: a session is taken from its row whether it is active or not.
VerifyFindAny(t) ==
    /\ task[t].pc = "find" /\ NoFault
    /\ IF task[t].tok \in activeSessions \cup doomed THEN Step(t, "fill") ELSE End(t)
    /\ UNCHANGED <<redis, db, spawned, lineage, held, ghosts>>

VerifyFind(t) ==
    /\ task[t].pc = "find"
    /\ \/ NoFault /\ IF task[t].tok \in activeSessions THEN Step(t, "fill") ELSE End(t)
       \/ Fault("db") /\ End(t)
    /\ UNCHANGED <<redis, db, spawned, lineage, held, ghosts>>

\* The key is set whatever happened to the row since; a failure is only logged.
VerifyFill(t) ==
    /\ task[t].pc = "fill"
    /\ \/ NoFault /\ sessionKey' = sessionKey \cup {task[t].tok}
       \/ Fault("redis") /\ sessionKey' \in {sessionKey, sessionKey \cup {task[t].tok}}
    /\ End(t)
    /\ UNCHANGED <<refreshKey, db, spawned, lineage, held, ghosts>>

\* One UPDATE of user_sessions, whose failure the handler ignores. Neither the
\* session keys nor the refresh tokens are touched.
ResetPassword ==
    /\ "reset" \in Requests /\ NoFault
    /\ activeSessions' = {} /\ doomed' = 1..minted
    /\ UNCHANGED <<redis, rows, usedRows, revokedRows, task, spawned, lineage, held, granted,
                   raced, unrecorded, detected>>

-----------------------------------------------------------------------------
(***************************************************************************)
(* Time and crashes                                                        *)
(***************************************************************************)
\* An hour, for a session key and for what find_by_token_hash returns.
SessionExpire(s) ==
    /\ "session" \in Expiring /\ s \in Aging
    /\ \/ s \in sessionKey /\ sessionKey' = sessionKey \ {s} /\ UNCHANGED activeSessions
       \/ s \in activeSessions /\ activeSessions' = activeSessions \ {s} /\ UNCHANGED sessionKey
    /\ NoFault
    /\ UNCHANGED <<refreshKey, rows, usedRows, revokedRows, task, spawned, lineage, held, ghosts>>

\* Sixty seconds for a used token, thirty days for a fresh one, whose row goes
\* on being accepted.
RefreshExpire(r) ==
    /\ "refresh" \in Expiring /\ r \in Aging /\ refreshKey[r] # "none"
    /\ refreshKey' = [refreshKey EXCEPT ![r] = "none"]
    /\ NoFault
    /\ UNCHANGED <<sessionKey, db, task, spawned, lineage, held, ghosts>>

Crash ==
    /\ Fault("crash")
    /\ task' = [t \in Tasks |-> Idle]
    /\ storing' = {} /\ rotating' = [i \in Pairs |-> "none"]
    /\ unrecorded' = unrecorded \cup {parent[i] : i \in {k \in Pairs : rotating[k] \in {"find", "mark"}}}
    /\ UNCHANGED <<redis, db, lineage, held, granted, raced, detected, doomed>>

LoginNext(t) == LoginSession(t) \/ LoginRefresh(t)
RefreshNext(t) == \/ RefreshLoad(t) \/ RefreshRevoke(t) \/ RefreshDelete(t)
                  \/ RefreshMark(t) \/ RefreshSetNew(t) \/ RefreshSetAccess(t)
VerifyNext(t) == VerifyFind(t) \/ VerifyFill(t)
TaskNext(t) == LoginNext(t) \/ RefreshNext(t) \/ VerifyNext(t)
RotateNext(i) == RotateFind(i) \/ RotateMark(i) \/ StoreRefresh(i)

Next ==
    \/ \E t \in Tasks : LoginStart(t) \/ TaskNext(t)
    \/ \E t \in Tasks, i \in Pairs : RefreshStart(t, i) \/ VerifyStart(t, i)
    \/ \E i \in Pairs : StoreSession(i) \/ RotateNext(i) \/ SessionExpire(i) \/ RefreshExpire(i)
    \/ ResetPassword \/ Crash

\* Requests and spawned tasks run.
Fairness == /\ \A t \in Tasks : WF_vars(TaskNext(t))
            /\ \A i \in Pairs : WF_vars(StoreSession(i)) /\ WF_vars(RotateNext(i))

Spec == Init /\ [][Next]_vars /\ Fairness

-----------------------------------------------------------------------------
(***************************************************************************)
(* Properties                                                              *)
(***************************************************************************)
Rotating(r) == \E i \in Pairs : parent[i] = r /\ rotating[i] \in {"find", "mark"}

\* A refresh token that was exchanged stays spent, by its mark in Redis or, when
\* that has expired, by its row; the only windows are a rotation still under way
\* and one that could not be recorded.
ExchangedIsSpent ==
    \A r \in Pairs : granted[r] > 0 =>
        refreshKey[r] = "used" \/ r \in usedRows \/ Rotating(r) \/ r \in unrecorded

\* So a refresh token is good for one pair, unless two requests read it before
\* one of them marked it, or its rotation went unrecorded.
ExchangedOnce == \A r \in Pairs : granted[r] > 1 => r \in raced \cup unrecorded

\* PostgreSQL is never ahead of Redis: no token with a used row is still fresh
\* in the cache that answers before it.
UsedIsNotFresh == \A r \in usedRows : refreshKey[r] # "fresh"

\* The chain of rotations has no gap: a token with a row came from one whose row
\* is used, so that presenting that one again is recognised as a theft.
ParentIsUsed == \A i \in rows : parent[i] # NoPair => parent[i] \in usedRows

\* A session that existed at a password reset and that neither the cache, its
\* row nor a task under way holds any more is over: no request revives it.
Over(s) == /\ s \in doomed /\ s \notin sessionKey \cup activeSessions \cup storing
           /\ \A t \in Tasks : task[t].new # s /\ ~(task[t].pc = "fill" /\ task[t].tok = s)
DoomedIsNotRevived == [][\A s \in Pairs : Over(s) => Over(s)']_vars

\* Every exchange reaches the table of refresh tokens, or its failure is known.
RotationEnds == \A r \in Pairs : granted[r] > 0 ~> r \in usedRows \cup unrecorded

\* What the answer "Token reuse detected - all tokens revoked" promises: no
\* refresh token of the family is good for anything. The code does not keep it.
Usable(r) == \/ refreshKey[r] = "fresh"
             \/ refreshKey[r] = "none" /\ r \in rows \ (usedRows \cup revokedRows)
TheftEndsFamily == \A r \in held : family[r] \in detected => ~Usable(r)

\* What reset_password means by "Revoke all existing sessions (force re-login)":
\* no refresh token from before it is good for anything. The code does not do it.
ResetForcesLogin == \A r \in held \cap doomed : ~Usable(r)
=============================================================================
