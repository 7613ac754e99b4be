----------------------------- MODULE Applications -----------------------------
(***************************************************************************)
(* A developer's application: its row, the answers that app_auth gives to  *)
(* requests with one of its two keys, the cache of those answers, and the  *)
(* materialised view that the developer's pages read                       *)
(* (src/vaultless-core/src/models/app_model: application.rs, update.rs,    *)
(* resolve.rs, invalidate_cache.rs, material_view_helper.rs).              *)
(*                                                                         *)
(* A step is one query, one command to Redis or one start of a task; each  *)
(* may fail, and the server may crash with what it has spawned. An         *)
(* operation of the developer and the task it spawns are one process.      *)
(* The row is its version and whether it is active. Rows are taken to be   *)
(* read, and updates to be accepted, as the code expects; the README lists *)
(* where it is otherwise. Quotas and limits are in UsageMetrics.           *)
(***************************************************************************)
EXTENDS Integers, FiniteSets

CONSTANTS
    Requests,     \* requests that show a key
    Operations,   \* operations of the developer under way at once
    Ttl,          \* hours an answer is cached (SETEX 3600)
    MaxVersion,   \* bound: versions of the row
    MaxHour,      \* bound: the last hour
    MaxCrashes,   \* bound: crashes of the server
    None

Kinds == {"pk", "sk"}   \* the publishable and the secret key
States == {"absent", "active", "inactive"}
Versions == 0..MaxVersion
Hours == 0..MaxHour
Rows == [n : Versions, state : States]
Entries == [row : Rows, at : Hours, late : BOOLEAN]

ASSUME ConstantsAssumption ==
    /\ Ttl \in Nat \ {0} /\ MaxVersion \in Nat /\ MaxHour \in Nat /\ MaxCrashes \in Nat
    /\ None \notin Entries /\ None \notin Rows /\ None \notin Nat

VARIABLES
    now,        \* the hour
    row,        \* the application in PostgreSQL, with its keys
    cache,      \* the cached answer for each key; late: filled with a row replaced by then
    req,        \* what each request does
    op,         \* what each operation does
    view,       \* the row in mv_applications_with_usage
    debounced,  \* the debounced refresh: "off", "sleep" before it and "mark" after it
    plain,      \* a refresh that no flag guards is to come
    crashes,
    \* history
    ended,      \* the hour each version of the row was replaced
    missed,     \* keys whose invalidation failed or was lost
    lapsed      \* since the last good refresh one failed, was lost or was dropped, or a change
                \* was stored that ended in an error and asked for none

vars == <<now, row, cache, req, op, view, debounced, plain, crashes, ended, missed, lapsed>>

Idle == [at |-> "idle"]
Steps == {"get", "select", "fill", "validate"}
Verdicts == {"ok", "forbidden", "not found", "error"}

RequestStates ==
    {Idle} \cup [at : Steps, kind : Kinds, row : Rows \cup {None}]
           \cup [at : Verdicts, row : Rows \cup {None}]

OperationStates == {Idle} \cup [at : {"trigger", "keys", "delete"}, left : SUBSET Kinds]

\* The states in which a key finds the application.
Findable(k) == IF k = "sk" THEN {"active"} ELSE {"active", "inactive"}

TypeOK ==
    /\ now \in Hours /\ row \in Rows
    /\ cache \in [Kinds -> Entries \cup {None}]
    /\ \A k \in Kinds : cache[k] # None => cache[k].row.state \in Findable(k)
    /\ req \in [Requests -> RequestStates] /\ op \in [Operations -> OperationStates]
    /\ view \in Rows /\ debounced \in {"off", "sleep", "mark"}
    /\ plain \in BOOLEAN /\ crashes \in 0..MaxCrashes
    /\ ended \in [0..(row.n - 1) -> Hours]
    /\ missed \subseteq Kinds /\ lapsed \in BOOLEAN

Absent == [n |-> 0, state |-> "absent"]

Init ==
    /\ now = 0 /\ row = Absent
    /\ cache = [k \in Kinds |-> None]
    /\ req = [r \in Requests |-> Idle] /\ op = [o \in Operations |-> Idle]
    /\ view = Absent /\ debounced = "off" /\ plain = FALSE /\ crashes = 0
    /\ ended = <<>> /\ missed = {} /\ lapsed = FALSE

(***************************************************************************)
(* A request with a key: resolve_and_validate.                             *)
(***************************************************************************)
developer == <<row, op, view, debounced, plain, crashes, ended, lapsed>>

Busy(r) == req[r].at \in Steps
Fresh(k) == [at |-> "get", kind |-> k, row |-> None]
End(r, v, seen) == req' = [req EXCEPT ![r] = [at |-> v, row |-> seen]]

\* A request that is done is followed by one that begins.
Begin(r) ==
    /\ ~Busy(r)
    /\ \E k \in Kinds : req' = [req EXCEPT ![r] = Fresh(k)]
    /\ UNCHANGED <<now, cache, missed>> /\ UNCHANGED developer

GetHit(r) ==
    /\ req[r].at = "get" /\ cache[req[r].kind] # None
    /\ req' = [req EXCEPT ![r].at = "validate", ![r].row = cache[req[r].kind].row]
    /\ UNCHANGED <<now, cache, missed>> /\ UNCHANGED developer

\* A failure of Redis is taken as a miss.
GetMiss(r) ==
    /\ req[r].at = "get" /\ req' = [req EXCEPT ![r].at = "select"]
    /\ UNCHANGED <<now, cache, missed>> /\ UNCHANGED developer

\* The secret key finds active applications only, the publishable key inactive ones too.
FoundEither(k) == row.state # "absent"   \* mutant: the secret key finds inactive applications too
Found(k) == row.state \in Findable(k)

Select(r) ==
    /\ req[r].at = "select"
    /\ \/ Found(req[r].kind) /\ req' = [req EXCEPT ![r].at = "fill", ![r].row = row]
       \/ ~Found(req[r].kind) /\ End(r, "not found", row)
       \/ End(r, "error", None)
    /\ UNCHANGED <<now, cache, missed>> /\ UNCHANGED developer

\* SETEX replaces what is there; its failure is ignored.
Fill(r) ==
    /\ req[r].at = "fill" /\ req' = [req EXCEPT ![r].at = "validate"]
    /\ LET k == req[r].kind IN
       \/ /\ cache' = [cache EXCEPT ![k] = [row |-> req[r].row, at |-> now, late |-> req[r].row # row]]
          /\ missed' = missed \ {k}
       \/ UNCHANGED <<cache, missed>>
    /\ UNCHANGED now /\ UNCHANGED developer

\* validate_hot: an inactive application is refused before Redis is asked.
Validate(r) ==
    /\ req[r].at = "validate"
    /\ \/ req[r].row.state = "inactive" /\ End(r, "forbidden", req[r].row)
       \/ req[r].row.state # "inactive" /\ End(r, "ok", req[r].row)
       \/ req[r].row.state # "inactive" /\ End(r, "error", None)
    /\ UNCHANGED <<now, cache, missed>> /\ UNCHANGED developer

(***************************************************************************)
(* Operations of the developer. Each begins with the transaction that      *)
(* changes the row; what is refused before it changes nothing and is not a *)
(* step. An update of the integrity configuration is checked after it.     *)
(***************************************************************************)
serving == <<now, req, crashes>>

Change(state) ==
    /\ row.n < MaxVersion
    /\ row' = [n |-> row.n + 1, state |-> state]
    /\ ended' = [v \in 0..row.n |-> IF v = row.n THEN now ELSE ended[v]]

Proceed(o, at) == op' = [op EXCEPT ![o] = [at |-> at, left |-> Kinds]]

Free(o) == op[o] = Idle

\* When the answer of the COMMIT is lost, the application is stored and no refresh is to come.
Create(o) ==
    /\ Free(o) /\ row.state = "absent" /\ Change("active")
    /\ \/ plain' = TRUE /\ UNCHANGED lapsed
       \/ lapsed' = TRUE /\ UNCHANGED plain
    /\ UNCHANGED serving /\ UNCHANGED <<op, cache, view, debounced, missed>>

Update(o) ==
    /\ Free(o) /\ row.state # "absent"
    /\ \E state \in {"active", "inactive"} : Change(state)
    /\ Proceed(o, "trigger")
    /\ UNCHANGED serving /\ UNCHANGED <<cache, view, debounced, plain, missed, lapsed>>

\* A change of which only an error is heard: validate_app_meta refuses what
\* is stored by now, or PostgreSQL's answer is lost. Nothing is invalidated.
ChangeUnannounced(o) ==
    /\ Free(o) /\ row.state # "absent"
    /\ \E state \in {"active", "inactive"} : Change(state)
    /\ missed' = Kinds /\ lapsed' = TRUE
    /\ UNCHANGED serving /\ UNCHANGED <<op, cache, view, debounced, plain>>

DeactivateUntriggered(o) ==   \* mutant: the view is not refreshed
    /\ Free(o) /\ row.state # "absent" /\ Change("inactive")
    /\ Proceed(o, "keys")
    /\ UNCHANGED serving /\ UNCHANGED <<cache, view, debounced, plain, missed, lapsed>>

Deactivate(o) ==
    /\ Free(o) /\ row.state # "absent" /\ Change("inactive")
    /\ Proceed(o, "trigger")
    /\ UNCHANGED serving /\ UNCHANGED <<cache, view, debounced, plain, missed, lapsed>>

\* trigger_view_refresh_debounced: while the flag is set the trigger is dropped.
Trigger(o) ==
    /\ op[o].at = "trigger" /\ Proceed(o, "keys")
    /\ debounced' = IF debounced = "off" THEN "sleep" ELSE debounced
    /\ lapsed' = (lapsed \/ debounced = "mark")
    /\ UNCHANGED serving /\ UNCHANGED <<row, cache, view, plain, ended, missed>>

\* invalidate_auth_cache: SELECT of the keys, then one DEL for each.
ReadPublishable(o) ==   \* mutant: only the publishable key is read
    /\ op[o].at = "keys" /\ op' = [op EXCEPT ![o] = [at |-> "delete", left |-> {"pk"}]]
    /\ UNCHANGED serving /\ UNCHANGED <<row, cache, view, debounced, plain, ended, missed, lapsed>>

ReadKeys(o) ==
    /\ op[o].at = "keys" /\ Proceed(o, "delete")
    /\ UNCHANGED serving /\ UNCHANGED <<row, cache, view, debounced, plain, ended, missed, lapsed>>

Delete(o) ==
    /\ op[o].at = "delete"
    /\ \E k \in op[o].left :
          /\ cache' = [cache EXCEPT ![k] = None] /\ missed' = missed \ {k}
          /\ op' = [op EXCEPT ![o] = IF op[o].left = {k} THEN Idle ELSE [op[o] EXCEPT !.left = @ \ {k}]]
    /\ UNCHANGED serving /\ UNCHANGED <<row, view, debounced, plain, ended, lapsed>>

\* A failed query or command leaves the rest of the entries.
GiveUp(o) ==
    /\ op[o].at \in {"keys", "delete"}
    /\ missed' = missed \cup op[o].left /\ op' = [op EXCEPT ![o] = Idle]
    /\ UNCHANGED serving /\ UNCHANGED <<row, cache, view, debounced, plain, ended, lapsed>>

(***************************************************************************)
(* The refreshes. The flag is released after the refresh and its ETag.     *)
(***************************************************************************)
auth == <<now, row, cache, req, op, crashes, ended, missed>>

\* The view is the row of the moment, or the refresh fails.
Refreshed == \/ view' = row /\ lapsed' = FALSE
             \/ lapsed' = TRUE /\ UNCHANGED view

RefreshDebounced ==
    /\ debounced = "sleep" /\ debounced' = "mark" /\ Refreshed
    /\ UNCHANGED auth /\ UNCHANGED plain

Release ==
    /\ debounced = "mark" /\ debounced' = "off"
    /\ UNCHANGED auth /\ UNCHANGED <<view, plain, lapsed>>

RefreshPlain ==
    /\ plain /\ plain' = FALSE /\ Refreshed
    /\ UNCHANGED auth /\ UNCHANGED debounced

(***************************************************************************)
(* Time and crashes. A request is placed in the hour it begins in, being   *)
(* far shorter, and Redis drops a key as soon as its time is over.         *)
(***************************************************************************)
Expire(k) ==
    /\ cache[k] # None /\ now - cache[k].at >= Ttl
    /\ cache' = [cache EXCEPT ![k] = None] /\ missed' = missed \ {k}
    /\ UNCHANGED <<now, req>> /\ UNCHANGED developer

OverdueNever(k) == cache[k].at > now   \* mutant: the entries are stored without a time to live
Overdue(k) == now - cache[k].at >= Ttl

HourEnds ==
    /\ now < MaxHour /\ now' = now + 1
    /\ \A r \in Requests : ~Busy(r)
    /\ \A k \in {j \in Kinds : cache[j] # None} : ~Overdue(k)
    /\ UNCHANGED <<cache, req, missed>> /\ UNCHANGED developer

Pending(o, k) == op[o].at \in {"trigger", "keys", "delete"} /\ k \in op[o].left

Crash ==
    /\ crashes < MaxCrashes /\ crashes' = crashes + 1
    /\ req' = [r \in Requests |-> Idle] /\ op' = [o \in Operations |-> Idle]
    /\ debounced' = "off" /\ plain' = FALSE
    /\ missed' = missed \cup {k \in Kinds : \E o \in Operations : Pending(o, k)}
    /\ lapsed' = TRUE
    /\ UNCHANGED <<now, row, cache, view, ended>>

Resolve(r) == GetHit(r) \/ GetMiss(r) \/ Select(r) \/ Fill(r) \/ Validate(r)
Operate(o) ==
    \/ Create(o) \/ Update(o) \/ ChangeUnannounced(o) \/ Deactivate(o)
    \/ Trigger(o) \/ ReadKeys(o) \/ Delete(o) \/ GiveUp(o)

Next ==
    \/ \E r \in Requests : Begin(r) \/ Resolve(r)
    \/ \E o \in Operations : Operate(o)
    \/ RefreshDebounced \/ Release \/ RefreshPlain
    \/ \E k \in Kinds : Expire(k)
    \/ HourEnds \/ Crash

Spec == Init /\ [][Next]_vars

-------------------------------------------------------------------------------
(***************************************************************************)
(* Properties.                                                             *)
(***************************************************************************)

(***************************************************************************)
(* A cached answer is behind the row only in one of four cases: the        *)
(* invalidation of its key is still to come, it failed or was lost with    *)
(* the server, the change ended in an error after it was stored, or it     *)
(* was read before the change and cached after it.                         *)
(***************************************************************************)
StaleOnlyIfMissed ==
    \A k \in Kinds : cache[k] # None /\ cache[k].row # row =>
        \/ \E o \in Operations : Pending(o, k)
        \/ k \in missed \/ cache[k].late

(***************************************************************************)
(* The materialised view is behind the row only while a refresh or its     *)
(* trigger is to come, or after one failed, was lost, or was dropped when  *)
(* the running refresh had read the rows already, or after a change that   *)
(* was stored but ended in an error. A trigger that is dropped before the  *)
(* refresh reads is harmless: the refresh to come sees its change.         *)
(***************************************************************************)
ViewBehindOnlyIfLapsed ==
    view # row =>
        \/ debounced = "sleep" \/ plain \/ lapsed
        \/ \E o \in Operations : op[o].at = "trigger"

\* The answers in the terms of the abstract cache.
Answered(r) == IF req[r].at \in Verdicts \ {"error"} THEN req[r].row.n ELSE None

Answers == INSTANCE BoundedStaleness
               WITH Readers <- Requests, Slack <- Ttl, NoAnswer <- None, hour <- now,
                    version <- row.n, answer <- [r \in Requests |-> Answered(r)]

(***************************************************************************)
(* Every answer, whatever its verdict, is the application as it was at     *)
(* most the cache's time to live ago, though invalidations fail, are lost  *)
(* in a crash, or overtake the answer that is about to be cached.          *)
(***************************************************************************)
AnswersAreRecent == Answers!Spec
===============================================================================
