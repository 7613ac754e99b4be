----------------------------- MODULE UsageMetrics -----------------------------
(***************************************************************************)
(* The usage counters of API keys                                          *)
(* (src/vaultless-core/src/models/usage/usage.rs, restoration.rs,          *)
(* app_model/validate_quota.rs): the check of the monthly quota and of the *)
(* limit per minute, the increments of a key's hourly hash in Redis, and   *)
(* the background flusher of each server, which adds the hashes of past    *)
(* hours to PostgreSQL and deletes them. At a shutdown it flushes every    *)
(* hour, the current one included, while requests are still served.        *)
(*                                                                         *)
(* A step is what a request or a flusher does between two awaits, that is  *)
(* one Redis command, one MULTI or one transaction. HSET of the processing *)
(* flag and HGETALL are one step, as nothing depends on the flag but       *)
(* whether the hash exists. Sizes in bytes count as 1, SSCAN returns the   *)
(* set in one page, and a month does not end.                              *)
(***************************************************************************)
EXTENDS Integers, FiniteSets, Sequences

CONSTANTS
    Tasks,        \* requests served at once
    Flushers,     \* servers, each with its flusher
    Keys,         \* API keys
    Kinds,        \* the increments followed: names of FieldsOf
    Readable,     \* the granularities whose keys MetricKey::parse understands
    Quota,        \* monthly quota of each key
    PerMinute,    \* the limits per minute that requests see in the rows of each key
    TtlHours,     \* hours until a hash expires (metric_ttl_secs)
    MaxBatch,     \* keys flushed in one transaction
    MaxHour,      \* bound: the last hour
    MaxRequests,  \* bound on the requests served
    MaxFaults     \* bound on the failures and restorations

(***************************************************************************)
(* What each increment adds 1 to, in the order of its commands. Only a     *)
(* sent message counts for the month too.                                  *)
(***************************************************************************)
FieldsOf ==
    [sent     |-> <<"messages_sent", "total_bytes_sent">>,
     received |-> <<"messages_received", "total_bytes_received">>,
     proof    |-> <<"proofs_verified">>,
     limited  |-> <<"rate_limit_hits">>]

Fields == UNION {{FieldsOf[kind][i] : i \in DOMAIN FieldsOf[kind]} : kind \in Kinds}

\* Callers try these again when they fail (instant_message.rs, instant_message1.rs).
Retried == {"sent", "received"}

Hours == 0..MaxHour
Counts == [Fields -> Nat]
Zero == [f \in Fields |-> 0]

\* A hash of counters, metric:hash_hour:<key>:<hour>, by its key and hour.
Hashes == Keys \X Hours
KeyOf(id) == id[1]
HourOf(id) == id[2]

ASSUME TasksAssumption == IsFiniteSet(Tasks) /\ Tasks # {}
ASSUME KindsAssumption == Kinds \subseteq DOMAIN FieldsOf /\ "limited" \in Kinds
ASSUME ReadableAssumption == Readable \subseteq {"hour", "minute"}
ASSUME LimitsAssumption == Quota \in [Keys -> Nat] /\ PerMinute \in [Keys -> SUBSET Nat]
ASSUME BatchAssumption == MaxBatch \in Nat \ {0} /\ TtlHours \in Nat \ {0}
ASSUME BoundsAssumption == MaxHour \in Nat /\ MaxRequests \in Nat /\ MaxFaults \in Nat

VARIABLES
    now,       \* the hour
    month,     \* the monthly counter of each key
    tracked,   \* the set active_keys
    hash,      \* the counters of each hash; Zero when it has none
    marked,    \* the hashes with a processing flag
    due,       \* the hour in which a hash expires, Never without a TTL
    pg,        \* the rows of usage_metrics
    task,      \* what each request does
    fl,        \* what each flusher does
    \* history
    counted,   \* what the HINCRs of each hash added
    late,      \* hashes incremented between a flusher's HGETALL and its DEL
    gone,      \* hashes whose counts expired, were wiped or overwritten
    credited,  \* hashes still in Redis whose counts are in PostgreSQL
    reread,    \* hashes read again while credited, or held by another flusher
    begun,     \* requests so far
    faults     \* failures so far

redis == <<month, tracked, hash, marked, due>>
ghosts == <<counted, late, gone, credited, reread>>
vars == <<now, redis, pg, task, fl, ghosts, begun, faults>>

Never == -1
NoTask == [at |-> "none"]

Down == [at |-> "down", all |-> FALSE, todo |-> {}, batch |-> {},
         seen |-> [id \in Hashes |-> Zero], cur |-> {}]

Up == [Down EXCEPT !.at = "idle"]

TaskStates ==
    {NoTask} \cup [at : {"month", "track", "add", "expire"}, key : Keys, kind : Kinds,
                   hour : Hours, left : Seq(Fields)]

FlusherStates ==
    [at : {"down", "idle", "read", "commit", "untrack", "delete"}, all : BOOLEAN,
     todo : SUBSET Hashes, batch : SUBSET Hashes, seen : [Hashes -> Counts],
     cur : SUBSET Hashes]

(***************************************************************************)
(* Every variable has its type.                                            *)
(***************************************************************************)
TypeOK ==
    /\ now \in Hours
    /\ month \in [Keys -> Nat]
    /\ tracked \subseteq Hashes /\ marked \subseteq Hashes
    /\ hash \in [Hashes -> Counts] /\ pg \in [Hashes -> Counts]
    /\ due \in [Hashes -> {Never} \cup Nat]
    /\ task \in [Tasks -> TaskStates]
    /\ fl \in [Flushers -> FlusherStates]
    /\ counted \in [Hashes -> Counts]
    /\ late \subseteq Hashes /\ gone \subseteq Hashes
    /\ credited \subseteq Hashes /\ reread \subseteq Hashes
    /\ begun \in 0..MaxRequests /\ faults \in 0..MaxFaults

\* The month may have begun before the hours that are followed.
Init ==
    /\ now = 0
    /\ month \in [Keys -> UNION {0..Quota[k] : k \in Keys}]
    /\ \A k \in Keys : month[k] <= Quota[k]
    /\ tracked = {} /\ marked = {}
    /\ hash = [id \in Hashes |-> Zero] /\ pg = [id \in Hashes |-> Zero]
    /\ due = [id \in Hashes |-> Never]
    /\ task = [t \in Tasks |-> NoTask]
    /\ fl = [f \in Flushers |-> Up]
    /\ counted = [id \in Hashes |-> Zero]
    /\ late = {} /\ gone = {} /\ credited = {} /\ reread = {}
    /\ begun = 0 /\ faults = 0

Fault == faults < MaxFaults /\ faults' = faults + 1
NoFault == UNCHANGED faults

-------------------------------------------------------------------------------
(***************************************************************************)
(* The check of a request and its increments.                              *)
(***************************************************************************)
Job(k, kind) ==
    [at |-> IF kind = "sent" THEN "month" ELSE "track", key |-> k, kind |-> kind,
     hour |-> 0, left |-> <<>>]

\* The check reads the hash of the minute, which no increment writes.
MinuteCount == 0

\* The row may be a cached one: a request sees any limit that the key has had.
AdmittedAtQuota(k) ==   \* mutant: one too many
    month[k] <= Quota[k] /\ \E limit \in PerMinute[k] : MinuteCount < limit
Admitted(k) == month[k] < Quota[k] /\ \E limit \in PerMinute[k] : MinuteCount < limit
Limited(k) == month[k] < Quota[k] /\ \E limit \in PerMinute[k] : MinuteCount >= limit

Validate(t) ==
    /\ task[t] = NoTask /\ begun < MaxRequests
    /\ begun' = begun + 1
    /\ \E k \in Keys :
          \/ month[k] >= Quota[k] /\ UNCHANGED task
          \/ Limited(k) /\ task' = [task EXCEPT ![t] = Job(k, "limited")]
          \/ /\ Admitted(k)
             /\ \E kind \in Kinds \ {"limited"} : task' = [task EXCEPT ![t] = Job(k, kind)]
    /\ NoFault /\ UNCHANGED <<now, redis, pg, fl, ghosts>>

Goto(t, at) == NoFault /\ task' = [task EXCEPT ![t].at = at]

\* The increment ends with an error; its caller may try it again from the start.
Break(t) ==
    /\ Fault
    /\ \/ task' = [task EXCEPT ![t] = NoTask]
       \/ task[t].kind \in Retried /\ task' = [task EXCEPT ![t] = Job(@.key, @.kind)]

CountMonthDown(t) ==   \* mutant: counts down
    /\ task[t].at = "month" /\ Goto(t, "track")
    /\ month' = [month EXCEPT ![task[t].key] = @ - 1]
    /\ UNCHANGED <<now, tracked, hash, marked, due, pg, fl, ghosts, begun>>

CountMonth(t) ==
    LET up == [month EXCEPT ![task[t].key] = @ + 1] IN
    /\ task[t].at = "month"
    /\ \/ Goto(t, "track") /\ month' = up
       \/ Break(t) /\ month' \in {month, up}
    /\ UNCHANGED <<now, tracked, hash, marked, due, pg, fl, ghosts, begun>>

\* The hour is taken here, and stays whatever the clock does afterwards.
Track(t) ==
    LET more == tracked \cup {<<task[t].key, now>>} IN
    /\ task[t].at = "track"
    /\ \/ /\ NoFault /\ tracked' = more
          /\ task' = [task EXCEPT ![t].at = "add", ![t].hour = now,
                                  ![t].left = FieldsOf[task[t].kind]]
       \/ Break(t) /\ tracked' \in {tracked, more}
    /\ UNCHANGED <<now, month, hash, marked, due, pg, fl, ghosts, begun>>

Held(id) == \E f \in Flushers : id \in fl[f].batch

Id(t) == <<task[t].key, task[t].hour>>

Incremented(t) ==
    LET id == Id(t)  field == Head(task[t].left) IN
    /\ hash' = [hash EXCEPT ![id][field] = @ + 1]
    /\ counted' = [counted EXCEPT ![id][field] = @ + 1]
    /\ late' = IF Held(id) THEN late \cup {id} ELSE late

Add(t) ==
    /\ task[t].at = "add"
    /\ \/ /\ NoFault /\ Incremented(t)
          /\ task' = [task EXCEPT ![t].left = Tail(@),
                                  ![t].at = IF Len(task[t].left) = 1 THEN "expire" ELSE "add"]
       \/ Break(t) /\ (Incremented(t) \/ UNCHANGED <<hash, counted, late>>)
    /\ UNCHANGED <<now, month, tracked, marked, due, pg, fl, gone, credited, reread, begun>>

Exists(id) == hash[id] # Zero \/ id \in marked

ExpireSkipped(t) ==   \* mutant: the increment ends without its EXPIRE
    /\ task[t].at = "expire" /\ NoFault /\ task' = [task EXCEPT ![t] = NoTask]
    /\ UNCHANGED <<now, redis, pg, fl, ghosts, begun>>

\* EXPIRE, which a key that is gone ignores.
Expire(t) ==
    LET timed == IF Exists(Id(t)) THEN [due EXCEPT ![Id(t)] = now + TtlHours] ELSE due IN
    /\ task[t].at = "expire"
    /\ \/ NoFault /\ due' = timed /\ task' = [task EXCEPT ![t] = NoTask]
       \/ Break(t) /\ due' \in {due, timed}
    /\ UNCHANGED <<now, month, tracked, hash, marked, pg, fl, ghosts, begun>>

-------------------------------------------------------------------------------
(***************************************************************************)
(* The flusher of a server.                                                *)
(***************************************************************************)
Parses(id) == "hour" \in Readable

\* The hashes whose hour is over; at a shutdown, all of them.
Eligible(all) == {id \in tracked : Parses(id) /\ (all \/ HourOf(id) < now)}

After(f) == IF fl[f].all THEN Down ELSE Up

\* Takes the flags of the hashes away; a hash of nothing else goes with its flag.
RecoverOrphans(ids) ==
    /\ marked' = marked \ ids
    /\ due' = [id \in Hashes |-> IF hash[id] = Zero /\ id \notin marked' THEN Never ELSE due[id]]

\* After the recovery, SSCAN finds what to flush. A recovery that fails leaves
\* flags behind and the flush goes on; without SSCAN or a connection it ends.
Start(f, all) ==
    LET orphans == {id \in tracked : Parses(id)}
        scan == [fl EXCEPT ![f].at = "read", ![f].all = all, ![f].todo = Eligible(all)]
    IN
    /\ fl[f].at = "idle"
    /\ \/ NoFault /\ RecoverOrphans(orphans) /\ fl' = scan
       \/ /\ Fault /\ \E some \in SUBSET orphans : RecoverOrphans(some)
          /\ fl' = scan \/ fl' = [fl EXCEPT ![f] = IF all THEN Down ELSE Up]
    /\ UNCHANGED <<now, month, tracked, hash, pg, task, ghosts, begun>>

Tick(f) == Start(f, FALSE)
Shutdown(f) == Start(f, TRUE)

Taken(f, id) ==
    [fl[f] EXCEPT !.todo = @ \ {id}, !.batch = @ \cup {id}, !.seen[id] = hash[id],
                  !.at = IF Cardinality(fl[f].batch \cup {id}) >= MaxBatch
                           THEN "commit" ELSE "read"]

\* An error of HSET is not noticed, one of HGETALL or a timeout skips the key.
Read(f) ==
    /\ fl[f].at = "read"
    /\ \E id \in fl[f].todo :
          \/ /\ \/ NoFault /\ marked' = marked \cup {id}
                \/ Fault /\ UNCHANGED marked
             /\ fl' = [fl EXCEPT ![f] = Taken(f, id)]
             /\ reread' = IF hash[id] # Zero /\ (id \in credited \/ Held(id))
                            THEN reread \cup {id} ELSE reread
          \/ /\ Fault /\ marked' \in {marked, marked \cup {id}}
             /\ fl' = [fl EXCEPT ![f].todo = @ \ {id}]
             /\ UNCHANGED reread
    /\ UNCHANGED <<now, month, tracked, hash, due, pg, task, counted, late, gone, credited, begun>>

Credit(f) ==
    /\ pg' = [id \in Hashes |-> IF id \in fl[f].batch
                                  THEN [c \in Fields |-> pg[id][c] + fl[f].seen[id][c]]
                                  ELSE pg[id]]
    /\ credited' = credited \cup {id \in fl[f].batch : fl[f].seen[id] # Zero /\ hash[id] # Zero}

CommitBlindly(f) ==   \* mutant: deletes the keys though the transaction failed
    /\ fl[f].at \in {"read", "commit"} /\ fl[f].batch # {}
    /\ fl[f].at = "read" => fl[f].todo = {}
    /\ \/ NoFault /\ Credit(f)
       \/ Fault /\ UNCHANGED <<pg, credited>>
    /\ fl' = [fl EXCEPT ![f].at = "untrack"]
    /\ UNCHANGED <<now, redis, task, counted, late, gone, reread, begun>>

\* An error drops the batch, and ends the flush when it was the last one.
Commit(f) ==
    /\ fl[f].at \in {"read", "commit"} /\ fl[f].batch # {}
    /\ fl[f].at = "read" => fl[f].todo = {}
    /\ \/ NoFault /\ Credit(f) /\ fl' = [fl EXCEPT ![f].at = "untrack"]
       \/ /\ Fault /\ \E id \in fl[f].batch : fl[f].seen[id] # Zero
          /\ Credit(f) \/ UNCHANGED <<pg, credited>>
          /\ fl' = [fl EXCEPT ![f].at = "read", ![f].batch = {}, ![f].seen = Down.seen]
    /\ UNCHANGED <<now, redis, task, counted, late, gone, reread, begun>>

\* SREM of one key of the batch; its error is not noticed.
Untrack(f) ==
    /\ fl[f].at = "untrack"
    /\ \E id \in fl[f].batch :
          /\ fl' = [fl EXCEPT ![f].at = "delete", ![f].cur = {id}]
          /\ \/ NoFault /\ tracked' = tracked \ {id}
             \/ Fault /\ UNCHANGED tracked
    /\ UNCHANGED <<now, month, hash, marked, due, pg, task, ghosts, begun>>

Removed(ids) ==
    /\ hash' = [id \in Hashes |-> IF id \in ids THEN Zero ELSE hash[id]]
    /\ marked' = marked \ ids
    /\ due' = [id \in Hashes |-> IF id \in ids THEN Never ELSE due[id]]
    /\ credited' = credited \ ids

Drained(f) ==
    LET rest == fl[f].batch \ fl[f].cur IN
    [fl[f] EXCEPT !.at = IF rest = {} THEN "read" ELSE "untrack", !.batch = rest, !.cur = {},
                  !.seen = [id \in Hashes |-> IF id \in rest THEN fl[f].seen[id] ELSE Zero]]

DeleteKeepingBatch(f) ==   \* mutant: a flushed batch is not emptied
    /\ fl[f].at = "delete" /\ NoFault /\ Removed(fl[f].cur)
    /\ fl' = [fl EXCEPT ![f].at = "read", ![f].cur = {}]
    /\ UNCHANGED <<now, month, tracked, pg, task, counted, late, gone, reread, begun>>

\* DEL of the same key; its error is not noticed either.
Delete(f) ==
    /\ fl[f].at = "delete"
    /\ fl' = [fl EXCEPT ![f] = Drained(f)]
    /\ \/ NoFault /\ Removed(fl[f].cur)
       \/ Fault /\ UNCHANGED <<hash, marked, due, credited>>
    /\ UNCHANGED <<now, month, tracked, pg, task, counted, late, gone, reread, begun>>

Return(f) ==
    /\ fl[f].at = "read" /\ fl[f].todo = {} /\ fl[f].batch = {}
    /\ fl' = [fl EXCEPT ![f] = After(f)]
    /\ NoFault /\ UNCHANGED <<now, redis, pg, task, ghosts, begun>>

Restart(f) ==
    /\ fl[f].at = "down" /\ fl' = [fl EXCEPT ![f] = Up]
    /\ NoFault /\ UNCHANGED <<now, redis, pg, task, ghosts, begun>>

-------------------------------------------------------------------------------
(***************************************************************************)
(* restore_recent_or_missing_periods_from_pg, an operation no code calls:  *)
(* with an empty set it copies the rows of the last 48 * 3600 hours to     *)
(* Redis, otherwise the rows of a key newer than its last tracked hour.    *)
(***************************************************************************)
Missing ==
    {id \in Hashes :
        /\ pg[id] # Zero
        /\ \/ tracked = {}
           \/ /\ \E other \in tracked : Parses(other) /\ KeyOf(other) = KeyOf(id)
              /\ \A other \in tracked :
                    Parses(other) /\ KeyOf(other) = KeyOf(id) => HourOf(other) < HourOf(id)}

Restore ==
    /\ Missing # {}
    /\ hash' = [id \in Hashes |-> IF id \in Missing THEN pg[id] ELSE hash[id]]
    /\ tracked' = tracked \cup Missing
    /\ due' = [id \in Hashes |-> IF id \in Missing THEN now + 48 ELSE due[id]]
    /\ credited' = credited \cup Missing
    /\ gone' = gone \cup {id \in Missing : hash[id] # Zero \/ Held(id)}
    /\ Fault
    /\ UNCHANGED <<now, month, marked, pg, task, fl, counted, late, reread, begun>>

-------------------------------------------------------------------------------
(***************************************************************************)
(* The environment.                                                        *)
(***************************************************************************)
HourEnds ==
    /\ now < MaxHour /\ now' = now + 1
    /\ NoFault /\ UNCHANGED <<redis, pg, task, fl, ghosts, begun>>

Vanish(ids) == Removed(ids) /\ gone' = gone \cup {id \in ids : hash[id] # Zero}

Expires(id) ==
    /\ due[id] # Never /\ due[id] <= now /\ Vanish({id})
    /\ NoFault /\ UNCHANGED <<now, month, tracked, pg, task, fl, counted, late, reread, begun>>

\* Redis restarts empty.
Wipe ==
    /\ Fault /\ Vanish(Hashes) /\ tracked' = {} /\ month' = [k \in Keys |-> 0]
    /\ UNCHANGED <<now, pg, task, fl, counted, late, reread, begun>>

Crash(f) ==
    /\ Fault /\ fl[f].at # "down" /\ fl' = [fl EXCEPT ![f] = Down]
    /\ UNCHANGED <<now, redis, pg, task, ghosts, begun>>

CrashTask(t) ==
    /\ Fault /\ task[t] # NoTask /\ task' = [task EXCEPT ![t] = NoTask]
    /\ UNCHANGED <<now, redis, pg, fl, ghosts, begun>>

Increment(t) == CountMonth(t) \/ Track(t) \/ Add(t) \/ Expire(t)
Flush(f) == Read(f) \/ Commit(f) \/ Untrack(f) \/ Delete(f) \/ Return(f)

Next ==
    \/ \E t \in Tasks : Validate(t) \/ Increment(t) \/ CrashTask(t)
    \/ \E f \in Flushers : Tick(f) \/ Shutdown(f) \/ Flush(f) \/ Restart(f) \/ Crash(f)
    \/ \E id \in Hashes : Expires(id)
    \/ Restore \/ HourEnds \/ Wipe

(***************************************************************************)
(* A runtime runs its tasks, the interval of a flusher elapses, a server   *)
(* that went down comes back. Nothing makes requests come, an hour end or  *)
(* anything fail.                                                          *)
(***************************************************************************)
Fairness ==
    /\ \A t \in Tasks : WF_vars(Increment(t))
    /\ \A f \in Flushers : WF_vars(Tick(f)) /\ WF_vars(Flush(f)) /\ WF_vars(Restart(f))

Spec == Init /\ [][Next]_vars /\ Fairness

-------------------------------------------------------------------------------
(***************************************************************************)
(* What the increments of a hash added is in PostgreSQL or still in Redis, *)
(* unless a flusher deleted what came after it had read, or Redis let it   *)
(* go: a failed transaction, a failed command, a crash or a second flusher *)
(* loses nothing (flush_batch_to_pg deletes after the commit).             *)
(***************************************************************************)
NothingLost ==
    \A id \in Hashes \ (late \cup gone) :
       \A c \in Fields : counted[id][c] <= pg[id][c] + hash[id][c]

(***************************************************************************)
(* PostgreSQL never has more than was counted, unless a hash was read      *)
(* while another flusher held it, or after it had been credited and not    *)
(* deleted: no other order of reads, commits and deletes counts twice.     *)
(***************************************************************************)
NothingDoubled ==
    \A id \in Hashes \ reread : \A c \in Fields : pg[id][c] <= counted[id][c]

(***************************************************************************)
(* The quota is read before a message is sent and counted after it, so     *)
(* that requests served together overshoot it: by one for each other       *)
(* request, and one for each failure that made an increment run again.     *)
(***************************************************************************)
QuotaHolds ==
    \A k \in Keys : Quota[k] > 0 => month[k] < Quota[k] + Cardinality(Tasks) + faults

(***************************************************************************)
(* Unless something failed, a hash without a TTL is not forgotten: the set *)
(* knows it, a flusher has it to delete, or its increment is to time it.   *)
(***************************************************************************)
UntimedIsKnown ==
    \A id \in Hashes :
       Exists(id) /\ due[id] = Never /\ faults = 0 =>
          \/ id \in tracked \/ Held(id)
          \/ \E t \in Tasks : task[t].at \in {"add", "expire"} /\ Id(t) = id

(***************************************************************************)
(* "Periodic flushing of API usage metrics into Postgres" (usage.rs:3):    *)
(* the hash of an hour that is over leaves the set of what is to be        *)
(* flushed. No key that MetricKey::new writes is read by MetricKey::parse, *)
(* so with Readable as the code has it, empty, nothing is ever flushed.    *)
(***************************************************************************)
HoursAreFlushed ==
    \A id \in Hashes : (id \in tracked /\ HourOf(id) < now) ~> id \notin tracked

(***************************************************************************)
(* "Idempotent processing with exactly-once semantics" (usage.rs:13): once *)
(* nothing of a hash is in Redis or under way, PostgreSQL has what was     *)
(* counted.                                                                *)
(***************************************************************************)
ExactlyOnce ==
    \A id \in Hashes :
       (id \notin tracked /\ ~Exists(id) /\ ~Held(id)) => pg[id] = counted[id]

===============================================================================
