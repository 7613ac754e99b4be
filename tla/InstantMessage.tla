--------------------------- MODULE InstantMessage ---------------------------
(***************************************************************************)
(* The peer-to-peer message service of vaultless-core                      *)
(* (src/vaultless-core/src/models/message): sending, the write-behind      *)
(* flusher, fetching an inbox, the background deleter, the inbox rebuild   *)
(* and read receipts, over one Redis and one PostgreSQL.                   *)
(*                                                                         *)
(* A step is what one task does between two awaits: one Redis command or   *)
(* pipeline, one SQL statement, or one operation on an in-process channel. *)
(* Message m is the m-th message created, so that created_at orders        *)
(* messages as their ids do.                                               *)
(***************************************************************************)
EXTENDS Integers, Sequences, FiniteSets

CONSTANTS
    NumMsgs,              \* number of calls of send_instant_message
    Clients,              \* the clients of the service
    Readers,              \* the clients that mark messages read on their own
    Handlers,             \* concurrent requests that fetch an inbox or mark a message read
    Rcpt,                 \* Rcpt[m]: the recipient of message m
    BadProof,             \* messages that require a proof whose signature does not verify
    NoClient,             \* "no pending read"
    MaxQueueLen,          \* MAX_QUEUE_LEN
    MaxInboxFetch,        \* MAX_INBOX_FETCH
    PageSize,             \* PAGE_SIZE of rebuild_inbox_paginated
    ChannelBuffer,        \* CHANNEL_BUFFER
    MaxBatchSize,         \* MAX_BATCH_SIZE
    DeleteChannelBuffer,  \* DELETE_CHANNEL_BUFFER
    MaxDeleteBatch,       \* MAX_DELETE_BATCH
    Faults,               \* the kinds of failure that may happen
    MetricsRetries,       \* attempts at a usage increment
    LuaUnpackMax,         \* most values Redis's Lua can unpack into one call (external)
    MaxFaults             \* bound on the kinds of failure in one behaviour

Msgs == 1..NumMsgs

(***************************************************************************)
(* redis: a command or a pool checkout fails; db: a statement, a begin or  *)
(* a commit fails; metrics: attempts at a usage increment fail; timeout:   *)
(* the 5 s wait of an emergency write ends first; expiry: a TTL ends while *)
(* its key is in use; crash: the process dies and restarts.                *)
(* A command or statement that fails may have been carried out all the     *)
(* same: its answer was lost.                                              *)
(***************************************************************************)
FaultKinds == {"redis", "db", "metrics", "timeout", "expiry", "crash"}

ASSUME NumMsgsAssumption == NumMsgs \in Nat
ASSUME RcptAssumption == Rcpt \in [Msgs -> Clients]
ASSUME ReadersAssumption == Readers \subseteq Clients
ASSUME NoClientAssumption == NoClient \notin Clients
ASSUME BoundsAssumption ==
    /\ MaxQueueLen \in Nat /\ ChannelBuffer \in Nat /\ DeleteChannelBuffer \in Nat
    /\ MaxInboxFetch \in Nat \ {0} /\ PageSize \in Nat \ {0}
    /\ MaxBatchSize \in Nat \ {0} /\ MaxDeleteBatch \in Nat \ {0}
    /\ MetricsRetries \in Nat \ {0} /\ LuaUnpackMax \in Nat /\ MaxFaults \in Nat
ASSUME FaultsAssumption == Faults \subseteq FaultKinds

VARIABLES
    \* Redis
    cache,         \* messages with a live instant_message:message key
    inbox,         \* the instant_message:inbox list of each client
    inboxTtl,      \* the clients whose inbox key has an expiry
    counted,       \* messages with a delivered_counted flag
    pendingRead,   \* the reader in the pending_read key of each message
    rebuildLock,   \* the clients whose rebuild_lock key is set
    \* PostgreSQL
    rows,          \* messages with a row in table messages
    receipts,      \* rows of table p2p_read_receipts
    \* the process
    snd,           \* where the send of each message is
    emerg,         \* emergency writes under way
    fl,            \* the flusher: its channel, buffer, batch being flushed and step
    dl,            \* the deleter: the same
    directDel,     \* immediate deletes spawned when the delete channel is full
    h,             \* the request each handler serves
    \* history
    sentBilled,    \* how often the sent metrics of each message were incremented
    recvBilled,    \* how often the received metrics of each message were incremented
    handed,        \* messages a fetch took for delivery and queued for deletion
    returned,      \* messages some fetch returned to its client
    failed         \* the kinds of failure so far

redis == <<cache, inbox, inboxTtl, counted, pendingRead, rebuildLock>>
db == <<rows, receipts>>
process == <<snd, emerg, fl, dl, directDel, h>>
history == <<sentBilled, recvBilled, handed, returned>>
vars == <<redis, db, process, history, failed>>

InSeq(m, s) == \E i \in DOMAIN s : s[i] = m
Elems(s) == {s[i] : i \in DOMAIN s}

\* The elements of a finite set S of numbers in increasing order, and the part
\* of a sequence s at the positions K. Each is stated as the set that holds that
\* one sequence and is used under \E, so that its type needs no induction.
Ascending(S) == {x \in [1..Cardinality(S) -> S] : \A i, j \in DOMAIN x : i < j => x[i] < x[j]}
SubSeqAt(s, K) == {[i \in DOMAIN x |-> s[x[i]]] : x \in Ascending(K)}

(***************************************************************************)
(* Types                                                                   *)
(***************************************************************************)
\* "lost" is a send cut off by a crash: its caller never gets an answer.
SendStates == {"new", "count", "metrics", "cache", "push", "trim", "queue", "emerg",
               "ok", "rejected", "errMetrics", "err", "lost"}
HandlerStates == {"idle", "len", "lock", "check", "page", "push", "expire", "unlock",
                  "range", "mget", "hits", "misses", "mark"}
HitStates == {"count", "bill", "done", "none"}
MarkStates == {"no", "check", "set"}

Worker == [pc : {"idle", "first", "second", "third"},
           chan : Seq(Msgs), buf : Seq(Msgs), batch : Seq(Msgs)]
Handler == [pc : HandlerStates, cl : Clients \cup {NoClient},
            off : Nat, added : Nat, page : Seq(Msgs),
            ids : Seq(Msgs), hits : Seq(Msgs), st : Seq(HitStates),
            misses : Seq(Msgs), got : SUBSET Msgs, mk : [Msgs -> MarkStates]]

\* The type invariant: what the Redis keys, the tables, the channels and the
\* locals of every handler hold.
TypeOK ==
    /\ cache \subseteq Msgs
    /\ inbox \in [Clients -> Seq(Msgs)]
    /\ inboxTtl \subseteq Clients
    /\ counted \subseteq Msgs
    /\ pendingRead \in [Msgs -> Clients \cup {NoClient}]
    /\ rebuildLock \subseteq Clients
    /\ rows \subseteq Msgs
    /\ receipts \subseteq rows \X Clients
    /\ snd \in [Msgs -> SendStates]
    /\ emerg \subseteq Msgs
    /\ fl \in Worker
    /\ dl \in Worker
    /\ directDel \subseteq Msgs
    /\ h \in [Handlers -> Handler]
    /\ \A f \in Handlers : Len(h[f].st) = Len(h[f].hits)
    /\ sentBilled \in [Msgs -> Nat]
    /\ recvBilled \in [Msgs -> Nat]
    /\ handed \subseteq Msgs
    /\ returned \subseteq Msgs
    /\ failed \subseteq FaultKinds

IdleWorker == [pc |-> "idle", chan |-> <<>>, buf |-> <<>>, batch |-> <<>>]
IdleHandler == [pc |-> "idle", cl |-> NoClient, off |-> 0, added |-> 0, page |-> <<>>,
                ids |-> <<>>, hits |-> <<>>, st |-> <<>>, misses |-> <<>>, got |-> {},
                mk |-> [m \in Msgs |-> "no"]]

Init ==
    /\ cache = {} /\ inbox = [c \in Clients |-> <<>>] /\ inboxTtl = {}
    /\ counted = {} /\ pendingRead = [m \in Msgs |-> NoClient] /\ rebuildLock = {}
    /\ rows = {} /\ receipts = {}
    /\ snd = [m \in Msgs |-> "new"] /\ emerg = {}
    /\ fl = IdleWorker /\ dl = IdleWorker /\ directDel = {}
    /\ h = [f \in Handlers |-> IdleHandler]
    /\ sentBilled = [m \in Msgs |-> 0] /\ recvBilled = [m \in Msgs |-> 0]
    /\ handed = {} /\ returned = {}
    /\ failed = {}

\* A failure: in one behaviour each kind happens at most once, and at most
\* MaxFaults kinds do.
Fault(kind) == /\ kind \in Faults \ failed
               /\ Cardinality(failed) < MaxFaults
               /\ failed' = failed \cup {kind}
NoFault == UNCHANGED failed

-----------------------------------------------------------------------------
(***************************************************************************)
(* send_instant_message(m)                                                 *)
(***************************************************************************)
Goto(m, s) == snd' = [snd EXCEPT ![m] = s]

\* verify_envelope_soft: the signature is checked only when the message
\* requires a proof; the stored envelope never changes, so a check made again
\* at fetch time gives the same answer.
VerifyEnvelopeSoft(m) == m \notin BadProof

\* The id is minted (in creation order) and the envelope verified before any
\* state changes.
SendVerify(m) ==
    /\ snd[m] = "new"
    /\ \A k \in Msgs : k < m => snd[k] # "new"
    /\ Goto(m, IF VerifyEnvelopeSoft(m) THEN "count" ELSE "rejected")
    /\ NoFault /\ UNCHANGED <<redis, db, emerg, fl, dl, directDel, h, history>>

\* Mutant: the message is cached before its metrics are certain.
SendCountCachesFirst(m) ==
    /\ snd[m] = "count"
    /\ NoFault /\ Goto(m, "metrics") /\ cache' = cache \cup {m}
    /\ UNCHANGED <<inbox, inboxTtl, counted, pendingRead, rebuildLock, db, emerg, fl, dl,
                   directDel, h, history>>

\* A Redis connection, without which the send fails, and SET sent_counted NX EX.
\* The id is new, so the key is never there; an error reads as "not newly
\* counted" (unwrap_or(false)), which skips the metrics.
SendCount(m) ==
    /\ snd[m] = "count"
    /\ \/ NoFault /\ Goto(m, "metrics")
       \/ Fault("redis") /\ (Goto(m, "cache") \/ Goto(m, "err"))
    /\ UNCHANGED <<redis, db, emerg, fl, dl, directDel, h, history>>

\* Attempts at the increment of the sent metrics, until one succeeds or
\* all of them have failed; no send without them. hincr_many is not atomic: an
\* attempt that fails half-way has counted the message already.
Billed(b, m, n) == [b EXCEPT ![m] = @ + n]
SendMetrics(m) ==
    /\ snd[m] = "metrics"
    /\ \/ NoFault /\ Goto(m, "cache") /\ sentBilled' = Billed(sentBilled, m, 1)
       \/ /\ Fault("metrics") /\ Goto(m, "cache")
          /\ \E n \in 1..MetricsRetries : sentBilled' = Billed(sentBilled, m, n)
       \/ /\ Fault("metrics") /\ Goto(m, "errMetrics")
          /\ \E n \in 0..MetricsRetries : sentBilled' = Billed(sentBilled, m, n)
    /\ UNCHANGED <<redis, db, emerg, fl, dl, directDel, h, recvBilled, handed, returned>>

\* SETEX of the message, RPUSH of its id and LTRIM: a failure leaves behind
\* what the commands did so far and answers with an error.
SendCache(m) ==
    /\ snd[m] = "cache"
    /\ \/ NoFault /\ Goto(m, "push") /\ cache' = cache \cup {m}
       \/ Fault("redis") /\ Goto(m, "err") /\ cache' \in {cache, cache \cup {m}}
    /\ UNCHANGED <<inbox, inboxTtl, counted, pendingRead, rebuildLock, db, emerg, fl, dl,
                   directDel, h, history>>

\* A write of an inbox list: an empty list is no key and has no expiry.
SetInbox(c, q, ttl) ==
    /\ inbox' = [inbox EXCEPT ![c] = q]
    /\ inboxTtl' = IF ttl /\ q # <<>> THEN inboxTtl \cup {c} ELSE inboxTtl \ {c}

KeepInbox == UNCHANGED <<inbox, inboxTtl>>

\* RPUSH keeps whatever expiry the inbox key already has.
Push(m) == LET c == Rcpt[m] IN SetInbox(c, Append(inbox[c], m), c \in inboxTtl)
SendPush(m) ==
    /\ snd[m] = "push"
    /\ \/ NoFault /\ Goto(m, "trim") /\ Push(m)
       \/ Fault("redis") /\ Goto(m, "err") /\ (Push(m) \/ KeepInbox)
    /\ UNCHANGED <<cache, counted, pendingRead, rebuildLock, db, emerg, fl, dl, directDel, h, history>>

\* LTRIM 0 MAX_QUEUE_LEN keeps the MAX_QUEUE_LEN + 1 oldest ids.
Trim(m) ==
    LET c == Rcpt[m]
        n == IF Len(inbox[c]) < MaxQueueLen + 1 THEN Len(inbox[c]) ELSE MaxQueueLen + 1
    IN  SetInbox(c, SubSeq(inbox[c], 1, n), c \in inboxTtl)
SendTrim(m) ==
    /\ snd[m] = "trim"
    /\ \/ NoFault /\ Goto(m, "queue") /\ Trim(m)
       \/ Fault("redis") /\ Goto(m, "err") /\ (Trim(m) \/ KeepInbox)
    /\ UNCHANGED <<cache, counted, pendingRead, rebuildLock, db, emerg, fl, dl, directDel, h, history>>

\* try_send to the flusher's channel; the send has succeeded.
SendQueue(m) ==
    /\ snd[m] = "queue"
    /\ Len(fl.chan) < ChannelBuffer
    /\ fl' = [fl EXCEPT !.chan = Append(@, m)]
    /\ Goto(m, "ok")
    /\ NoFault /\ UNCHANGED <<redis, db, emerg, dl, directDel, h, history>>

\* Mutant: a full channel is ignored.
SendEmergencyDropped(m) ==
    /\ snd[m] = "queue"
    /\ Len(fl.chan) >= ChannelBuffer
    /\ Goto(m, "ok")
    /\ NoFault /\ UNCHANGED <<redis, db, emerg, fl, dl, directDel, h, history>>

\* A full channel: spawn an emergency write and wait for its result.
SendEmergency(m) ==
    /\ snd[m] = "queue"
    /\ Len(fl.chan) >= ChannelBuffer
    /\ emerg' = emerg \cup {m}
    /\ Goto(m, "emerg")
    /\ NoFault /\ UNCHANGED <<redis, db, fl, dl, directDel, h, history>>

\* emergency_write_message in its own task, and the answer the send gets
\* through the oneshot channel if it still waits.
EmergencyWrite(m) ==
    /\ m \in emerg
    /\ emerg' = emerg \ {m}
    /\ \/ /\ NoFault /\ rows' = rows \cup {m}
          /\ IF snd[m] = "emerg" THEN Goto(m, "ok") ELSE UNCHANGED snd
       \/ /\ Fault("db") /\ rows' \in {rows, rows \cup {m}}
          /\ IF snd[m] = "emerg" THEN Goto(m, "err") ELSE UNCHANGED snd
    /\ UNCHANGED <<redis, receipts, fl, dl, directDel, h, history>>

\* The wait ends after 5 s: the send fails, the write goes on.
EmergencyTimeout(m) ==
    /\ snd[m] = "emerg" /\ m \in emerg
    /\ Fault("timeout") /\ Goto(m, "err")
    /\ UNCHANGED <<redis, db, emerg, fl, dl, directDel, h, history>>

-----------------------------------------------------------------------------
(***************************************************************************)
(* spawn_flusher and flush_batch                                           *)
(***************************************************************************)
\* mem::take moves the buffer into the batch before the first await, so that
\* nothing puts it back when a later step fails.
TakeBuffer(w, buf) == [w EXCEPT !.buf = <<>>, !.batch = buf, !.pc = "first"]
EndBatch(w) == [w EXCEPT !.batch = <<>>, !.pc = "idle"]

FlusherRecv ==
    /\ fl.pc = "idle" /\ fl.chan # <<>>
    /\ LET buf == Append(fl.buf, Head(fl.chan))
           w == [fl EXCEPT !.chan = Tail(@), !.buf = buf]
       IN  fl' = IF Len(buf) >= MaxBatchSize THEN TakeBuffer(w, buf) ELSE w
    /\ NoFault /\ UNCHANGED <<redis, db, snd, emerg, dl, directDel, h, history>>

\* Mutant: only a full buffer is flushed.
FlusherTickFull ==
    /\ fl.pc = "idle" /\ Len(fl.buf) >= MaxBatchSize
    /\ fl' = TakeBuffer(fl, fl.buf)
    /\ NoFault /\ UNCHANGED <<redis, db, snd, emerg, dl, directDel, h, history>>

FlusherTick ==
    /\ fl.pc = "idle" /\ fl.buf # <<>>
    /\ fl' = TakeBuffer(fl, fl.buf)
    /\ NoFault /\ UNCHANGED <<redis, db, snd, emerg, dl, directDel, h, history>>

\* BEGIN, INSERT ... ON CONFLICT DO NOTHING, COMMIT; on an error the whole
\* batch is gone.
FlushCommit ==
    /\ fl.pc = "first"
    /\ \/ NoFault /\ rows' = rows \cup Elems(fl.batch) /\ fl' = [fl EXCEPT !.pc = "second"]
       \/ Fault("db") /\ rows' \in {rows, rows \cup Elems(fl.batch)} /\ fl' = EndBatch(fl)
    /\ UNCHANGED <<redis, receipts, snd, emerg, dl, directDel, h, history>>

\* GETDEL of the pending reads took those of taken, and those of read were heard
\* of and inserted as receipts, which the foreign key refuses if the row is gone.
TakeReads(taken, read) ==
    /\ pendingRead' = [m \in Msgs |-> IF m \in taken THEN NoClient ELSE pendingRead[m]]
    /\ receipts' = receipts \cup {r \in rows \X Clients : r[1] \in read /\ pendingRead[r[1]] = r[2]}

\* One step for the batch: the keys and rows of two messages are independent.
\* A GETDEL or INSERT that fails is ignored, and what GETDEL took is gone then.
\* Without a Redis connection flush_batch returns here, and the cache and the
\* inbox keep the messages.
FlushReads ==
    /\ fl.pc = "second"
    /\ \/ NoFault /\ TakeReads(Elems(fl.batch), Elems(fl.batch)) /\ fl' = [fl EXCEPT !.pc = "third"]
       \/ \E taken, read \in SUBSET Elems(fl.batch) :
             /\ read \subseteq taken /\ (Fault("redis") \/ (taken = Elems(fl.batch) /\ Fault("db")))
             /\ TakeReads(taken, read) /\ fl' = [fl EXCEPT !.pc = "third"]
       \/ Fault("redis") /\ fl' = EndBatch(fl) /\ UNCHANGED <<receipts, pendingRead>>
    /\ UNCHANGED <<cache, inbox, inboxTtl, counted, rebuildLock, rows, snd, emerg, dl, directDel,
                   h, history>>

\* DEL of the cached message and LREM of the first occurrence of its id in the
\* recipient's inbox, message by message down the pipeline; its errors are
\* ignored.
FlushClean ==
    /\ fl.pc = "third"
    /\ LET m == Head(fl.batch)
           c == Rcpt[m]
           first == {i \in DOMAIN inbox[c] :
                       inbox[c][i] = m /\ \A j \in DOMAIN inbox[c] : j < i => inbox[c][j] # m}
       IN  /\ cache' = cache \ {m}
           /\ \E q \in SubSeqAt(inbox[c], DOMAIN inbox[c] \ first) : SetInbox(c, q, c \in inboxTtl)
           /\ fl' = IF Len(fl.batch) = 1 THEN EndBatch(fl) ELSE [fl EXCEPT !.batch = Tail(@)]
    /\ NoFault
    /\ UNCHANGED <<counted, pendingRead, rebuildLock, db, snd, emerg, dl, directDel, h, history>>

FlushCleanFails ==
    /\ fl.pc = "third" /\ Fault("redis")
    /\ fl' = EndBatch(fl)
    /\ UNCHANGED <<redis, db, snd, emerg, dl, directDel, h, history>>

FlusherNext == FlusherRecv \/ FlusherTick \/ FlushCommit \/ FlushReads \/ FlushClean \/ FlushCleanFails

-----------------------------------------------------------------------------
(***************************************************************************)
(* spawn_deleter and delete_batch                                          *)
(***************************************************************************)
\* delete_batch drains its buffer once it has a Redis connection and a
\* transaction; without them the buffer stays for a later try.
DeleteBatchStart(w) ==
    \/ NoFault /\ dl' = TakeBuffer(w, w.buf)
    \/ (Fault("redis") \/ Fault("db")) /\ dl' = w

DeleterRecv ==
    /\ dl.pc = "idle" /\ dl.chan # <<>>
    /\ LET w == [dl EXCEPT !.chan = Tail(@), !.buf = Append(@, Head(dl.chan))]
       IN  IF Len(w.buf) >= MaxDeleteBatch THEN DeleteBatchStart(w) ELSE NoFault /\ dl' = w
    /\ UNCHANGED <<redis, db, snd, emerg, fl, directDel, h, history>>

DeleterTick ==
    /\ dl.pc = "idle" /\ dl.buf # <<>>
    /\ DeleteBatchStart(dl)
    /\ UNCHANGED <<redis, db, snd, emerg, fl, directDel, h, history>>

\* The pipeline of DELs; an error drops the drained tasks.
DeleteCached ==
    /\ dl.pc = "first"
    /\ \/ NoFault /\ cache' = cache \ Elems(dl.batch) /\ dl' = [dl EXCEPT !.pc = "second"]
       \/ Fault("redis") /\ cache' \in {cache, cache \ Elems(dl.batch)} /\ dl' = EndBatch(dl)
    /\ UNCHANGED <<inbox, inboxTtl, counted, pendingRead, rebuildLock, db, snd, emerg, fl, directDel,
                   h, history>>

\* Mutant: no cascade.
DeleteRowsOnly(D) == rows' = rows \ D /\ UNCHANGED receipts

\* DELETE FROM messages, which cascades to the receipts.
DeleteRows(D) == /\ rows' = rows \ D
                 /\ receipts' = {r \in receipts : r[1] \notin D}

DeleteStored ==
    /\ dl.pc = "second"
    /\ dl' = EndBatch(dl)
    /\ \/ (NoFault \/ Fault("db")) /\ DeleteRows(Elems(dl.batch))
       \/ Fault("db") /\ UNCHANGED db
    /\ UNCHANGED <<redis, snd, emerg, fl, directDel, h, history>>

DeleterNext == DeleterRecv \/ DeleterTick \/ DeleteCached \/ DeleteStored

\* The task queue_delete spawns when the delete channel is full.
DirectDelete(m) ==
    /\ m \in directDel
    /\ directDel' = directDel \ {m}
    /\ \/ (NoFault \/ Fault("db")) /\ DeleteRows({m})
       \/ Fault("db") /\ UNCHANGED db
    /\ UNCHANGED <<redis, snd, emerg, fl, dl, h, history>>

-----------------------------------------------------------------------------
(***************************************************************************)
(* fetch_messages_for_recipient, served by handler f for client h[f].cl    *)
(***************************************************************************)
Step(f, pc) == h' = [h EXCEPT ![f].pc = pc]
EndRequest(f) == h' = [h EXCEPT ![f] = IdleHandler]

FetchStart(f, c) ==
    /\ h[f].pc = "idle"
    /\ h' = [h EXCEPT ![f].pc = "len", ![f].cl = c]
    /\ NoFault /\ UNCHANGED <<redis, db, snd, emerg, fl, dl, directDel, history>>

\* LLEN: an empty inbox is rebuilt first.
FetchLen(f) ==
    /\ h[f].pc = "len"
    /\ \/ NoFault /\ Step(f, IF inbox[h[f].cl] = <<>> THEN "lock" ELSE "range")
       \/ Fault("redis") /\ EndRequest(f)
    /\ UNCHANGED <<redis, db, snd, emerg, fl, dl, directDel, history>>

\* Mutant: a request waits for the lock.
RebuildLockWaits(f) ==
    /\ h[f].pc = "lock" /\ h[f].cl \notin rebuildLock
    /\ NoFault /\ rebuildLock' = rebuildLock \cup {h[f].cl} /\ Step(f, "check")
    /\ UNCHANGED <<cache, inbox, inboxTtl, counted, pendingRead, db, snd, emerg, fl, dl, directDel, history>>

\* SET rebuild_lock NX EX 5: whoever does not get the lock goes on without a
\* rebuild.
RebuildLock(f) ==
    /\ h[f].pc = "lock"
    /\ \/ /\ NoFault
          /\ rebuildLock' = rebuildLock \cup {h[f].cl}
          /\ Step(f, IF h[f].cl \in rebuildLock THEN "range" ELSE "check")
       \/ /\ Fault("redis") /\ Step(f, "range")
          /\ rebuildLock' \in {rebuildLock, rebuildLock \cup {h[f].cl}}
    /\ UNCHANGED <<cache, inbox, inboxTtl, counted, pendingRead, db, snd, emerg, fl, dl, directDel, history>>

\* The double check under the lock; its error returns with the lock held.
RebuildCheck(f) ==
    /\ h[f].pc = "check"
    /\ \/ NoFault /\ Step(f, IF inbox[h[f].cl] = <<>> THEN "page" ELSE "unlock")
       \/ Fault("redis") /\ Step(f, "range")
    /\ UNCHANGED <<redis, db, snd, emerg, fl, dl, directDel, history>>

\* Mutant: the rebuild forgets the recipient.
UndeliveredAnyone(c) == rows

\* The rows the rebuild selects. is_delivered is false in every row of a
\* peer-to-peer message: nothing ever sets it.
Undelivered(c) == {m \in rows : Rcpt[m] = c}

\* ORDER BY created_at LIMIT PageSize OFFSET off
PageOf(c, off) ==
    LET U == Undelivered(c)
        rank(m) == Cardinality({k \in U : k < m})
    IN  {m \in U : off <= rank(m) /\ rank(m) < off + PageSize}

\* After the last page: the expiry is set if anything was pushed.
RebuildDone(added) == IF added > 0 THEN "expire" ELSE "unlock"

RebuildPage(f) ==
    /\ h[f].pc = "page"
    /\ \/ /\ NoFault
          /\ \E q \in Ascending(PageOf(h[f].cl, h[f].off)) :
                h' = [h EXCEPT ![f].page = q,
                               ![f].pc = IF q = <<>> THEN RebuildDone(h[f].added) ELSE "push"]
       \/ Fault("db") /\ Step(f, "unlock")
    /\ UNCHANGED <<redis, db, snd, emerg, fl, dl, directDel, history>>

\* A pipeline of RPUSHes, of which a failure leaves a prefix; stop at MAX_QUEUE_LEN ids or after a partial page.
RebuildPush(f) ==
    /\ h[f].pc = "push"
    /\ \/ /\ NoFault
          /\ LET c == h[f].cl
                 q == h[f].page
                 added == h[f].added + Len(q)
                 last == added >= MaxQueueLen \/ Len(q) < PageSize
             IN  /\ SetInbox(c, inbox[c] \o q, c \in inboxTtl)
                 /\ h' = [h EXCEPT ![f].added = added, ![f].page = <<>>,
                                   ![f].off = IF last THEN @ ELSE @ + PageSize,
                                   ![f].pc = IF last THEN RebuildDone(added) ELSE "page"]
       \/ /\ Fault("redis") /\ Step(f, "unlock")
          /\ \E n \in 0..Len(h[f].page) :
                LET c == h[f].cl IN SetInbox(c, inbox[c] \o SubSeq(h[f].page, 1, n), c \in inboxTtl)
    /\ UNCHANGED <<cache, counted, pendingRead, rebuildLock, db, snd, emerg, fl, dl, directDel, history>>

RebuildExpire(f) ==
    /\ h[f].pc = "expire"
    /\ Step(f, "unlock")
    /\ \/ (NoFault \/ Fault("redis")) /\ SetInbox(h[f].cl, inbox[h[f].cl], TRUE)
       \/ Fault("redis") /\ KeepInbox
    /\ UNCHANGED <<cache, counted, pendingRead, rebuildLock, db, snd, emerg, fl, dl, directDel, history>>

\* DEL of the lock key, whoever holds it by now.
RebuildUnlock(f) ==
    /\ h[f].pc = "unlock"
    /\ Step(f, "range")
    /\ \/ (NoFault \/ Fault("redis")) /\ rebuildLock' = rebuildLock \ {h[f].cl}
       \/ Fault("redis") /\ UNCHANGED rebuildLock
    /\ UNCHANGED <<cache, inbox, inboxTtl, counted, pendingRead, db, snd, emerg, fl, dl, directDel, history>>

\* LRANGE 0 MAX_INBOX_FETCH - 1; an empty inbox ends the request.
FetchRange(f) ==
    /\ h[f].pc = "range"
    /\ \/ LET q == inbox[h[f].cl]
              n == IF Len(q) < MaxInboxFetch THEN Len(q) ELSE MaxInboxFetch
          IN  /\ NoFault
              /\ IF q = <<>> THEN EndRequest(f)
                 ELSE h' = [h EXCEPT ![f].pc = "mget", ![f].ids = SubSeq(q, 1, n)]
       \/ Fault("redis") /\ EndRequest(f)
    /\ UNCHANGED <<redis, db, snd, emerg, fl, dl, directDel, history>>

\* MGET splits the ids into hits, with the message, and misses.
FetchMget(f) ==
    /\ h[f].pc = "mget"
    /\ \/ LET ids == h[f].ids
              H == {i \in DOMAIN ids : ids[i] \in cache}
          IN  /\ NoFault
              /\ \E hs \in SubSeqAt(ids, H), ms \in SubSeqAt(ids, DOMAIN ids \ H) :
                    h' = [h EXCEPT ![f].pc = IF hs = <<>> THEN "misses" ELSE "hits",
                                   ![f].ids = <<>>, ![f].hits = hs, ![f].misses = ms,
                                   ![f].st = [i \in DOMAIN hs |-> "count"]]
       \/ Fault("redis") /\ EndRequest(f)
    /\ UNCHANGED <<redis, db, snd, emerg, fl, dl, directDel, history>>

\* queue_delete(m): a task for the deleter or, if its channel is full, an
\* immediate delete of the row. The message goes into the answer.
HandOver(f, i) ==
    LET m == h[f].hits[i]
        full == Len(dl.chan) >= DeleteChannelBuffer
    IN  /\ dl' = IF full THEN dl ELSE [dl EXCEPT !.chan = Append(@, m)]
        /\ directDel' = IF full THEN directDel \cup {m} ELSE directDel
        /\ handed' = handed \cup {m}
        /\ h' = [h EXCEPT ![f].st[i] = "done", ![f].got = @ \cup {m}]

\* Mutant: the delete is queued before delivery is certain.
SkipQueuesDelete(f, i, s) == /\ h' = [h EXCEPT ![f].st[i] = s]
                             /\ dl' = [dl EXCEPT !.chan = Append(@, h[f].hits[i])]
                             /\ UNCHANGED <<directDel, handed>>

\* The message stays out of the answer, so far at least.
Skip(f, i, s) == /\ h' = [h EXCEPT ![f].st[i] = s]
                 /\ UNCHANGED <<dl, directDel, handed>>

\* Mutant: the flag is set without a look at it.
HitCountNotAtomic(f, i) ==
    LET m == h[f].hits[i] IN
    /\ h[f].pc = "hits" /\ h[f].st[i] = "count"
    /\ NoFault /\ counted' = counted \cup {m} /\ Skip(f, i, "bill")
    /\ UNCHANGED <<cache, inbox, inboxTtl, pendingRead, rebuildLock, db, snd, emerg, fl,
                   sentBilled, recvBilled, returned>>

\* count_delivery_once_with_retry on hit i: whoever sets the flag is the one to
\* bill. A reply lost after the flag was set makes the retry see a flag that
\* nobody bills for; three failures drop the message from the answer, its flag
\* set or not.
HitCount(f, i) ==
    LET m == h[f].hits[i] IN
    /\ h[f].pc = "hits" /\ h[f].st[i] = "count"
    /\ \/ NoFault /\ m \notin counted /\ counted' = counted \cup {m} /\ Skip(f, i, "bill")
       \/ NoFault /\ m \in counted /\ UNCHANGED counted /\ HandOver(f, i)
       \/ Fault("redis") /\ m \notin counted /\ counted' = counted \cup {m} /\ HandOver(f, i)
       \/ Fault("redis") /\ counted' \in {counted, counted \cup {m}} /\ Skip(f, i, "none")
    /\ UNCHANGED <<cache, inbox, inboxTtl, pendingRead, rebuildLock, db, snd, emerg, fl,
                   sentBilled, recvBilled, returned>>

\* Mutant: the increment is left out.
HitBillKeepsGoing(f, i) ==
    /\ h[f].pc = "hits" /\ h[f].st[i] = "bill"
    /\ NoFault /\ UNCHANGED recvBilled /\ HandOver(f, i)
    /\ UNCHANGED <<redis, db, snd, emerg, fl, sentBilled, returned>>

\* increment_received_metrics_with_retry, then the hand-over without an await
\* between them. When every attempt fails the message is left out of the answer,
\* but its flag stays set.
HitBill(f, i) ==
    LET m == h[f].hits[i] IN
    /\ h[f].pc = "hits" /\ h[f].st[i] = "bill"
    /\ \/ NoFault /\ recvBilled' = Billed(recvBilled, m, 1) /\ HandOver(f, i)
       \/ /\ Fault("metrics") /\ HandOver(f, i)
          /\ \E n \in 1..MetricsRetries : recvBilled' = Billed(recvBilled, m, n)
       \/ /\ Fault("metrics") /\ Skip(f, i, "none")
          /\ \E n \in 0..MetricsRetries : recvBilled' = Billed(recvBilled, m, n)
    /\ UNCHANGED <<redis, db, snd, emerg, fl, sentBilled, returned>>

\* trim_inbox_batch: the Lua script reads the list, DELs it and pushes back what
\* is not in D, with a new expiry. Unpacking more than LuaUnpackMax ids fails,
\* and a failed script is not undone: the DEL stays.
TrimFits(c, D) == Cardinality({i \in DOMAIN inbox[c] : inbox[c][i] \notin D}) <= LuaUnpackMax
TrimInbox(c, D) ==
    \E q \in SubSeqAt(inbox[c], {i \in DOMAIN inbox[c] : inbox[c][i] \notin D}) :
        SetInbox(c, IF TrimFits(c, D) THEN q ELSE <<>>, TRUE)

\* After the hits: every one of them, delivered or not, leaves the inbox. The
\* error of a failed trim ends the request.
MarkAll(f) == [m \in Msgs |-> IF m \in h[f].got THEN "check" ELSE "no"]
FetchTrimHits(f) ==
    /\ h[f].pc = "hits"
    /\ \A i \in DOMAIN h[f].st : h[f].st[i] \in {"done", "none"}
    /\ LET c == h[f].cl
           D == Elems(h[f].hits)
       IN  \/ /\ NoFault /\ TrimInbox(c, D)
              /\ IF TrimFits(c, D)
                 THEN h' = [h EXCEPT ![f].pc = IF h[f].misses = <<>> THEN "mark" ELSE "misses",
                                     ![f].mk = MarkAll(f)]
                 ELSE EndRequest(f)
           \/ Fault("redis") /\ (TrimInbox(c, D) \/ KeepInbox) /\ EndRequest(f)
    /\ UNCHANGED <<cache, counted, pendingRead, rebuildLock, db, snd, emerg, fl, dl, directDel, history>>

\* fetch_sql_fallback reads SELECT * into Message, whose signature,
\* envelope_public_key and file_id the table does not have: with a matching row
\* it fails, without one it is empty, and unwrap_or_default makes both the
\* empty answer. The ids leave the inbox all the same.
FetchFallback(f) ==
    /\ h[f].pc = "misses"
    /\ LET c == h[f].cl
           D == Elems(h[f].misses)
       IN  \/ /\ NoFault /\ TrimInbox(c, D)
              /\ IF TrimFits(c, D) THEN h' = [h EXCEPT ![f].pc = "mark", ![f].mk = MarkAll(f)]
                 ELSE EndRequest(f)
           \/ Fault("redis") /\ (TrimInbox(c, D) \/ KeepInbox) /\ EndRequest(f)
    /\ UNCHANGED <<cache, counted, pendingRead, rebuildLock, db, snd, emerg, fl, dl, directDel, history>>

-----------------------------------------------------------------------------
(***************************************************************************)
(* mark_read_instant_message: for every message of an answer, or on its    *)
(* own (POST /messages/{id}/read) by any client                            *)
(***************************************************************************)
MarkReadStart(f, c, m) ==
    /\ h[f].pc = "idle" /\ snd[m] # "new"
    /\ h' = [h EXCEPT ![f].pc = "mark", ![f].cl = c, ![f].mk[m] = "check"]
    /\ NoFault /\ UNCHANGED <<redis, db, snd, emerg, fl, dl, directDel, history>>

\* SELECT 1 FROM messages, decoded as a Uuid: an error whenever there is a row.
\* Without a row the read will be left in Redis for the flusher.
MarkCheck(f, m) ==
    /\ h[f].pc = "mark" /\ h[f].mk[m] = "check"
    /\ \/ NoFault /\ h' = [h EXCEPT ![f].mk[m] = IF m \in rows THEN "no" ELSE "set"]
       \/ Fault("db") /\ h' = [h EXCEPT ![f].mk[m] = "no"]
    /\ UNCHANGED <<redis, db, snd, emerg, fl, dl, directDel, history>>

\* SETEX of the pending read, and the publish.
MarkSet(f, m) ==
    /\ h[f].pc = "mark" /\ h[f].mk[m] = "set"
    /\ h' = [h EXCEPT ![f].mk[m] = "no"]
    /\ \/ (NoFault \/ Fault("redis")) /\ pendingRead' = [pendingRead EXCEPT ![m] = h[f].cl]
       \/ Fault("redis") /\ UNCHANGED pendingRead
    /\ UNCHANGED <<cache, inbox, inboxTtl, counted, rebuildLock, db, snd, emerg, fl, dl, directDel,
                   sentBilled, recvBilled, handed, returned>>

\* Mutant: the answer holds every hit, delivered or not.
AnswerAllHits(f) ==
    /\ h[f].pc = "mark" /\ \A m \in Msgs : h[f].mk[m] = "no"
    /\ returned' = returned \cup h[f].got \cup Elems(h[f].hits)
    /\ EndRequest(f)
    /\ NoFault
    /\ UNCHANGED <<redis, db, snd, emerg, fl, dl, directDel, sentBilled, recvBilled, handed>>

Answer(f) ==
    /\ h[f].pc = "mark" /\ \A m \in Msgs : h[f].mk[m] = "no"
    /\ returned' = returned \cup h[f].got
    /\ EndRequest(f)
    /\ NoFault
    /\ UNCHANGED <<redis, db, snd, emerg, fl, dl, directDel, sentBilled, recvBilled, handed>>

-----------------------------------------------------------------------------
(***************************************************************************)
(* Keys that expire, and the process that dies                             *)
(***************************************************************************)
CacheExpire(m) ==
    /\ m \in cache /\ Fault("expiry")
    /\ cache' = cache \ {m}
    /\ UNCHANGED <<inbox, inboxTtl, counted, pendingRead, rebuildLock, db, process, history>>
InboxExpire(c) ==
    /\ c \in inboxTtl /\ Fault("expiry")
    /\ SetInbox(c, <<>>, FALSE)
    /\ UNCHANGED <<cache, counted, pendingRead, rebuildLock, db, process, history>>
LockExpire(c) ==
    /\ c \in rebuildLock /\ Fault("expiry")
    /\ rebuildLock' = rebuildLock \ {c}
    /\ UNCHANGED <<cache, inbox, inboxTtl, counted, pendingRead, db, process, history>>
PendingExpire(m) ==
    /\ pendingRead[m] # NoClient /\ Fault("expiry")
    /\ pendingRead' = [pendingRead EXCEPT ![m] = NoClient]
    /\ UNCHANGED <<cache, inbox, inboxTtl, counted, rebuildLock, db, process, history>>

\* Channels, buffers, spawned tasks and requests are gone; a graceful shutdown
\* waits for none of them either. Pending reads that the flusher had taken are lost.
Crash ==
    /\ Fault("crash")
    /\ snd' = [m \in Msgs |-> IF snd[m] \in {"count", "metrics", "cache", "push", "trim", "queue", "emerg"}
                              THEN "lost" ELSE snd[m]]
    /\ emerg' = {} /\ fl' = IdleWorker /\ dl' = IdleWorker /\ directDel' = {}
    /\ h' = [f \in Handlers |-> IdleHandler]
    /\ \E taken \in SUBSET (IF fl.pc = "second" THEN Elems(fl.batch) ELSE {}) :
          \E read \in SUBSET taken : TakeReads(taken, read)
    /\ UNCHANGED <<cache, inbox, inboxTtl, counted, rebuildLock, rows, history>>

-----------------------------------------------------------------------------
SendNext(m) == SendCount(m) \/ SendMetrics(m) \/ SendCache(m) \/ SendPush(m) \/ SendTrim(m)
               \/ SendQueue(m) \/ SendEmergency(m)
RebuildNext(f) == RebuildLock(f) \/ RebuildCheck(f) \/ RebuildPage(f) \/ RebuildPush(f)
                  \/ RebuildExpire(f) \/ RebuildUnlock(f)
HitNext(f) == \E i \in DOMAIN h[f].hits : HitCount(f, i) \/ HitBill(f, i)
MarkNext(f) == (\E m \in Msgs : MarkCheck(f, m) \/ MarkSet(f, m)) \/ Answer(f)
RequestNext(f) == FetchLen(f) \/ RebuildNext(f) \/ FetchRange(f) \/ FetchMget(f) \/ HitNext(f)
                  \/ FetchTrimHits(f) \/ FetchFallback(f) \/ MarkNext(f)
Poll(f) == \E c \in Clients : FetchStart(f, c)
ReadStart(f) == \E c \in Readers, m \in Msgs : MarkReadStart(f, c, m)
ExpiryNext == \/ \E m \in Msgs : CacheExpire(m) \/ PendingExpire(m)
              \/ \E c \in Clients : InboxExpire(c) \/ LockExpire(c)

Next ==
    \/ \E m \in Msgs : SendVerify(m) \/ SendNext(m) \/ EmergencyWrite(m) \/ EmergencyTimeout(m)
                       \/ DirectDelete(m)
    \/ FlusherNext
    \/ DeleterNext
    \/ \E f \in Handlers : Poll(f) \/ ReadStart(f) \/ RequestNext(f)
    \/ ExpiryNext
    \/ Crash

(***************************************************************************)
(* tokio keeps running every task that is ready: a send, a spawned write   *)
(* or a request that has begun, and the two background workers, whose      *)
(* tickers keep firing. Clients are under no obligation to send or fetch.  *)
(***************************************************************************)
Fairness ==
    /\ \A m \in Msgs : WF_vars(SendNext(m)) /\ WF_vars(EmergencyWrite(m)) /\ WF_vars(DirectDelete(m))
    /\ WF_vars(FlusherNext) /\ WF_vars(DeleterNext)
    /\ \A f \in Handlers : WF_vars(RequestNext(f))

Spec == Init /\ [][Next]_vars /\ Fairness

\* In addition every client keeps polling its inbox when it can.
PollingSpec == Spec /\ \A f \in Handlers, c \in Clients : SF_vars(FetchStart(f, c))

-----------------------------------------------------------------------------
(***************************************************************************)
(* Properties                                                              *)
(***************************************************************************)
\* Where message m can be found, in Redis, PostgreSQL or the process.
InFlush(m) == InSeq(m, fl.chan) \/ InSeq(m, fl.buf) \/ InSeq(m, fl.batch)
InDelete(m) == InSeq(m, dl.chan) \/ InSeq(m, dl.buf) \/ InSeq(m, dl.batch) \/ m \in directDel
InRequest(f, m) == InSeq(m, h[f].page) \/ InSeq(m, h[f].ids) \/ InSeq(m, h[f].hits)
                   \/ InSeq(m, h[f].misses) \/ m \in h[f].got
Somewhere(m) == \/ m \in cache \cup rows \cup counted \cup emerg \cup handed \cup returned
                \/ \E c \in Clients : InSeq(m, inbox[c])
                \/ InFlush(m) \/ InDelete(m)
                \/ \E f \in Handlers : InRequest(f, m)

\* A send refused for its signature or for its metrics (FIX #2, FIX #5) leaves
\* no trace of its message: no task has cached, listed, stored or delivered it.
RefusedLeavesNoTrace ==
    \A m \in Msgs : snd[m] \in {"rejected", "errMetrics"} => ~Somewhere(m)

\* The received metrics of a message are incremented by one request only, however
\* many deliver it at the same time, and more than once only by the retries of a
\* failed increment.
CountOnce ==
    \A m \in Msgs : recvBilled[m] <= IF "metrics" \in failed THEN MetricsRetries ELSE 1

\* A request works only on messages addressed to its client, whether it took
\* them from the list the senders push to or from a rebuild.
OnlyRecipient ==
    \A f \in Handlers, m \in Msgs : InRequest(f, m) => Rcpt[m] = h[f].cl

\* A delete is only ever queued for a message that a fetch counted and took for
\* delivery: no other path destroys a message.
DeletesAreHanded == /\ \A m \in Msgs : InDelete(m) => m \in handed
                    /\ handed \subseteq counted

\* A stored row disappears only after the delivery of its message was claimed.
RowsLeaveOnlyHanded == [][rows \ rows' \subseteq handed]_vars

\* An accepted message that no fetch has taken is on its way to the database or
\* stored there, at every moment, whatever fails but the database or the process.
NoSilentLoss ==
    failed \cap {"db", "crash"} = {} =>
        \A m \in Msgs : snd[m] = "ok" /\ m \notin handed => InFlush(m) \/ m \in rows

\* "Don't mark as delivered if metrics fail": a message handed to a client is
\* billed as received, or some request is about to bill it.
Billing(m) == \E f \in Handlers : \E i \in DOMAIN h[f].st :
                 h[f].pc = "hits" /\ h[f].hits[i] = m /\ h[f].st[i] = "bill"
DeliveredIsBilled == \A m \in handed : recvBilled[m] = 1 \/ Billing(m)

\* That holds, and every accepted message is billed once as sent, as long as metrics,
\* Redis and the process do not fail.
BilledUnlessFailed ==
    failed \cap {"metrics", "redis", "crash"} = {} =>
        /\ \A m \in Msgs : snd[m] = "ok" => sentBilled[m] = 1
        /\ DeliveredIsBilled

\* Every request ends, through the rebuild lock, its paging and all its retries.
RequestsEnd == \A f \in Handlers : h[f].pc # "idle" ~> h[f].pc = "idle"

\* An accepted message is stored or handed over in the end.
AcceptedIsKept == \A m \in Msgs : snd[m] = "ok" ~> m \in rows \/ m \in handed

\* "Fetches up to MAX_INBOX_FETCH undelivered messages for a recipient from
\* Redis/DB": an accepted message reaches a recipient that keeps polling.
AcceptedIsReturned == \A m \in Msgs : snd[m] = "ok" ~> m \in returned

\* "queues deletes": once a delivered message's delete has been processed
\* nothing of it stays in the database for good.
HandedIsDeleted == \A m \in Msgs : m \in handed ~> [](m \notin rows)

\* The messages in the terms of the ledger: until it is cached nobody sees one.
Told == [s \in SendStates |->
    CASE s \in {"new", "count", "metrics", "cache"} -> "new"
      [] s \in {"push", "trim", "queue", "emerg"} -> "out"
      [] s = "ok" -> "accepted"
      [] s \in {"rejected", "errMetrics"} -> "refused"
      [] s \in {"err", "lost"} -> "failed"]

Ledger == INSTANCE MessageLedger
              WITH Messages <- Msgs, Accidents <- {"db", "crash"},
                   answer <- [m \in Msgs |-> Told[snd[m]]],
                   kept <- {m \in Msgs : InFlush(m) \/ m \in rows},
                   delivered <- handed, accidents <- failed \cap {"db", "crash"}

(***************************************************************************)
(* Seen from outside the service is a ledger: the answer to a sender is    *)
(* final, what is accepted is kept until it was delivered or an accident   *)
(* takes it and does not come back, what is refused is never delivered,    *)
(* and a client receives only what was taken for delivery.                 *)
(***************************************************************************)
IsLedger == Ledger!Spec
=============================================================================
