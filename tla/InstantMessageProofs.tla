------------------------ MODULE InstantMessageProofs ------------------------
(***************************************************************************)
(* Safety of InstantMessage for every number of messages, clients and      *)
(* handlers, every capacity and every choice of failures, and that it      *)
(* implements MessageLedger.                                               *)
(***************************************************************************)
EXTENDS InstantMessage, FiniteSetTheorems, SequenceTheorems, TLAPS

(***************************************************************************)
(* Sequences cut out of sequences                                          *)
(***************************************************************************)
\* A finite set listed in increasing order is a sequence over that set.
LEMMA AscendingType ==
    ASSUME NEW S, IsFiniteSet(S), NEW x \in Ascending(S)
    PROVE  x \in Seq(S) /\ Elems(x) \subseteq S
<1>1. Cardinality(S) \in Nat
    BY FS_CardinalityType
<1>2. x \in [1..Cardinality(S) -> S]
    BY DEF Ascending
<1> QED
    BY <1>1, <1>2 DEF Elems

\* Picking positions of a sequence over T gives a sequence over T, with no
\* element that was not at one of those positions.
LEMMA SubSeqAtType ==
    ASSUME NEW T, NEW s \in Seq(T), NEW K \in SUBSET (DOMAIN s), NEW q \in SubSeqAt(s, K)
    PROVE  /\ q \in Seq(T)
           /\ \A m : InSeq(m, q) => \E i \in K : s[i] = m
<1>1. IsFiniteSet(K)
    <2>1. DOMAIN s = 1..Len(s) /\ Len(s) \in Nat
        OBVIOUS
    <2>2. IsFiniteSet(1..Len(s))
        BY <2>1, FS_Interval
    <2> QED
        BY <2>1, <2>2, FS_Subset
<1>2. PICK x \in Ascending(K) : q = [i \in DOMAIN x |-> s[x[i]]]
    BY DEF SubSeqAt
<1>3. x \in Seq(K)
    BY <1>1, <1>2, AscendingType
<1>4. \A i \in DOMAIN x : x[i] \in K /\ s[x[i]] \in T
    BY <1>3
<1>5. q \in Seq(T)
    BY <1>2, <1>3, <1>4
<1>6. DOMAIN q = DOMAIN x /\ \A i \in DOMAIN q : q[i] = s[x[i]]
    BY <1>2
<1> QED
    BY <1>4, <1>5, <1>6 DEF InSeq

\* What a channel, a buffer or a list holds after an append, a receive, a page
\* pushed at its end or a cut.
LEMMA AppendType ==
    ASSUME NEW T, NEW s \in Seq(T), NEW e \in T
    PROVE  /\ Append(s, e) \in Seq(T) /\ Append(s, e) # <<>>
           /\ \A m : InSeq(m, Append(s, e)) <=> InSeq(m, s) \/ m = e
<1>1. /\ Append(s, e) \in Seq(T) /\ Len(Append(s, e)) = Len(s) + 1
      /\ \A i \in 1..Len(s) : Append(s, e)[i] = s[i]
      /\ Append(s, e)[Len(s) + 1] = e
    OBVIOUS
<1>2. Len(s) \in Nat /\ DOMAIN s = 1..Len(s) /\ DOMAIN Append(s, e) = 1..(Len(s) + 1)
    BY <1>1
<1>3. Append(s, e) # <<>>
    BY <1>1, AppendProperties
<1> QED
    BY <1>1, <1>2, <1>3 DEF InSeq

LEMMA NoneInEmpty == \A m : ~InSeq(m, <<>>)
BY DEF InSeq

LEMMA HeadTailType ==
    ASSUME NEW T, NEW s \in Seq(T), s # <<>>
    PROVE  /\ Head(s) \in T /\ Tail(s) \in Seq(T)
           /\ Len(s) # 1 => Tail(s) # <<>>
           /\ Len(s) = 1 => Tail(s) = <<>>
           /\ \A m : InSeq(m, s) <=> m = Head(s) \/ InSeq(m, Tail(s))
<1>1. /\ Head(s) \in T /\ Tail(s) \in Seq(T) /\ Len(Tail(s)) = Len(s) - 1
      /\ \A i \in 1..Len(Tail(s)) : Tail(s)[i] = s[i + 1]
    BY HeadTailProperties
<1>2. Len(s) \in Nat /\ Len(s) > 0 /\ Head(s) = s[1]
      /\ DOMAIN s = 1..Len(s) /\ DOMAIN Tail(s) = 1..(Len(s) - 1)
    BY <1>1
<1>3. (Len(s) # 1 => Tail(s) # <<>>) /\ (Len(s) = 1 => Tail(s) = <<>>)
    <2>1. Len(Tail(s)) = 0 <=> Len(s) = 1
        BY <1>1, <1>2
    <2>2. Len(Tail(s)) = 0 <=> Tail(s) = <<>>
        BY <1>1, EmptySeq
    <2> QED
        BY <2>1, <2>2
<1>4. ASSUME NEW m, InSeq(m, s)
      PROVE  m = Head(s) \/ InSeq(m, Tail(s))
    <2>1. PICK i \in 1..Len(s) : s[i] = m
        BY <1>2, <1>4 DEF InSeq
    <2>2. i = 1 \/ (i - 1 \in 1..(Len(s) - 1) /\ Tail(s)[i - 1] = m)
        BY <1>1, <1>2, <2>1
    <2> QED
        BY <1>2, <2>1, <2>2 DEF InSeq
<1>5. ASSUME NEW m, InSeq(m, Tail(s))
      PROVE  InSeq(m, s)
    <2>1. PICK i \in 1..(Len(s) - 1) : Tail(s)[i] = m
        BY <1>2, <1>5 DEF InSeq
    <2>2. i + 1 \in 1..Len(s) /\ s[i + 1] = m
        BY <1>1, <1>2, <2>1
    <2> QED
        BY <1>2, <2>2 DEF InSeq
<1>6. ASSUME NEW m, m = Head(s)
      PROVE  InSeq(m, s)
    BY <1>2, <1>6 DEF InSeq
<1> QED
    BY <1>1, <1>3, <1>4, <1>5, <1>6

LEMMA ConcatType ==
    ASSUME NEW T, NEW s \in Seq(T), NEW t \in Seq(T)
    PROVE  s \o t \in Seq(T) /\ \A m : InSeq(m, s \o t) => InSeq(m, s) \/ InSeq(m, t)
<1>1. /\ s \o t \in Seq(T) /\ Len(s \o t) = Len(s) + Len(t)
      /\ \A i \in 1..(Len(s) + Len(t)) :
            (s \o t)[i] = IF i <= Len(s) THEN s[i] ELSE t[i - Len(s)]
    BY ConcatProperties
<1>2. Len(s) \in Nat /\ Len(t) \in Nat /\ DOMAIN s = 1..Len(s) /\ DOMAIN t = 1..Len(t)
      /\ DOMAIN (s \o t) = 1..(Len(s) + Len(t))
    BY <1>1
<1>3. ASSUME NEW m, InSeq(m, s \o t)
      PROVE  InSeq(m, s) \/ InSeq(m, t)
    <2>1. PICK i \in 1..(Len(s) + Len(t)) : (s \o t)[i] = m
        BY <1>2, <1>3 DEF InSeq
    <2>2. CASE i <= Len(s)
        BY <1>1, <1>2, <2>1, <2>2 DEF InSeq
    <2>3. CASE i > Len(s)
        <3>1. i - Len(s) \in 1..Len(t) /\ t[i - Len(s)] = m
            BY <1>1, <1>2, <2>1, <2>3
        <3> QED
            BY <1>2, <3>1 DEF InSeq
    <2> QED
        BY <1>2, <2>1, <2>2, <2>3
<1> QED
    BY <1>1, <1>3

LEMMA PrefixType ==
    ASSUME NEW T, NEW s \in Seq(T), NEW n \in Nat, n <= Len(s)
    PROVE  SubSeq(s, 1, n) \in Seq(T) /\ \A m : InSeq(m, SubSeq(s, 1, n)) => InSeq(m, s)
<1>1. /\ SubSeq(s, 1, n) \in Seq(T) /\ DOMAIN SubSeq(s, 1, n) = 1..n
      /\ \A i \in 1..n : SubSeq(s, 1, n)[i] = s[i]
    OBVIOUS
<1>2. Len(s) \in Nat /\ DOMAIN s = 1..Len(s)
    OBVIOUS
<1> QED
    BY <1>1, <1>2 DEF InSeq

LEMMA MsgsFinite == IsFiniteSet(Msgs)
BY FS_Interval, NumMsgsAssumption DEF Msgs

\* A page of a rebuild is a sequence of the client's stored messages.
LEMMA PageType ==
    ASSUME rows \subseteq Msgs, NEW c, NEW off, NEW q \in Ascending(PageOf(c, off))
    PROVE  q \in Seq(Msgs) /\ \A m : InSeq(m, q) => m \in rows /\ Rcpt[m] = c
<1>1. PageOf(c, off) \subseteq Undelivered(c) /\ Undelivered(c) \subseteq Msgs
    BY DEF PageOf, Undelivered
<1>2. IsFiniteSet(PageOf(c, off))
    BY <1>1, MsgsFinite, FS_Subset
<1>3. q \in Seq(PageOf(c, off)) /\ Elems(q) \subseteq PageOf(c, off)
    BY <1>2, AscendingType
<1> QED
    BY <1>1, <1>3 DEF InSeq, Elems, Undelivered

(***************************************************************************)
(* Types                                                                   *)
(***************************************************************************)
\* A worker holds a batch exactly while it is processing one.
WorkerInv(w) == w.pc = "idle" <=> w.batch = <<>>

\* What the locals of a handler are: results go with hits, and a request has a
\* client.
LocalsInv(r) == /\ r \in Handler
                /\ Len(r.st) = Len(r.hits)
                /\ r.pc # "idle" => r.cl \in Clients
HandlerInv == h \in [Handlers -> Handler] /\ \A g \in Handlers : LocalsInv(h[g])

TypeInv == TypeOK /\ WorkerInv(fl) /\ WorkerInv(dl) /\ HandlerInv

LEMMA IdleHandlerType == LocalsInv(IdleHandler)
BY DEF LocalsInv, IdleHandler, Handler, HandlerStates, MarkStates

LEMMA InitType == Init => TypeInv
<1> SUFFICES ASSUME Init PROVE TypeInv
    OBVIOUS
<1>1. HandlerInv
    BY IdleHandlerType DEF Init, HandlerInv, LocalsInv
<1>2. TypeOK
    BY <1>1 DEF Init, TypeOK, HandlerInv, LocalsInv, IdleWorker, Worker, SendStates, FaultKinds
<1> QED
    BY <1>1, <1>2 DEF Init, TypeInv, WorkerInv, IdleWorker

LEMMA EmptyType == <<>> \in Seq(Msgs)
OBVIOUS

\* Cutting off a buffer, and ending a batch, keep a worker well-formed.
LEMMA TakeBufferType ==
    ASSUME NEW w \in Worker, NEW buf \in Seq(Msgs), buf # <<>>
    PROVE  TakeBuffer(w, buf) \in Worker /\ WorkerInv(TakeBuffer(w, buf))
BY EmptyType DEF TakeBuffer, Worker, WorkerInv

LEMMA EndBatchType ==
    ASSUME NEW w \in Worker
    PROVE  EndBatch(w) \in Worker /\ WorkerInv(EndBatch(w))
BY EmptyType DEF EndBatch, Worker, WorkerInv

LEMMA SetInboxType ==
    ASSUME inbox \in [Clients -> Seq(Msgs)], inboxTtl \subseteq Clients,
           NEW c \in Clients, NEW q \in Seq(Msgs), NEW ttl, SetInbox(c, q, ttl)
    PROVE  inbox' \in [Clients -> Seq(Msgs)] /\ inboxTtl' \subseteq Clients
BY DEF SetInbox

LEMMA FaultType ==
    ASSUME failed \subseteq FaultKinds
    PROVE  /\ \A kind : Fault(kind) => failed' \subseteq FaultKinds
           /\ NoFault => failed' \subseteq FaultKinds
BY FaultsAssumption DEF Fault, NoFault

LEMMA BilledType ==
    ASSUME NEW b \in [Msgs -> Nat], NEW m \in Msgs
    PROVE  \A n \in 0..MetricsRetries : Billed(b, m, n) \in [Msgs -> Nat]
BY BoundsAssumption DEF Billed

\* The steps of a send.
LEMMA SendType ==
    ASSUME TypeInv, NEW m \in Msgs, SendVerify(m) \/ SendNext(m)
    PROVE  TypeInv'
<1> USE FaultType DEF TypeInv, TypeOK, HandlerInv, Goto, SendStates, redis, db, history
<1>1. CASE SendVerify(m)
    BY <1>1 DEF SendVerify
<1>2. CASE SendCount(m)
    BY <1>2 DEF SendCount
<1>3. CASE SendMetrics(m)
    <2>1. sentBilled' \in [Msgs -> Nat]
        <3>1. PICK n \in 0..MetricsRetries : sentBilled' = Billed(sentBilled, m, n)
            BY ONLY <1>3, BoundsAssumption DEF SendMetrics
        <3> QED
            BY <3>1, BilledType
    <2> QED
        BY <1>3, <2>1 DEF SendMetrics
<1>4. CASE SendCache(m)
    BY <1>4 DEF SendCache
<1>5. CASE SendPush(m)
    <2>1. Rcpt[m] \in Clients
        BY RcptAssumption
    <2>2. inbox[Rcpt[m]] \in Seq(Msgs) /\ Append(inbox[Rcpt[m]], m) \in Seq(Msgs)
        BY <2>1
    <2>3. inbox' \in [Clients -> Seq(Msgs)] /\ inboxTtl' \subseteq Clients
        BY <1>5, <2>1, <2>2, SetInboxType DEF SendPush, Push, KeepInbox
    <2> QED
        BY <1>5, <2>3 DEF SendPush
<1>6. CASE SendTrim(m)
    <2>1. Rcpt[m] \in Clients
        BY RcptAssumption
    <2>2. inbox[Rcpt[m]] \in Seq(Msgs)
        BY <2>1
    <2> DEFINE n == IF Len(inbox[Rcpt[m]]) < MaxQueueLen + 1 THEN Len(inbox[Rcpt[m]])
                    ELSE MaxQueueLen + 1
    <2>3. SubSeq(inbox[Rcpt[m]], 1, n) \in Seq(Msgs)
        <3>1. n \in Nat /\ n <= Len(inbox[Rcpt[m]])
            BY <2>2, BoundsAssumption
        <3> HIDE DEF n
        <3> QED
            BY <2>2, <3>1, PrefixType
    <2>4. inbox' \in [Clients -> Seq(Msgs)] /\ inboxTtl' \subseteq Clients
        BY <1>6, <2>1, <2>2, <2>3, SetInboxType DEF SendTrim, Trim, KeepInbox
    <2> QED
        BY <1>6, <2>4 DEF SendTrim
<1>7. CASE SendQueue(m)
    <2>1. fl.chan \in Seq(Msgs) /\ Append(fl.chan, m) \in Seq(Msgs)
        BY DEF Worker
    <2>2. fl' \in Worker /\ WorkerInv(fl')
        BY <1>7, <2>1 DEF SendQueue, Worker, WorkerInv
    <2> QED
        BY <1>7, <2>2 DEF SendQueue, WorkerInv
<1>8. CASE SendEmergency(m)
    BY <1>8 DEF SendEmergency
<1> QED
    BY <1>1, <1>2, <1>3, <1>4, <1>5, <1>6, <1>7, <1>8 DEF SendNext

\* The tasks that write or delete one row.
LEMMA TaskType ==
    ASSUME TypeInv, NEW m \in Msgs, EmergencyWrite(m) \/ EmergencyTimeout(m) \/ DirectDelete(m)
    PROVE  TypeInv'
<1> USE FaultType DEF TypeInv, TypeOK, HandlerInv, Goto, SendStates, redis, db, history
<1>1. CASE EmergencyWrite(m)
    BY <1>1 DEF EmergencyWrite
<1>2. CASE EmergencyTimeout(m)
    BY <1>2 DEF EmergencyTimeout
<1>3. CASE DirectDelete(m)
    BY <1>3 DEF DirectDelete, DeleteRows
<1> QED
    BY <1>1, <1>2, <1>3

\* The flusher.
LEMMA TakeReadsType ==
    ASSUME TypeInv, NEW taken, NEW read, TakeReads(taken, read), UNCHANGED rows
    PROVE  pendingRead' \in [Msgs -> Clients \cup {NoClient}] /\ receipts' \subseteq rows' \X Clients
BY DEF TakeReads, TypeInv, TypeOK

LEMMA FlusherType ==
    ASSUME TypeInv, FlusherNext
    PROVE  TypeInv'
<1> USE FaultType DEF TypeInv, TypeOK, HandlerInv, redis, db, history
<1>0. /\ fl.chan \in Seq(Msgs) /\ fl.buf \in Seq(Msgs) /\ fl.batch \in Seq(Msgs)
      /\ fl.pc \in {"idle", "first", "second", "third"}
    BY DEF Worker
<1>1. CASE FlusherRecv
    <2> DEFINE buf == Append(fl.buf, Head(fl.chan))
               w == [fl EXCEPT !.chan = Tail(@), !.buf = buf]
    <2>1. Head(fl.chan) \in Msgs /\ Tail(fl.chan) \in Seq(Msgs)
        BY <1>0, <1>1, HeadTailType DEF FlusherRecv
    <2>2. buf \in Seq(Msgs) /\ buf # <<>>
        BY ONLY <1>0, <2>1, AppendProperties
    <2>3. w \in Worker /\ WorkerInv(w)
        BY <2>1, <2>2 DEF Worker, WorkerInv
    <2>4. fl' \in Worker /\ WorkerInv(fl')
        <3> HIDE DEF buf
        <3>1. fl' = w \/ fl' = TakeBuffer(w, buf)
            BY <1>1 DEF FlusherRecv, buf
        <3> HIDE DEF w
        <3> QED
            BY <2>2, <2>3, <3>1, TakeBufferType
    <2> QED
        BY <1>1, <2>4 DEF FlusherRecv, WorkerInv
<1>2. CASE FlusherTick
    <2>1. fl' \in Worker /\ WorkerInv(fl')
        BY <1>0, <1>2, TakeBufferType DEF FlusherTick
    <2> QED
        BY <1>2, <2>1 DEF FlusherTick, WorkerInv
<1>3. CASE FlushCommit
    <2>1. fl' \in Worker /\ WorkerInv(fl')
        BY <1>0, <1>3, EndBatchType DEF FlushCommit, Worker, WorkerInv
    <2>2. Elems(fl.batch) \subseteq Msgs
        BY <1>0 DEF Elems
    <2> QED
        BY <1>3, <2>1, <2>2 DEF FlushCommit, WorkerInv
<1>4. CASE FlushReads
    <2>1. fl' \in Worker /\ WorkerInv(fl')
        BY <1>0, <1>4, EndBatchType DEF FlushReads, Worker, WorkerInv
    <2>2. UNCHANGED rows /\ failed' \subseteq FaultKinds
        BY <1>4 DEF FlushReads
    <2>3. pendingRead' \in [Msgs -> Clients \cup {NoClient}] /\ receipts' \subseteq rows' \X Clients
        BY ONLY TypeInv, FlushReads, <1>4, <2>2, TakeReadsType DEF FlushReads, TypeInv, TypeOK
    <2>4. UNCHANGED <<cache, inbox, inboxTtl, counted, rebuildLock, rows, snd, emerg, dl, directDel, h, history>>
        BY <1>4 DEF FlushReads
    <2> QED
        BY <2>1, <2>2, <2>3, <2>4 DEF WorkerInv
<1>5. CASE FlushClean
    <2> DEFINE m == Head(fl.batch)
               c == Rcpt[m]
               first == {i \in DOMAIN inbox[c] :
                           inbox[c][i] = m /\ \A j \in DOMAIN inbox[c] : j < i => inbox[c][j] # m}
    <2>1. fl.batch # <<>> /\ m \in Msgs /\ Tail(fl.batch) \in Seq(Msgs)
          /\ (Len(fl.batch) # 1 => Tail(fl.batch) # <<>>)
        BY <1>0, <1>5, HeadTailType DEF FlushClean, WorkerInv
    <2>2. c \in Clients /\ inbox[c] \in Seq(Msgs)
        BY <2>1, RcptAssumption
    <2>3. fl' \in Worker /\ WorkerInv(fl')
        BY <1>0, <1>5, <2>1, EndBatchType DEF FlushClean, Worker, WorkerInv
    <2>4. inbox' \in [Clients -> Seq(Msgs)] /\ inboxTtl' \subseteq Clients
        <3>1. PICK q \in SubSeqAt(inbox[c], DOMAIN inbox[c] \ first) : SetInbox(c, q, c \in inboxTtl)
            BY <1>5 DEF FlushClean
        <3> HIDE DEF m, c, first
        <3>2. q \in Seq(Msgs)
            BY <2>2, <3>1, SubSeqAtType
        <3> QED
            BY <2>2, <3>1, <3>2, SetInboxType
    <2> QED
        BY <1>5, <2>3, <2>4 DEF FlushClean, WorkerInv
<1>6. CASE FlushCleanFails
    <2>1. fl' \in Worker /\ WorkerInv(fl')
        BY <1>6, EndBatchType DEF FlushCleanFails
    <2> QED
        BY <1>6, <2>1 DEF FlushCleanFails, WorkerInv
<1> QED
    BY <1>1, <1>2, <1>3, <1>4, <1>5, <1>6 DEF FlusherNext

\* The deleter.
LEMMA DeleterType ==
    ASSUME TypeInv, DeleterNext
    PROVE  TypeInv'
<1> USE FaultType DEF TypeInv, TypeOK, HandlerInv, redis, db, history
<1>0. /\ dl.chan \in Seq(Msgs) /\ dl.buf \in Seq(Msgs) /\ dl.batch \in Seq(Msgs)
      /\ dl.pc \in {"idle", "first", "second", "third"}
    BY DEF Worker
<1>a. ASSUME NEW w \in Worker, WorkerInv(w), w.buf # <<>>, DeleteBatchStart(w)
      PROVE  dl' \in Worker /\ WorkerInv(dl') /\ failed' \subseteq FaultKinds
    <2>1. w.buf \in Seq(Msgs)
        BY DEF Worker
    <2> QED
        BY <1>a, <2>1, TakeBufferType DEF DeleteBatchStart
<1>1. CASE DeleterRecv
    <2> DEFINE w == [dl EXCEPT !.chan = Tail(@), !.buf = Append(@, Head(dl.chan))]
    <2>1. Head(dl.chan) \in Msgs /\ Tail(dl.chan) \in Seq(Msgs)
        BY <1>0, <1>1, HeadTailType DEF DeleterRecv
    <2>2. Append(dl.buf, Head(dl.chan)) \in Seq(Msgs) /\ Append(dl.buf, Head(dl.chan)) # <<>>
        BY ONLY <1>0, <2>1, AppendProperties
    <2>3. w \in Worker /\ WorkerInv(w) /\ w.buf # <<>>
        BY <2>1, <2>2 DEF Worker, WorkerInv
    <2>4. dl' \in Worker /\ WorkerInv(dl') /\ failed' \subseteq FaultKinds
        <3>1. DeleteBatchStart(w) \/ (NoFault /\ dl' = w)
            BY <1>1 DEF DeleterRecv
        <3> HIDE DEF w
        <3> QED
            BY <1>a, <2>3, <3>1
    <2> QED
        BY <1>1, <2>4 DEF DeleterRecv, WorkerInv
<1>2. CASE DeleterTick
    <2>1. dl' \in Worker /\ WorkerInv(dl') /\ failed' \subseteq FaultKinds
        BY <1>2, <1>a DEF DeleterTick
    <2> QED
        BY <1>2, <2>1 DEF DeleterTick, WorkerInv
<1>3. CASE DeleteCached
    <2>1. dl' \in Worker /\ WorkerInv(dl')
        BY <1>0, <1>3, EndBatchType DEF DeleteCached, Worker, WorkerInv
    <2> QED
        BY <1>3, <2>1 DEF DeleteCached, WorkerInv
<1>4. CASE DeleteStored
    <2>1. dl' \in Worker /\ WorkerInv(dl')
        BY <1>4, EndBatchType DEF DeleteStored
    <2> QED
        BY <1>4, <2>1 DEF DeleteStored, DeleteRows, WorkerInv
<1> QED
    BY <1>1, <1>2, <1>3, <1>4 DEF DeleterNext

LEMMA HandlerUpdate ==
    ASSUME HandlerInv, NEW f \in Handlers, NEW r, LocalsInv(r), h' = [h EXCEPT ![f] = r]
    PROVE  HandlerInv'
BY DEF HandlerInv, LocalsInv

LEMMA EndRequestType ==
    ASSUME HandlerInv, NEW f \in Handlers, EndRequest(f)
    PROVE  HandlerInv'
BY IdleHandlerType, HandlerUpdate DEF EndRequest

LEMMA StepType ==
    ASSUME HandlerInv, NEW f \in Handlers, NEW pc \in HandlerStates, Step(f, pc),
           h[f].pc # "idle"
    PROVE  HandlerInv'
<1>1. LocalsInv([h[f] EXCEPT !.pc = pc])
    BY DEF HandlerInv, LocalsInv, Handler
<1> QED
    BY <1>1, HandlerUpdate DEF Step

LEMMA StartType ==
    ASSUME HandlerInv, NEW f \in Handlers, Poll(f) \/ ReadStart(f)
    PROVE  HandlerInv'
<1>0. LocalsInv(h[f])
    BY DEF HandlerInv
<1>1. CASE Poll(f)
    <2>1. PICK c \in Clients : FetchStart(f, c)
        BY <1>1 DEF Poll
    <2>2. LocalsInv([h[f] EXCEPT !.pc = "len", !.cl = c])
        BY <1>0, <2>1 DEF LocalsInv, Handler, HandlerStates
    <2>3. h' = [h EXCEPT ![f] = [h[f] EXCEPT !.pc = "len", !.cl = c]]
        BY <2>1 DEF FetchStart
    <2> QED
        BY <2>2, <2>3, HandlerUpdate
<1>2. CASE ReadStart(f)
    <2>1. PICK c \in Readers, m \in Msgs : MarkReadStart(f, c, m)
        BY <1>2 DEF ReadStart
    <2>2. LocalsInv([h[f] EXCEPT !.pc = "mark", !.cl = c, !.mk[m] = "check"])
        BY <1>0, <2>1, ReadersAssumption DEF LocalsInv, Handler, HandlerStates, MarkStates
    <2>3. h' = [h EXCEPT ![f] = [h[f] EXCEPT !.pc = "mark", !.cl = c, !.mk[m] = "check"]]
        BY <2>1 DEF MarkReadStart
    <2> QED
        BY <2>2, <2>3, HandlerUpdate
<1> QED
    BY <1>1, <1>2

\* Pushing a page at the end of an inbox, and cutting what was looked at out of
\* it.
LEMMA TrimInboxType ==
    ASSUME inbox \in [Clients -> Seq(Msgs)], inboxTtl \subseteq Clients,
           NEW c \in Clients, NEW D, TrimInbox(c, D)
    PROVE  inbox' \in [Clients -> Seq(Msgs)] /\ inboxTtl' \subseteq Clients
<1> DEFINE K == {i \in DOMAIN inbox[c] : inbox[c][i] \notin D}
<1>1. PICK q \in SubSeqAt(inbox[c], K) : SetInbox(c, IF TrimFits(c, D) THEN q ELSE <<>>, TRUE)
    BY DEF TrimInbox
<1>2. K \in SUBSET (DOMAIN inbox[c]) /\ inbox[c] \in Seq(Msgs)
    OBVIOUS
<1> HIDE DEF K
<1>3. q \in Seq(Msgs)
    BY <1>1, <1>2, SubSeqAtType
<1>4. (IF TrimFits(c, D) THEN q ELSE <<>>) \in Seq(Msgs)
    BY <1>3, EmptyType
<1> QED
    BY <1>1, <1>4, SetInboxType

\* The rebuild of an inbox.
LEMMA RebuildType ==
    ASSUME TypeInv, NEW f \in Handlers, RebuildNext(f)
    PROVE  TypeInv'
<1> DEFINE c == h[f].cl
<1>0. HandlerInv /\ LocalsInv(h[f])
    BY DEF TypeInv, HandlerInv
<1>1. CASE RebuildLock(f)
    <2>1. HandlerInv'
        BY <1>0, <1>1, StepType DEF RebuildLock, HandlerStates
    <2> QED
        BY <1>0, <1>1, <2>1, FaultType DEF RebuildLock, LocalsInv, HandlerInv, TypeInv, TypeOK, db, history
<1>2. CASE RebuildCheck(f)
    <2>1. HandlerInv'
        BY <1>0, <1>2, StepType DEF RebuildCheck, HandlerStates
    <2> QED
        BY <1>2, <2>1, FaultType DEF RebuildCheck, LocalsInv, HandlerInv, TypeInv, TypeOK, redis, db, history
<1>3. CASE RebuildPage(f)
    <2>1. HandlerInv'
        <3>1. CASE Step(f, "unlock")
            BY <1>0, <1>3, <3>1, StepType DEF RebuildPage, HandlerStates
        <3>2. CASE \E q \in Ascending(PageOf(h[f].cl, h[f].off)) :
                     h' = [h EXCEPT ![f].page = q,
                                    ![f].pc = IF q = <<>> THEN RebuildDone(h[f].added) ELSE "push"]
            <4>1. PICK q \in Ascending(PageOf(h[f].cl, h[f].off)) :
                     h' = [h EXCEPT ![f].page = q,
                                    ![f].pc = IF q = <<>> THEN RebuildDone(h[f].added) ELSE "push"]
                BY <3>2
            <4> DEFINE pc == IF q = <<>> THEN RebuildDone(h[f].added) ELSE "push"
            <4>2. pc \in HandlerStates
                BY DEF RebuildDone, HandlerStates
            <4>3. q \in Seq(Msgs)
                BY <4>1, PageType DEF TypeInv, TypeOK
            <4>4. h' = [h EXCEPT ![f] = [h[f] EXCEPT !.page = q, !.pc = pc]]
                BY <4>1
            <4> HIDE DEF pc
            <4>5. LocalsInv([h[f] EXCEPT !.page = q, !.pc = pc])
                BY <1>0, <1>3, <4>2, <4>3 DEF LocalsInv, Handler, RebuildPage
            <4> QED
                BY <1>0, <4>4, <4>5, HandlerUpdate
        <3> QED
            BY <1>3, <3>1, <3>2 DEF RebuildPage
    <2> QED
        BY <1>3, <2>1, FaultType DEF RebuildPage, LocalsInv, HandlerInv, TypeInv, TypeOK, redis, db, history
<1>4. CASE RebuildPush(f)
    <2> DEFINE q == h[f].page
               added == h[f].added + Len(q)
               last == added >= MaxQueueLen \/ Len(q) < PageSize
    <2>0. c \in Clients /\ q \in Seq(Msgs) /\ inbox[c] \in Seq(Msgs)
        BY <1>0, <1>4 DEF LocalsInv, Handler, RebuildPush, TypeInv, TypeOK
    <2>1. HandlerInv'
        <3>1. CASE Step(f, "unlock")
            BY <1>0, <1>4, <3>1, StepType DEF RebuildPush, HandlerStates
        <3>2. CASE ~Step(f, "unlock")
            <4> DEFINE pc == IF last THEN RebuildDone(added) ELSE "page"
                       off == IF last THEN h[f].off ELSE h[f].off + PageSize
                       r == [h[f] EXCEPT !.added = added, !.page = <<>>, !.off = off, !.pc = pc]
            <4>1. pc \in HandlerStates
                BY DEF RebuildDone, HandlerStates
            <4>2. added \in Nat /\ off \in Nat
                <5>1. Len(q) \in Nat /\ h[f].added \in Nat /\ h[f].off \in Nat
                    BY <1>0, <2>0 DEF LocalsInv, Handler
                <5> QED
                    BY ONLY <5>1, BoundsAssumption
            <4>3. h' = [h EXCEPT ![f] = r]
                BY <1>4, <3>2 DEF RebuildPush
            <4> HIDE DEF pc, off, added
            <4>4. LocalsInv(r)
                BY <1>0, <1>4, <4>1, <4>2, EmptyType DEF LocalsInv, Handler, RebuildPush
            <4> HIDE DEF r
            <4> QED
                BY <1>0, <4>3, <4>4, HandlerUpdate
        <3> QED
            BY <3>1, <3>2
    <2>2. inbox' \in [Clients -> Seq(Msgs)] /\ inboxTtl' \subseteq Clients
        <3>1. inbox[c] \o q \in Seq(Msgs)
            BY <2>0, ConcatType
        <3>2. \A n \in 0..Len(q) : inbox[c] \o SubSeq(q, 1, n) \in Seq(Msgs)
            BY <2>0, PrefixType, ConcatType
        <3>3. \/ SetInbox(c, inbox[c] \o q, c \in inboxTtl)
              \/ \E n \in 0..Len(q) : SetInbox(c, inbox[c] \o SubSeq(q, 1, n), c \in inboxTtl)
            BY <1>4 DEF RebuildPush
        <3> QED
            BY <2>0, <3>1, <3>2, <3>3, SetInboxType DEF TypeInv, TypeOK
    <2> QED
        BY <1>4, <2>1, <2>2, FaultType DEF RebuildPush, LocalsInv, HandlerInv, TypeInv, TypeOK, db, history
<1>5. CASE RebuildExpire(f)
    <2>1. HandlerInv'
        BY <1>0, <1>5, StepType DEF RebuildExpire, HandlerStates
    <2>2. inbox' \in [Clients -> Seq(Msgs)] /\ inboxTtl' \subseteq Clients
        BY <1>0, <1>5, SetInboxType DEF RebuildExpire, KeepInbox, LocalsInv, TypeInv, TypeOK
    <2> QED
        BY <1>5, <2>1, <2>2, FaultType DEF RebuildExpire, LocalsInv, HandlerInv, TypeInv, TypeOK, db, history
<1>6. CASE RebuildUnlock(f)
    <2>1. HandlerInv'
        BY <1>0, <1>6, StepType DEF RebuildUnlock, HandlerStates
    <2> QED
        BY <1>6, <2>1, FaultType DEF RebuildUnlock, LocalsInv, HandlerInv, TypeInv, TypeOK, db, history
<1> QED
    BY <1>1, <1>2, <1>3, <1>4, <1>5, <1>6 DEF RebuildNext

\* The reads of a fetch.
LEMMA FetchType ==
    ASSUME TypeInv, NEW f \in Handlers,
           Poll(f) \/ ReadStart(f) \/ FetchLen(f) \/ FetchRange(f) \/ FetchMget(f)
    PROVE  TypeInv'
<1>0. HandlerInv /\ LocalsInv(h[f])
    BY DEF TypeInv, HandlerInv
<1>1. CASE Poll(f)
    BY <1>0, <1>1, StartType, FaultType
       DEF Poll, FetchStart, LocalsInv, HandlerInv, TypeInv, TypeOK, redis, db, history
<1>2. CASE ReadStart(f)
    BY <1>0, <1>2, StartType, FaultType
       DEF ReadStart, MarkReadStart, LocalsInv, HandlerInv, TypeInv, TypeOK, redis, db, history
<1>3. CASE FetchLen(f)
    <2>1. HandlerInv'
        BY <1>0, <1>3, StepType, EndRequestType DEF FetchLen, HandlerStates
    <2> QED
        BY <1>3, <2>1, FaultType DEF FetchLen, LocalsInv, HandlerInv, TypeInv, TypeOK, redis, db, history
<1>4. CASE FetchRange(f)
    <2> DEFINE q == inbox[h[f].cl]
               n == IF Len(q) < MaxInboxFetch THEN Len(q) ELSE MaxInboxFetch
    <2>1. HandlerInv'
        <3>1. CASE EndRequest(f)
            BY <1>0, <3>1, EndRequestType
        <3>2. CASE ~EndRequest(f)
            <4>1. q \in Seq(Msgs)
                BY <1>0, <1>4 DEF LocalsInv, FetchRange, TypeInv, TypeOK
            <4>2. n \in Nat /\ n <= Len(q)
                BY <4>1, BoundsAssumption
            <4>3. h' = [h EXCEPT ![f] = [h[f] EXCEPT !.pc = "mget", !.ids = SubSeq(q, 1, n)]]
                BY <1>4, <3>2 DEF FetchRange
            <4> HIDE DEF q, n
            <4>4. SubSeq(q, 1, n) \in Seq(Msgs)
                BY <4>1, <4>2, PrefixType
            <4>5. LocalsInv([h[f] EXCEPT !.pc = "mget", !.ids = SubSeq(q, 1, n)])
                BY <1>0, <1>4, <4>4 DEF LocalsInv, Handler, HandlerStates, FetchRange
            <4> QED
                BY <1>0, <4>3, <4>5, HandlerUpdate
        <3> QED
            BY <3>1, <3>2
    <2> QED
        BY <1>4, <2>1, FaultType DEF FetchRange, LocalsInv, HandlerInv, TypeInv, TypeOK, redis, db, history
<1>5. CASE FetchMget(f)
    <2> DEFINE ids == h[f].ids
               H == {i \in DOMAIN ids : ids[i] \in cache}
    <2>1. HandlerInv'
        <3>1. CASE EndRequest(f)
            BY <1>0, <3>1, EndRequestType
        <3>2. CASE ~EndRequest(f)
            <4>1. PICK hs \in SubSeqAt(ids, H), ms \in SubSeqAt(ids, DOMAIN ids \ H) :
                    h' = [h EXCEPT ![f].pc = IF hs = <<>> THEN "misses" ELSE "hits",
                                   ![f].ids = <<>>, ![f].hits = hs, ![f].misses = ms,
                                   ![f].st = [i \in DOMAIN hs |-> "count"]]
                BY <1>5, <3>2 DEF FetchMget
            <4> DEFINE pc == IF hs = <<>> THEN "misses" ELSE "hits"
                       st == [i \in DOMAIN hs |-> "count"]
                       r == [h[f] EXCEPT !.pc = pc, !.ids = <<>>, !.hits = hs, !.misses = ms, !.st = st]
            <4>2. ids \in Seq(Msgs) /\ H \in SUBSET (DOMAIN ids) /\ DOMAIN ids \ H \in SUBSET (DOMAIN ids)
                BY <1>0 DEF LocalsInv, Handler
            <4>3. h' = [h EXCEPT ![f] = r]
                BY <4>1
            <4> HIDE DEF H, ids
            <4>4. hs \in Seq(Msgs) /\ ms \in Seq(Msgs)
                BY <4>1, <4>2, SubSeqAtType
            <4>5. st \in Seq(HitStates) /\ Len(st) = Len(hs)
                BY <4>4 DEF HitStates
            <4>6. pc \in HandlerStates
                BY DEF HandlerStates
            <4> HIDE DEF pc, st
            <4>7. LocalsInv(r)
                BY <1>0, <1>5, <4>4, <4>5, <4>6, EmptyType DEF LocalsInv, Handler, FetchMget
            <4> HIDE DEF r
            <4> QED
                BY <1>0, <4>3, <4>7, HandlerUpdate
        <3> QED
            BY <3>1, <3>2
    <2> QED
        BY <1>5, <2>1, FaultType DEF FetchMget, LocalsInv, HandlerInv, TypeInv, TypeOK, redis, db, history
<1> QED
    BY <1>1, <1>2, <1>3, <1>4, <1>5

\* A hit handed over, and a hit that stays out of the answer.
LEMMA HandOverType ==
    ASSUME TypeInv, NEW f \in Handlers, NEW i \in DOMAIN h[f].hits, h[f].pc = "hits", HandOver(f, i)
    PROVE  HandlerInv' /\ dl' \in Worker /\ WorkerInv(dl)' /\ directDel' \subseteq Msgs /\ handed' \subseteq Msgs
<1> DEFINE m == h[f].hits[i]
           st == [h[f].st EXCEPT ![i] = "done"]
           r == [h[f] EXCEPT !.st = st, !.got = @ \cup {m}]
<1>0. HandlerInv /\ LocalsInv(h[f]) /\ dl \in Worker
    BY DEF TypeInv, TypeOK, HandlerInv
<1>1. m \in Msgs /\ h[f].hits \in Seq(Msgs) /\ h[f].st \in Seq(HitStates) /\ i \in 1..Len(h[f].st)
    BY <1>0 DEF LocalsInv, Handler
<1>2. HandlerInv'
    <2>1. st \in Seq(HitStates) /\ Len(st) = Len(h[f].st)
        BY <1>1, ExceptSeq DEF HitStates
    <2>2. h' = [h EXCEPT ![f] = r]
        BY DEF HandOver
    <2> HIDE DEF st
    <2>3. LocalsInv(r)
        BY <1>0, <1>1, <2>1 DEF LocalsInv, Handler
    <2> HIDE DEF r
    <2> QED
        BY <1>0, <2>2, <2>3, HandlerUpdate
<1>3. dl' \in Worker /\ WorkerInv(dl)'
    <2>1. Append(dl.chan, m) \in Seq(Msgs)
        BY <1>0, <1>1, AppendProperties DEF Worker
    <2>2. [dl EXCEPT !.chan = Append(@, m)] \in Worker /\ WorkerInv([dl EXCEPT !.chan = Append(@, m)])
        BY <1>0, <2>1 DEF Worker, WorkerInv, TypeInv
    <2> QED
        BY <1>0, <2>2 DEF HandOver, TypeInv, WorkerInv
<1>4. directDel' \subseteq Msgs /\ handed' \subseteq Msgs
    BY <1>1 DEF HandOver, TypeInv, TypeOK
<1> QED
    BY <1>2, <1>3, <1>4

LEMMA SkipType ==
    ASSUME TypeInv, NEW f \in Handlers, NEW i \in DOMAIN h[f].hits, NEW s \in HitStates,
           h[f].pc = "hits", Skip(f, i, s)
    PROVE  HandlerInv' /\ dl' \in Worker /\ WorkerInv(dl)' /\ directDel' \subseteq Msgs /\ handed' \subseteq Msgs
<1> DEFINE st == [h[f].st EXCEPT ![i] = s]
           r == [h[f] EXCEPT !.st = st]
<1>0. HandlerInv /\ LocalsInv(h[f])
    BY DEF TypeInv, TypeOK, HandlerInv
<1>1. h[f].hits \in Seq(Msgs) /\ h[f].st \in Seq(HitStates) /\ i \in 1..Len(h[f].st)
    BY <1>0 DEF LocalsInv, Handler
<1>2. st \in Seq(HitStates) /\ Len(st) = Len(h[f].st)
    BY <1>1, ExceptSeq
<1>3. h' = [h EXCEPT ![f] = r]
    BY DEF Skip
<1>4. LocalsInv(r)
    <2> HIDE DEF st
    <2> QED
        BY <1>0, <1>1, <1>2 DEF LocalsInv, Handler
<1>5. HandlerInv'
    <2> HIDE DEF r
    <2> QED
        BY <1>0, <1>3, <1>4, HandlerUpdate
<1> QED
    BY <1>5 DEF Skip, TypeInv, TypeOK, WorkerInv

LEMMA HitType ==
    ASSUME TypeInv, NEW f \in Handlers, HitNext(f)
    PROVE  TypeInv'
<1>1. PICK i \in DOMAIN h[f].hits : HitCount(f, i) \/ HitBill(f, i)
    BY DEF HitNext
<1>2. h[f].hits[i] \in Msgs
    BY DEF TypeInv, HandlerInv, LocalsInv, Handler
<1>3. "bill" \in HitStates /\ "none" \in HitStates
    BY DEF HitStates
<1>4. CASE HitCount(f, i)
    <2>1. HandlerInv' /\ dl' \in Worker /\ WorkerInv(dl)' /\ directDel' \subseteq Msgs /\ handed' \subseteq Msgs
        BY <1>3, <1>4, HandOverType, SkipType DEF HitCount
    <2> QED
        BY <1>2, <1>4, <2>1, FaultType DEF HitCount, HandlerInv, LocalsInv, TypeInv, TypeOK, WorkerInv, db
<1>5. CASE HitBill(f, i)
    <2>1. HandlerInv' /\ dl' \in Worker /\ WorkerInv(dl)' /\ directDel' \subseteq Msgs /\ handed' \subseteq Msgs
        BY <1>3, <1>5, HandOverType, SkipType DEF HitBill
    <2> QED
        <3>1. recvBilled' \in [Msgs -> Nat]
            <4>1. PICK n \in 0..MetricsRetries : recvBilled' = Billed(recvBilled, h[f].hits[i], n)
                BY <1>5, BoundsAssumption DEF HitBill
            <4> QED
                BY <1>2, <4>1, BilledType DEF TypeInv, TypeOK
        <3> QED
            BY <1>5, <2>1, <3>1, FaultType
               DEF HitBill, HandlerInv, LocalsInv, TypeInv, TypeOK, WorkerInv, redis, db
<1> QED
    BY <1>1, <1>4, <1>5

\* The end of a fetch: the two trims of the inbox, the read marks, the answer.
LEMMA FetchEndType ==
    ASSUME TypeInv, NEW f \in Handlers, FetchTrimHits(f) \/ FetchFallback(f)
    PROVE  TypeInv'
<1>0. HandlerInv /\ LocalsInv(h[f]) /\ h[f].cl \in Clients
    BY DEF TypeInv, HandlerInv, LocalsInv, FetchTrimHits, FetchFallback
<1>1. ASSUME NEW pc \in HandlerStates, h[f].pc # "idle",
             h' = [h EXCEPT ![f].pc = pc, ![f].mk = MarkAll(f)]
      PROVE  HandlerInv'
    <2>1. MarkAll(f) \in [Msgs -> MarkStates]
        BY DEF MarkAll, MarkStates
    <2>2. LocalsInv([h[f] EXCEPT !.pc = pc, !.mk = MarkAll(f)])
        BY <1>0, <2>1 DEF LocalsInv, Handler
    <2>3. h' = [h EXCEPT ![f] = [h[f] EXCEPT !.pc = pc, !.mk = MarkAll(f)]]
        BY <1>1
    <2> QED
        BY <1>0, <2>2, <2>3, HandlerUpdate
<1>2. ASSUME NEW D, TrimInbox(h[f].cl, D) \/ UNCHANGED <<inbox, inboxTtl>>
      PROVE  inbox' \in [Clients -> Seq(Msgs)] /\ inboxTtl' \subseteq Clients
    BY <1>0, <1>2, TrimInboxType DEF TypeInv, TypeOK
<1>3. CASE FetchTrimHits(f)
    <2>1. HandlerInv'
        <3>1. (IF h[f].misses = <<>> THEN "mark" ELSE "misses") \in HandlerStates
            BY DEF HandlerStates
        <3> QED
            BY <1>0, <1>1, <1>3, <3>1, EndRequestType DEF FetchTrimHits
    <2>2. inbox' \in [Clients -> Seq(Msgs)] /\ inboxTtl' \subseteq Clients
        BY <1>2, <1>3 DEF FetchTrimHits, KeepInbox
    <2> QED
        BY <1>3, <2>1, <2>2, FaultType
           DEF FetchTrimHits, LocalsInv, HandlerInv, TypeInv, TypeOK, db, history
<1>4. CASE FetchFallback(f)
    <2>1. HandlerInv'
        <3>1. "mark" \in HandlerStates
            BY DEF HandlerStates
        <3> QED
            BY <1>0, <1>1, <1>4, <3>1, EndRequestType DEF FetchFallback
    <2>2. inbox' \in [Clients -> Seq(Msgs)] /\ inboxTtl' \subseteq Clients
        BY <1>2, <1>4 DEF FetchFallback, KeepInbox
    <2> QED
        BY <1>4, <2>1, <2>2, FaultType
           DEF FetchFallback, LocalsInv, HandlerInv, TypeInv, TypeOK, db, history
<1> QED
    BY <1>3, <1>4

LEMMA MarkType ==
    ASSUME TypeInv, NEW f \in Handlers, MarkNext(f)
    PROVE  TypeInv'
<1>0. HandlerInv /\ LocalsInv(h[f])
    BY DEF TypeInv, HandlerInv
<1>1. ASSUME NEW m \in Msgs, NEW s \in MarkStates, h[f].pc # "idle", h' = [h EXCEPT ![f].mk[m] = s]
      PROVE  HandlerInv'
    <2>1. LocalsInv([h[f] EXCEPT !.mk[m] = s])
        BY <1>0 DEF LocalsInv, Handler
    <2>2. h' = [h EXCEPT ![f] = [h[f] EXCEPT !.mk[m] = s]]
        BY <1>1
    <2> QED
        BY <1>0, <2>1, <2>2, HandlerUpdate
<1>2. "no" \in MarkStates /\ "set" \in MarkStates
    BY DEF MarkStates
<1>3. ASSUME NEW m \in Msgs, MarkCheck(f, m)
      PROVE  TypeInv'
    <2>1. HandlerInv'
        BY <1>1, <1>2, <1>3 DEF MarkCheck
    <2> QED
        BY <1>3, <2>1, FaultType DEF MarkCheck, LocalsInv, HandlerInv, TypeInv, TypeOK, redis, db, history
<1>4. ASSUME NEW m \in Msgs, MarkSet(f, m)
      PROVE  TypeInv'
    <2>1. HandlerInv'
        BY <1>1, <1>2, <1>4 DEF MarkSet
    <2>2. h[f].cl \in Clients
        BY <1>0, <1>4 DEF MarkSet, LocalsInv
    <2> QED
        BY <1>4, <2>1, <2>2, FaultType DEF MarkSet, LocalsInv, HandlerInv, TypeInv, TypeOK, db
<1>5. CASE Answer(f)
    <2>1. HandlerInv'
        BY <1>0, <1>5, EndRequestType DEF Answer
    <2>2. returned' \subseteq Msgs
        BY <1>0, <1>5 DEF Answer, LocalsInv, Handler, TypeInv, TypeOK
    <2> QED
        BY <1>5, <2>1, <2>2, FaultType DEF Answer, LocalsInv, HandlerInv, TypeInv, TypeOK, redis, db
<1> QED
    BY <1>3, <1>4, <1>5 DEF MarkNext

\* Keys that expire, and a crash.
LEMMA ExpiryType ==
    ASSUME TypeInv, ExpiryNext
    PROVE  TypeInv'
<1>1. ASSUME NEW m \in Msgs, CacheExpire(m) \/ PendingExpire(m)
      PROVE  TypeInv'
    BY <1>1, FaultType
       DEF CacheExpire, PendingExpire, HandlerInv, TypeInv, TypeOK, WorkerInv, db, process, history
<1>2. ASSUME NEW c \in Clients, InboxExpire(c) \/ LockExpire(c)
      PROVE  TypeInv'
    <2>1. inbox' \in [Clients -> Seq(Msgs)] /\ inboxTtl' \subseteq Clients
        BY <1>2, EmptyType, SetInboxType DEF InboxExpire, LockExpire, TypeInv, TypeOK
    <2> QED
        BY <1>2, <2>1, FaultType
           DEF InboxExpire, LockExpire, HandlerInv, TypeInv, TypeOK, WorkerInv, db, process, history
<1> QED
    BY <1>1, <1>2 DEF ExpiryNext

LEMMA CrashType ==
    ASSUME TypeInv, Crash
    PROVE  TypeInv'
<1>1. HandlerInv'
    BY IdleHandlerType DEF Crash, HandlerInv, LocalsInv
<1>2. IdleWorker \in Worker /\ WorkerInv(IdleWorker)
    BY EmptyType DEF IdleWorker, Worker, WorkerInv
<1>3. snd' \in [Msgs -> SendStates]
    BY DEF Crash, TypeInv, TypeOK, SendStates
<1>4. pendingRead' \in [Msgs -> Clients \cup {NoClient}] /\ receipts' \subseteq rows' \X Clients
    BY TakeReadsType DEF Crash
<1> QED
    BY <1>1, <1>2, <1>3, <1>4, FaultType
       DEF Crash, HandlerInv, LocalsInv, TypeInv, TypeOK, WorkerInv, history

LEMMA StutterType ==
    ASSUME TypeInv, UNCHANGED vars
    PROVE  TypeInv'
BY DEF vars, redis, db, process, history, TypeInv, TypeOK, WorkerInv, HandlerInv

\* Every step of the system keeps the types.
LEMMA NextType ==
    ASSUME TypeInv, [Next]_vars
    PROVE  TypeInv'
<1>1. ASSUME NEW m \in Msgs,
             SendVerify(m) \/ SendNext(m) \/ EmergencyWrite(m) \/ EmergencyTimeout(m) \/ DirectDelete(m)
      PROVE  TypeInv'
    BY <1>1, SendType, TaskType
<1>2. ASSUME NEW f \in Handlers, Poll(f) \/ ReadStart(f) \/ RequestNext(f)
      PROVE  TypeInv'
    BY <1>2, FetchType, RebuildType, HitType, FetchEndType, MarkType DEF RequestNext
<1> QED
    BY <1>1, <1>2, FlusherType, DeleterType, ExpiryType, CrashType, StutterType DEF Next

\* What the Redis keys, the tables, the channels and the locals of every
\* request hold, in every reachable state (TypeOK).
THEOREM TypeCorrect == Spec => []TypeOK
<1>1. Init => TypeInv
    BY InitType
<1>2. TypeInv /\ [Next]_vars => TypeInv'
    BY NextType
<1>3. TypeInv => TypeOK
    BY DEF TypeInv
<1> QED
    BY <1>1, <1>2, <1>3, PTL DEF Spec

(***************************************************************************)
(* Delivery: who bills a message, and who may delete it                    *)
(***************************************************************************)
\* Hit i of request f has set the flag of its message and is about to bill it.
Bills(f, i) == h[f].pc = "hits" /\ i \in DOMAIN h[f].st /\ h[f].st[i] = "bill"

\* The flag of a message is set before anyone bills it or queues its delete; at
\* most one hit of one request is about to bill it, and nobody has by then.
DeliveryInv ==
    /\ DeletesAreHanded
    /\ CountOnce
    /\ \A m \in Msgs : m \notin counted => recvBilled[m] = 0
    /\ \A f \in Handlers : \A i \in DOMAIN h[f].hits : Bills(f, i) =>
          /\ h[f].hits[i] \in counted
          /\ recvBilled[h[f].hits[i]] = 0
          /\ \A g \in Handlers : \A j \in DOMAIN h[g].hits :
                Bills(g, j) /\ h[g].hits[j] = h[f].hits[i] => g = f /\ j = i

\* What every step but those of a hit leaves alone: nothing is flagged, handed
\* over or billed, no delete is queued and no hit gets ready to bill.
HitsQuiet == \A g \in Handlers : \A i \in DOMAIN h'[g].hits :
                Bills(g, i)' => Bills(g, i) /\ i \in DOMAIN h[g].hits /\ h'[g].hits[i] = h[g].hits[i]
DeletesQuiet == \A m \in Msgs : InDelete(m)' => InDelete(m)
Quiet == /\ HitsQuiet /\ DeletesQuiet
         /\ UNCHANGED <<counted, handed, recvBilled>>

LEMMA FailedGrows ==
    ASSUME NoFault \/ \E kind : Fault(kind)
    PROVE  failed \subseteq failed'
BY DEF NoFault, Fault

LEMMA DeliveryInit == Init => DeliveryInv
<1> SUFFICES ASSUME Init PROVE DeliveryInv
    OBVIOUS
<1>1. \A m : ~InDelete(m)
    BY DEF Init, InDelete, InSeq, IdleWorker
<1>2. \A f \in Handlers : \A i : ~Bills(f, i)
    BY DEF Init, Bills, IdleHandler
<1>3. \A m \in Msgs : recvBilled[m] = 0
    BY DEF Init
<1>4. CountOnce
    BY <1>3, BoundsAssumption DEF CountOnce
<1> QED
    BY <1>1, <1>2, <1>3, <1>4 DEF Init, DeliveryInv, DeletesAreHanded

LEMMA QuietKeeps ==
    ASSUME TypeInv, DeliveryInv, Quiet, failed \subseteq failed', HandlerInv'
    PROVE  DeliveryInv'
<1>1. DeletesAreHanded'
    BY DEF Quiet, DeletesQuiet, DeliveryInv, DeletesAreHanded
<1>2. CountOnce'
    <2>1. \A m \in Msgs : recvBilled[m] \in Nat
        BY DEF TypeInv, TypeOK
    <2> QED
        BY <2>1, BoundsAssumption DEF Quiet, DeliveryInv, CountOnce
<1> QED
    BY <1>1, <1>2 DEF Quiet, HitsQuiet, DeliveryInv

\* A handler that ends in another step than "hits", or with no hit to bill, is
\* quiet.
LEMMA HitsQuietUpdate ==
    ASSUME HandlerInv, NEW f \in Handlers, NEW r, h' = [h EXCEPT ![f] = r],
           r.pc # "hits" \/ \A i \in DOMAIN r.st : r.st[i] # "bill"
    PROVE  HitsQuiet
BY DEF HandlerInv, HitsQuiet, Bills

LEMMA HitsQuietStep ==
    ASSUME HandlerInv, NEW f \in Handlers,
           EndRequest(f) \/ \E pc \in HandlerStates \ {"hits"} : Step(f, pc)
    PROVE  HitsQuiet
<1>1. CASE EndRequest(f)
    <2>1. IdleHandler.pc = "idle"
        BY DEF IdleHandler
    <2> QED
        BY <1>1, <2>1, HitsQuietUpdate DEF EndRequest
<1>2. ASSUME NEW pc \in HandlerStates \ {"hits"}, Step(f, pc)
      PROVE  HitsQuiet
    <2>1. h' = [h EXCEPT ![f] = [h[f] EXCEPT !.pc = pc]]
        BY <1>2 DEF Step
    <2>2. [h[f] EXCEPT !.pc = pc].pc # "hits"
        BY DEF HandlerInv, LocalsInv, Handler
    <2> QED
        BY <2>1, <2>2, HitsQuietUpdate
<1> QED
    BY <1>1, <1>2

LEMMA HitsQuietSame ==
    ASSUME UNCHANGED h
    PROVE  HitsQuiet
BY DEF HitsQuiet, Bills

\* Sends, spawned tasks and the flusher know nothing of deliveries.
LEMMA WritersQuiet ==
    ASSUME TypeInv,
           FlusherNext \/ \E m \in Msgs : SendVerify(m) \/ SendNext(m) \/ EmergencyWrite(m)
                                          \/ EmergencyTimeout(m)
    PROVE  Quiet /\ failed \subseteq failed'
<1>1. UNCHANGED <<h, dl, directDel, counted, handed, recvBilled>> /\ (NoFault \/ \E kind : Fault(kind))
    <2>1. CASE FlusherNext
        BY <2>1 DEF FlusherNext, FlusherRecv, FlusherTick, FlushCommit, FlushReads, FlushClean,
                    FlushCleanFails, redis, history
    <2>2. ASSUME NEW m \in Msgs, SendVerify(m) \/ SendNext(m)
          PROVE  UNCHANGED <<h, dl, directDel, counted, handed, recvBilled>>
                 /\ (NoFault \/ \E kind : Fault(kind))
        BY <2>2 DEF SendVerify, SendNext, SendCount, SendMetrics, SendCache, SendPush, SendTrim,
                    SendQueue, SendEmergency, redis, history
    <2>3. ASSUME NEW m \in Msgs, EmergencyWrite(m) \/ EmergencyTimeout(m)
          PROVE  UNCHANGED <<h, dl, directDel, counted, handed, recvBilled>>
                 /\ (NoFault \/ \E kind : Fault(kind))
        BY <2>3 DEF EmergencyWrite, EmergencyTimeout, redis, history
    <2> QED
        BY <2>1, <2>2, <2>3
<1> QED
    BY <1>1, FailedGrows, HitsQuietSame DEF Quiet, DeletesQuiet, InDelete

\* The deleter moves a delete from its channel through its buffer to its batch.
LEMMA DeleterQuiet ==
    ASSUME TypeInv, DeleterNext \/ \E m \in Msgs : DirectDelete(m)
    PROVE  Quiet /\ failed \subseteq failed'
<1>0. /\ dl.chan \in Seq(Msgs) /\ dl.buf \in Seq(Msgs) /\ dl.batch \in Seq(Msgs) /\ dl \in Worker
      /\ dl.pc = "idle" => dl.batch = <<>>
    BY DEF TypeInv, TypeOK, Worker, WorkerInv
<1>1. UNCHANGED <<h, counted, handed, recvBilled>> /\ (NoFault \/ \E kind : Fault(kind))
    BY DEF DeleterNext, DeleterRecv, DeleterTick, DeleteBatchStart, DeleteCached, DeleteStored,
           DirectDelete, redis, history
<1>2. ASSUME NEW w \in Worker, DeleteBatchStart(w), UNCHANGED directDel,
             \A m : InSeq(m, w.chan) \/ InSeq(m, w.buf) \/ InSeq(m, w.batch) => InDelete(m)
      PROVE  DeletesQuiet
    <2>1. CASE dl' = w
        BY <1>2, <2>1 DEF DeletesQuiet, InDelete
    <2>2. CASE dl' = TakeBuffer(w, w.buf)
        <3>1. dl'.chan = w.chan /\ dl'.buf = <<>> /\ dl'.batch = w.buf
            BY <2>2 DEF TakeBuffer, Worker
        <3> QED
            BY <1>2, <3>1, NoneInEmpty DEF DeletesQuiet, InDelete
    <2> QED
        BY <1>2, <2>1, <2>2 DEF DeleteBatchStart
<1>3. CASE DeleterRecv
    <2> DEFINE w == [dl EXCEPT !.chan = Tail(@), !.buf = Append(@, Head(dl.chan))]
    <2>1. /\ Head(dl.chan) \in Msgs /\ Tail(dl.chan) \in Seq(Msgs)
          /\ \A m : InSeq(m, dl.chan) <=> m = Head(dl.chan) \/ InSeq(m, Tail(dl.chan))
        BY <1>0, <1>3, HeadTailType DEF DeleterRecv
    <2>2. /\ Append(dl.buf, Head(dl.chan)) \in Seq(Msgs)
          /\ \A m : InSeq(m, Append(dl.buf, Head(dl.chan))) <=> InSeq(m, dl.buf) \/ m = Head(dl.chan)
        BY ONLY <1>0, <2>1, AppendType
    <2>3. w \in Worker /\ \A m : InSeq(m, w.chan) \/ InSeq(m, w.buf) \/ InSeq(m, w.batch) => InDelete(m)
        BY <1>0, <2>1, <2>2 DEF Worker, InDelete
    <2>4. UNCHANGED directDel /\ (DeleteBatchStart(w) \/ dl' = w)
        BY <1>3 DEF DeleterRecv
    <2> HIDE DEF w
    <2> QED
        BY <1>1, <1>2, <2>3, <2>4, FailedGrows, HitsQuietSame DEF Quiet, DeletesQuiet, InDelete
<1>4. CASE DeleterTick
    <2>1. DeletesQuiet
        BY <1>0, <1>2, <1>4 DEF DeleterTick, InDelete
    <2> QED
        BY <1>1, <2>1, FailedGrows, HitsQuietSame DEF Quiet
<1>5. CASE DeleteCached \/ DeleteStored
    <2>1. DeletesQuiet
        <3>1. /\ dl'.chan = dl.chan /\ dl'.buf = dl.buf /\ UNCHANGED directDel
              /\ dl'.batch = dl.batch \/ dl'.batch = <<>>
            BY <1>0, <1>5 DEF DeleteCached, DeleteStored, EndBatch, Worker
        <3> QED
            BY <3>1, NoneInEmpty DEF DeletesQuiet, InDelete
    <2> QED
        BY <1>1, <2>1, FailedGrows, HitsQuietSame DEF Quiet
<1>6. ASSUME NEW m \in Msgs, DirectDelete(m)
      PROVE  Quiet /\ failed \subseteq failed'
    <2>1. DeletesQuiet
        BY <1>6 DEF DirectDelete, DeletesQuiet, InDelete
    <2> QED
        BY <1>1, <2>1, FailedGrows, HitsQuietSame DEF Quiet
<1> QED
    BY <1>3, <1>4, <1>5, <1>6 DEF DeleterNext

\* A request is quiet outside its hits.
LEMMA RequestQuiet ==
    ASSUME TypeInv, NEW f \in Handlers,
           \/ Poll(f) \/ ReadStart(f) \/ FetchLen(f) \/ RebuildNext(f) \/ FetchRange(f)
           \/ FetchMget(f) \/ FetchTrimHits(f) \/ FetchFallback(f) \/ MarkNext(f)
    PROVE  Quiet /\ failed \subseteq failed'
<1>0. HandlerInv /\ h[f] \in Handler
    BY DEF TypeInv, HandlerInv
<1>1. UNCHANGED <<dl, directDel, counted, handed, recvBilled>> /\ (NoFault \/ \E kind : Fault(kind))
    <2>1. CASE Poll(f) \/ ReadStart(f) \/ FetchLen(f) \/ FetchRange(f) \/ FetchMget(f)
        BY <2>1 DEF Poll, FetchStart, ReadStart, MarkReadStart, FetchLen, FetchRange, FetchMget,
                    redis, history
    <2>2. CASE RebuildNext(f)
        BY <2>2 DEF RebuildNext, RebuildLock, RebuildCheck, RebuildPage, RebuildPush, RebuildExpire,
                    RebuildUnlock, redis, history
    <2>3. CASE FetchTrimHits(f) \/ FetchFallback(f) \/ MarkNext(f)
        BY <2>3 DEF FetchTrimHits, FetchFallback, MarkNext, MarkCheck, MarkSet, Answer, redis, history
    <2> QED
        BY <2>1, <2>2, <2>3
<1>2. ASSUME NEW r, h' = [h EXCEPT ![f] = r], r.pc # "hits"
      PROVE  HitsQuiet
    BY <1>0, <1>2, HitsQuietUpdate
<1>3. HitsQuiet
    <2>1. CASE Poll(f) \/ ReadStart(f)
        <3>1. CASE Poll(f)
            <4>1. PICK c \in Clients : h' = [h EXCEPT ![f] = [h[f] EXCEPT !.pc = "len", !.cl = c]]
                BY <3>1 DEF Poll, FetchStart
            <4>2. [h[f] EXCEPT !.pc = "len", !.cl = c].pc = "len"
                BY <1>0 DEF Handler
            <4> QED
                BY <1>2, <4>1, <4>2
        <3>2. CASE ReadStart(f)
            <4>0. PICK c \in Readers, m \in Msgs : MarkReadStart(f, c, m)
                BY <3>2 DEF ReadStart
            <4>1. h' = [h EXCEPT ![f] = [h[f] EXCEPT !.pc = "mark", !.cl = c, !.mk[m] = "check"]]
                BY <4>0 DEF MarkReadStart
            <4>2. [h[f] EXCEPT !.pc = "mark", !.cl = c, !.mk[m] = "check"].pc = "mark"
                BY <1>0 DEF Handler
            <4> QED
                BY <1>2, <4>1, <4>2
        <3> QED
            BY <2>1, <3>1, <3>2
    <2>2. CASE FetchLen(f)
        BY <1>0, <2>2, HitsQuietStep DEF FetchLen, HandlerStates
    <2>3. CASE FetchRange(f)
        <3>1. CASE EndRequest(f)
            BY <1>0, <3>1, HitsQuietStep
        <3>2. CASE ~EndRequest(f)
            <4>1. PICK n : h' = [h EXCEPT ![f] = [h[f] EXCEPT !.pc = "mget", !.ids = SubSeq(inbox[h[f].cl], 1, n)]]
                BY <2>3, <3>2 DEF FetchRange
            <4> DEFINE r == [h[f] EXCEPT !.pc = "mget", !.ids = SubSeq(inbox[h[f].cl], 1, n)]
            <4>2. r.pc = "mget"
                BY <1>0 DEF Handler
            <4> HIDE DEF r
            <4> QED
                BY <1>2, <4>1, <4>2 DEF r
        <3> QED
            BY <3>1, <3>2
    <2>4. CASE FetchMget(f)
        <3>1. CASE EndRequest(f)
            BY <1>0, <3>1, HitsQuietStep
        <3>2. CASE ~EndRequest(f)
            <4>1. PICK hs, ms : h' = [h EXCEPT ![f].pc = IF hs = <<>> THEN "misses" ELSE "hits",
                                   ![f].ids = <<>>, ![f].hits = hs, ![f].misses = ms,
                                   ![f].st = [i \in DOMAIN hs |-> "count"]]
                BY <2>4, <3>2 DEF FetchMget
            <4> DEFINE r == [h[f] EXCEPT !.pc = IF hs = <<>> THEN "misses" ELSE "hits",
                                         !.ids = <<>>, !.hits = hs, !.misses = ms,
                                         !.st = [i \in DOMAIN hs |-> "count"]]
            <4>2. h' = [h EXCEPT ![f] = r]
                BY <4>1
            <4>3. \A i \in DOMAIN r.st : r.st[i] # "bill"
                BY <1>0 DEF Handler
            <4> HIDE DEF r
            <4> QED
                BY <1>0, <4>2, <4>3, HitsQuietUpdate
        <3> QED
            BY <3>1, <3>2
    <2>5. CASE RebuildNext(f)
        <3>1. CASE RebuildLock(f) \/ RebuildCheck(f) \/ RebuildExpire(f) \/ RebuildUnlock(f)
            BY <1>0, <3>1, HitsQuietStep
               DEF RebuildLock, RebuildCheck, RebuildExpire, RebuildUnlock, HandlerStates
        <3>2. CASE RebuildPage(f)
            <4>1. CASE Step(f, "unlock")
                BY <1>0, <4>1, HitsQuietStep DEF HandlerStates
            <4>2. CASE ~Step(f, "unlock")
                <5>1. PICK q : h' = [h EXCEPT ![f].page = q,
                                        ![f].pc = IF q = <<>> THEN RebuildDone(h[f].added) ELSE "push"]
                    BY <3>2, <4>2 DEF RebuildPage
                <5> DEFINE r == [h[f] EXCEPT !.page = q,
                                        !.pc = IF q = <<>> THEN RebuildDone(h[f].added) ELSE "push"]
                <5>2. h' = [h EXCEPT ![f] = r]
                    BY <5>1
                <5>3. r.pc # "hits"
                    BY <1>0 DEF Handler, RebuildDone
                <5> HIDE DEF r
                <5> QED
                    BY <1>2, <5>2, <5>3
            <4> QED
                BY <4>1, <4>2
        <3>3. CASE RebuildPush(f)
            <4>1. CASE Step(f, "unlock")
                BY <1>0, <4>1, HitsQuietStep DEF HandlerStates
            <4>2. CASE ~Step(f, "unlock")
                <5> DEFINE q == h[f].page
                           added == h[f].added + Len(q)
                           last == added >= MaxQueueLen \/ Len(q) < PageSize
                           off == IF last THEN h[f].off ELSE h[f].off + PageSize
                           pc == IF last THEN RebuildDone(added) ELSE "page"
                           r == [h[f] EXCEPT !.added = added, !.page = <<>>, !.off = off, !.pc = pc]
                <5>1. h' = [h EXCEPT ![f] = r]
                    BY <3>3, <4>2 DEF RebuildPush
                <5>2. pc # "hits"
                    BY DEF RebuildDone
                <5> HIDE DEF added, off, pc
                <5>3. r.pc # "hits"
                    BY <1>0, <5>2 DEF Handler
                <5> HIDE DEF r
                <5> QED
                    BY <1>2, <5>1, <5>3
            <4> QED
                BY <4>1, <4>2
        <3> QED
            BY <2>5, <3>1, <3>2, <3>3 DEF RebuildNext
    <2>6. CASE FetchTrimHits(f) \/ FetchFallback(f)
        <3>1. CASE EndRequest(f)
            BY <1>0, <3>1, HitsQuietStep
        <3>2. CASE ~EndRequest(f)
            <4>1. PICK pc \in {"mark", "misses"} : h' = [h EXCEPT ![f] = [h[f] EXCEPT !.pc = pc, !.mk = MarkAll(f)]]
                BY <2>6, <3>2 DEF FetchTrimHits, FetchFallback
            <4>2. [h[f] EXCEPT !.pc = pc, !.mk = MarkAll(f)].pc # "hits"
                BY <1>0 DEF Handler
            <4> QED
                BY <1>2, <4>1, <4>2
        <3> QED
            BY <3>1, <3>2
    <2>7. CASE MarkNext(f)
        <3>1. ASSUME NEW m \in Msgs, MarkCheck(f, m) \/ MarkSet(f, m)
              PROVE  HitsQuiet
            <4>1. PICK s : h' = [h EXCEPT ![f] = [h[f] EXCEPT !.mk[m] = s]]
                BY <3>1 DEF MarkCheck, MarkSet
            <4>2. [h[f] EXCEPT !.mk[m] = s].pc = "mark"
                BY <1>0, <3>1 DEF Handler, MarkCheck, MarkSet
            <4> QED
                BY <1>2, <4>1, <4>2
        <3>2. CASE Answer(f)
            BY <1>0, <3>2, HitsQuietStep DEF Answer
        <3> QED
            BY <2>7, <3>1, <3>2 DEF MarkNext
    <2> QED
        BY <2>1, <2>2, <2>3, <2>4, <2>5, <2>6, <2>7
<1> QED
    BY <1>1, <1>3, FailedGrows DEF Quiet, DeletesQuiet, InDelete

\* So are expiries, a crash and a step of something else.
LEMMA RestQuiet ==
    ASSUME TypeInv, ExpiryNext \/ Crash \/ UNCHANGED vars
    PROVE  Quiet /\ failed \subseteq failed'
<1>1. CASE ExpiryNext
    <2>1. UNCHANGED <<h, dl, directDel, counted, handed, recvBilled>> /\ (NoFault \/ \E kind : Fault(kind))
        BY <1>1 DEF ExpiryNext, CacheExpire, InboxExpire, LockExpire, PendingExpire, process, history
    <2> QED
        BY <2>1, FailedGrows, HitsQuietSame DEF Quiet, DeletesQuiet, InDelete
<1>2. CASE Crash
    <2>1. HitsQuiet
        BY <1>2 DEF Crash, IdleHandler, HitsQuiet, Bills
    <2>2. DeletesQuiet
        BY <1>2, NoneInEmpty DEF Crash, IdleWorker, DeletesQuiet, InDelete
    <2> QED
        BY <1>2, <2>1, <2>2, FailedGrows DEF Crash, Quiet, redis, history
<1>3. CASE UNCHANGED vars
    BY <1>3, HitsQuietSame DEF vars, redis, process, history, Quiet, DeletesQuiet, InDelete
<1> QED
    BY <1>1, <1>2, <1>3

\* A hit is handed over: it no longer bills, its message is in handed and, by
\* assumption, flagged.
LEMMA HandOverDeletes ==
    ASSUME TypeInv, NEW f \in Handlers, NEW i \in DOMAIN h[f].hits, HandOver(f, i)
    PROVE  /\ \A m : InDelete(m)' => InDelete(m) \/ m = h[f].hits[i]
           /\ handed' = handed \cup {h[f].hits[i]}
           /\ h' = [h EXCEPT ![f] = [h[f] EXCEPT !.st[i] = "done", !.got = h[f].got \cup {h[f].hits[i]}]]
<1> DEFINE m == h[f].hits[i]
<1>1. m \in Msgs /\ dl \in Worker
    BY DEF TypeInv, TypeOK, HandlerInv, LocalsInv, Handler
<1>2. handed' = handed \cup {m}
    BY DEF HandOver
<1>3. h' = [h EXCEPT ![f] = [h[f] EXCEPT !.st[i] = "done", !.got = h[f].got \cup {m}]]
    <2>1. h[f] \in Handler
        BY DEF TypeInv, HandlerInv
    <2> QED
        BY <2>1 DEF HandOver, Handler
<1>4. \A k : InDelete(k)' => InDelete(k) \/ k = m
    <2>1. CASE dl' = dl /\ directDel' = directDel \cup {m}
        BY <2>1 DEF InDelete
    <2>2. CASE dl' = [dl EXCEPT !.chan = Append(@, m)] /\ directDel' = directDel
        <3>1. dl'.chan = Append(dl.chan, m) /\ dl'.buf = dl.buf /\ dl'.batch = dl.batch
            BY <1>1, <2>2 DEF Worker
        <3>2. \A k : InSeq(k, Append(dl.chan, m)) <=> InSeq(k, dl.chan) \/ k = m
            BY <1>1, AppendType DEF Worker
        <3> QED
            BY <2>2, <3>1, <3>2 DEF InDelete
    <2> QED
        BY <2>1, <2>2 DEF HandOver
<1> QED
    BY <1>2, <1>3, <1>4

\* What the step of hit i does to the hits of all requests: the hit itself gets
\* state s, the others stay.
LEMMA HitBills ==
    ASSUME TypeInv, NEW f \in Handlers, NEW i \in DOMAIN h[f].hits, h[f].pc = "hits",
           NEW s \in HitStates, NEW got,
           h' = [h EXCEPT ![f] = [h[f] EXCEPT !.st[i] = s, !.got = got]]
    PROVE  /\ \A g \in Handlers : h'[g].hits = h[g].hits
           /\ \A g \in Handlers : \A j \in DOMAIN h[g].hits :
                 g # f \/ j # i => (Bills(g, j)' <=> Bills(g, j))
           /\ Bills(f, i)' <=> s = "bill"
<1>1. /\ h \in [Handlers -> Handler] /\ h[f] \in Handler
      /\ h[f].st \in Seq(HitStates) /\ i \in DOMAIN h[f].st /\ Len(h[f].st) = Len(h[f].hits)
    BY DEF TypeInv, HandlerInv, LocalsInv, Handler
<1>2. \A g \in Handlers : g # f => h'[g] = h[g]
    BY <1>1
<1>3. /\ h'[f].hits = h[f].hits /\ h'[f].pc = h[f].pc
      /\ h'[f].st = [h[f].st EXCEPT ![i] = s]
    BY <1>1 DEF Handler
<1>4. /\ DOMAIN h'[f].st = DOMAIN h[f].st /\ h'[f].st[i] = s
      /\ \A j \in DOMAIN h[f].st : j # i => h'[f].st[j] = h[f].st[j]
    BY <1>1, <1>3
<1> QED
    BY <1>1, <1>2, <1>3, <1>4 DEF Bills

LEMMA SkipGot ==
    ASSUME TypeInv, NEW f \in Handlers, NEW i, NEW s, Skip(f, i, s)
    PROVE  h' = [h EXCEPT ![f] = [h[f] EXCEPT !.st[i] = s, !.got = h[f].got]]
<1>1. h[f] \in Handler
    BY DEF TypeInv, HandlerInv, LocalsInv
<1>2. [h[f] EXCEPT !.st[i] = s, !.got = h[f].got] = [h[f] EXCEPT !.st[i] = s]
    BY <1>1 DEF Handler
<1> QED
    BY <1>2 DEF Skip

\* The count of a hit, and its billing.
LEMMA HitDelivery ==
    ASSUME TypeInv, DeliveryInv, TypeInv', NEW f \in Handlers, HitNext(f)
    PROVE  DeliveryInv' /\ failed \subseteq failed'
<1>1. PICK i \in DOMAIN h[f].hits : HitCount(f, i) \/ HitBill(f, i)
    BY DEF HitNext
<1> DEFINE m == h[f].hits[i]
<1>2. m \in Msgs /\ h[f].pc = "hits" /\ i \in DOMAIN h[f].st
    BY <1>1 DEF TypeInv, HandlerInv, LocalsInv, Handler, HitCount, HitBill
<1>3. failed \subseteq failed'
    BY <1>1, FailedGrows DEF HitCount, HitBill
<1>4. recvBilled \in [Msgs -> Nat]
    BY DEF TypeInv, TypeOK
<1>5. ASSUME HandOver(f, i)
      PROVE  /\ \A k : InDelete(k)' => InDelete(k) \/ k = m
             /\ handed' = handed \cup {m}
             /\ \A g \in Handlers : h'[g].hits = h[g].hits
             /\ \A g \in Handlers : \A j \in DOMAIN h[g].hits :
                   Bills(g, j)' <=> Bills(g, j) /\ ~(g = f /\ j = i)
    <2>1. "done" \in HitStates
        BY DEF HitStates
    <2> DEFINE s == "done"
               got == h[f].got \cup {h[f].hits[i]}
    <2>2. s = "done" /\ h' = [h EXCEPT ![f] = [h[f] EXCEPT !.st[i] = s, !.got = got]]
        BY <1>5, HandOverDeletes
    <2>a. s \in HitStates
        BY <2>1
    <2> HIDE DEF s, got
    <2>3. /\ \A g \in Handlers : h'[g].hits = h[g].hits
          /\ \A g \in Handlers : \A j \in DOMAIN h[g].hits :
                g # f \/ j # i => (Bills(g, j)' <=> Bills(g, j))
          /\ Bills(f, i)' <=> s = "bill"
        BY ONLY TypeInv, f \in Handlers, i \in DOMAIN h[f].hits, <1>2, <2>a, <2>2, HitBills
    <2>4. ~Bills(f, i)'
        BY <2>2, <2>3
    <2> QED
        BY <1>5, <2>3, <2>4, HandOverDeletes
<1>6. ASSUME NEW s \in HitStates, Skip(f, i, s)
      PROVE  /\ \A k : InDelete(k)' => InDelete(k)
             /\ handed' = handed
             /\ \A g \in Handlers : h'[g].hits = h[g].hits
             /\ \A g \in Handlers : \A j \in DOMAIN h[g].hits :
                   g # f \/ j # i => (Bills(g, j)' <=> Bills(g, j))
             /\ Bills(f, i)' <=> s = "bill"
    <2>1. h' = [h EXCEPT ![f] = [h[f] EXCEPT !.st[i] = s, !.got = h[f].got]]
        BY <1>6, SkipGot
    <2>2. /\ \A g \in Handlers : h'[g].hits = h[g].hits
          /\ \A g \in Handlers : \A j \in DOMAIN h[g].hits :
                g # f \/ j # i => (Bills(g, j)' <=> Bills(g, j))
          /\ Bills(f, i)' <=> s = "bill"
        BY ONLY TypeInv, f \in Handlers, i \in DOMAIN h[f].hits, s \in HitStates, <1>2, <2>1, HitBills
    <2> QED
        BY <1>6, <2>2 DEF Skip, InDelete
<1>7. CASE HitCount(f, i)
    <2>0. UNCHANGED recvBilled
        BY <1>7 DEF HitCount
    <2>1. CountOnce'
        BY <1>3, <1>4, <2>0, BoundsAssumption DEF CountOnce, DeliveryInv
    <2>2. CASE m \notin counted /\ counted' = counted \cup {m} /\ Skip(f, i, "bill")
        BY <1>2, <1>3, <1>6, <2>0, <2>1, <2>2 DEF DeliveryInv, DeletesAreHanded, HitStates
    <2>3. CASE m \in counted' /\ counted \subseteq counted' /\ HandOver(f, i)
        BY <1>2, <1>3, <1>5, <2>0, <2>1, <2>3 DEF DeliveryInv, DeletesAreHanded
    <2>4. CASE counted \subseteq counted' /\ Skip(f, i, "none")
        BY <1>2, <1>3, <1>6, <2>0, <2>1, <2>4 DEF DeliveryInv, DeletesAreHanded, HitStates
    <2> QED
        BY <1>7, <2>2, <2>3, <2>4 DEF HitCount
<1>8. CASE HitBill(f, i)
    <2>0. UNCHANGED counted /\ Bills(f, i)
        BY <1>2, <1>8 DEF HitBill, redis, Bills
    <2>1. PICK n \in 0..MetricsRetries :
             recvBilled' = Billed(recvBilled, m, n) /\ (n > 1 => "metrics" \in failed')
        BY <1>8, BoundsAssumption DEF HitBill, Fault
    <2>2. /\ recvBilled' \in [Msgs -> Nat] /\ \A k \in Msgs : k # m => recvBilled'[k] = recvBilled[k]
          /\ recvBilled'[m] = n
        BY <1>2, <1>4, <2>0, <2>1, BoundsAssumption DEF Billed, DeliveryInv
    <2>3. CountOnce'
        BY <1>2, <1>3, <1>4, <2>1, <2>2, BoundsAssumption DEF CountOnce, DeliveryInv
    <2>4. /\ \A k : InDelete(k)' => InDelete(k) \/ (k = m /\ m \in handed')
          /\ handed \subseteq handed' /\ handed' \subseteq handed \cup {m}
          /\ \A g \in Handlers : h'[g].hits = h[g].hits
          /\ \A g \in Handlers : \A j \in DOMAIN h[g].hits :
                Bills(g, j)' => Bills(g, j) /\ ~(g = f /\ j = i)
        <3>1. CASE HandOver(f, i)
            BY <1>5, <3>1
        <3>2. CASE Skip(f, i, "none")
            BY <1>6, <3>2 DEF HitStates
        <3> QED
            BY <1>8, <3>1, <3>2 DEF HitBill
    <2>5. m \in counted
        BY <2>0 DEF DeliveryInv
    <2>6. DeletesAreHanded'
        BY <2>0, <2>4, <2>5 DEF DeliveryInv, DeletesAreHanded
    <2>7. \A k \in Msgs : k \notin counted' => recvBilled'[k] = 0
        BY <2>0, <2>2, <2>5 DEF DeliveryInv
    <2>8. ASSUME NEW g \in Handlers, NEW j \in DOMAIN h'[g].hits, Bills(g, j)'
          PROVE  /\ h'[g].hits[j] \in counted'
                 /\ recvBilled'[h'[g].hits[j]] = 0
                 /\ \A g2 \in Handlers : \A j2 \in DOMAIN h'[g2].hits :
                       Bills(g2, j2)' /\ h'[g2].hits[j2] = h'[g].hits[j] => g2 = g /\ j2 = j
        <3>1. Bills(g, j) /\ ~(g = f /\ j = i) /\ h'[g].hits = h[g].hits /\ j \in DOMAIN h[g].hits
            BY <2>4, <2>8
        <3>2. h[g].hits[j] # m
            BY <2>0, <3>1 DEF DeliveryInv
        <3>3. h[g].hits[j] \in Msgs
            <4>1. h[g].hits \in Seq(Msgs)
                BY DEF TypeInv, HandlerInv, LocalsInv, Handler
            <4> QED
                BY <3>1, <4>1
        <3> QED
            BY <2>0, <2>2, <2>4, <3>1, <3>2, <3>3 DEF DeliveryInv
    <2> QED
        BY <1>3, <2>3, <2>6, <2>7, <2>8 DEF DeliveryInv
<1> QED
    BY <1>1, <1>7, <1>8

LEMMA NextDelivery ==
    ASSUME TypeInv, DeliveryInv, [Next]_vars
    PROVE  DeliveryInv' /\ failed \subseteq failed'
<1>0. TypeInv' /\ HandlerInv'
    BY NextType DEF TypeInv
<1>1. ASSUME Quiet /\ failed \subseteq failed'
      PROVE  DeliveryInv' /\ failed \subseteq failed'
    BY <1>0, <1>1, QuietKeeps
<1>2. ASSUME NEW m \in Msgs,
             SendVerify(m) \/ SendNext(m) \/ EmergencyWrite(m) \/ EmergencyTimeout(m) \/ DirectDelete(m)
      PROVE  DeliveryInv' /\ failed \subseteq failed'
    BY <1>1, <1>2, WritersQuiet, DeleterQuiet
<1>3. ASSUME NEW f \in Handlers, Poll(f) \/ ReadStart(f) \/ RequestNext(f)
      PROVE  DeliveryInv' /\ failed \subseteq failed'
    BY <1>0, <1>1, <1>3, RequestQuiet, HitDelivery DEF RequestNext
<1> QED
    BY <1>1, <1>2, <1>3, WritersQuiet, DeleterQuiet, RestQuiet DEF Next

(***************************************************************************)
(* Storage: what the flusher carries and what the database keeps           *)
(***************************************************************************)
\* The batch of a flush that has committed is stored, or was delivered since.
FlushedInv == fl.pc \in {"second", "third"} => \A m : InSeq(m, fl.batch) => m \in rows \cup handed
StoreInv == NoSilentLoss /\ FlushedInv

\* Neither the database nor the process fails in this step.
NoAccident == failed' \cap {"db", "crash"} = failed \cap {"db", "crash"}

\* What every step keeps of a message once accepted.
Keeps ==
    /\ rows \subseteq rows' \cup handed'
    /\ handed \subseteq handed'
    /\ failed \subseteq failed'
    /\ \A m \in Msgs : snd'[m] = "ok" => snd[m] = "ok" \/ InFlush(m)' \/ m \in rows'
    /\ NoAccident => \A m \in Msgs : InFlush(m) => InFlush(m)' \/ m \in rows' \cup handed'

LEMMA KeepsStore ==
    ASSUME NoSilentLoss, Keeps
    PROVE  NoSilentLoss'
BY DEF Keeps, NoSilentLoss, NoAccident

\* A row leaves only with its message handed over.
LEMMA RowsStep ==
    ASSUME TypeInv, DeliveryInv, [Next]_vars
    PROVE  rows \ rows' \subseteq handed
<1>1. CASE DeleterNext
    <2>1. rows \ rows' \subseteq Elems(dl.batch)
        BY <1>1 DEF DeleterNext, DeleterRecv, DeleterTick, DeleteCached, DeleteStored, DeleteRows, db
    <2>2. \A m : m \in Elems(dl.batch) => m \in Msgs /\ InDelete(m)
        BY DEF Elems, InDelete, InSeq, TypeInv, TypeOK, Worker
    <2> QED
        BY <2>1, <2>2 DEF DeliveryInv, DeletesAreHanded
<1>2. ASSUME NEW m \in Msgs, DirectDelete(m)
      PROVE  rows \ rows' \subseteq handed
    <2>1. rows \ rows' \subseteq {m} /\ InDelete(m)
        BY <1>2 DEF DirectDelete, DeleteRows, InDelete, db
    <2> QED
        BY <2>1 DEF DeliveryInv, DeletesAreHanded
<1>3. ASSUME NEW m \in Msgs, SendVerify(m) \/ SendNext(m) \/ EmergencyWrite(m) \/ EmergencyTimeout(m)
      PROVE  rows \subseteq rows'
    BY <1>3 DEF SendVerify, SendNext, SendCount, SendMetrics, SendCache, SendPush, SendTrim, SendQueue,
                SendEmergency, EmergencyWrite, EmergencyTimeout, db
<1>4. CASE FlusherNext
    BY <1>4 DEF FlusherNext, FlusherRecv, FlusherTick, FlushCommit, FlushReads, FlushClean,
                FlushCleanFails, db
<1>5. ASSUME NEW f \in Handlers, Poll(f) \/ ReadStart(f) \/ RequestNext(f)
      PROVE  UNCHANGED rows
    BY <1>5 DEF Poll, FetchStart, ReadStart, MarkReadStart, RequestNext, FetchLen, FetchRange, FetchMget,
                RebuildNext, RebuildLock, RebuildCheck, RebuildPage, RebuildPush, RebuildExpire,
                RebuildUnlock, HitNext, HitCount, HitBill, FetchTrimHits, FetchFallback, MarkNext,
                MarkCheck, MarkSet, Answer, db
<1>6. CASE ExpiryNext \/ Crash \/ UNCHANGED vars
    BY <1>6 DEF ExpiryNext, CacheExpire, InboxExpire, LockExpire, PendingExpire, Crash, vars, db
<1> QED
    BY <1>1, <1>2, <1>3, <1>4, <1>5, <1>6 DEF Next

\* Hand-overs are never taken back.
LEMMA HandedStep ==
    ASSUME TypeInv, [Next]_vars
    PROVE  handed \subseteq handed'
<1>1. ASSUME NEW f \in Handlers, HitNext(f)
      PROVE  handed \subseteq handed'
    BY <1>1 DEF HitNext, HitCount, HitBill, HandOver, Skip
<1>2. ASSUME NEW f \in Handlers, Poll(f) \/ ReadStart(f) \/ RequestNext(f)
      PROVE  handed \subseteq handed'
    BY <1>1, <1>2, RequestQuiet DEF RequestNext, Quiet
<1> QED
    BY <1>2, WritersQuiet, DeleterQuiet, RestQuiet DEF Next, Quiet

\* The flusher moves a message from its channel through its buffer to its batch
\* and from there, unless the database fails, to the table.
LEMMA FlusherMoves ==
    ASSUME TypeInv, FlusherNext, FlushedInv
    PROVE  /\ NoAccident => \A m \in Msgs : InFlush(m) => InFlush(m)' \/ m \in rows' \cup handed'
           /\ FlushedInv'
<1>0. /\ fl.chan \in Seq(Msgs) /\ fl.buf \in Seq(Msgs) /\ fl.batch \in Seq(Msgs) /\ fl \in Worker
      /\ fl.pc = "idle" <=> fl.batch = <<>>
    BY DEF TypeInv, TypeOK, Worker, WorkerInv
<1>1. CASE FlusherRecv
    <2> DEFINE buf == Append(fl.buf, Head(fl.chan))
    <2>1. /\ Head(fl.chan) \in Msgs
          /\ \A m : InSeq(m, fl.chan) <=> m = Head(fl.chan) \/ InSeq(m, Tail(fl.chan))
        BY <1>0, <1>1, HeadTailType DEF FlusherRecv
    <2>2. \A m : InSeq(m, buf) <=> InSeq(m, fl.buf) \/ m = Head(fl.chan)
        BY ONLY <1>0, <2>1, AppendType
    <2>3. /\ fl'.chan = Tail(fl.chan)
          /\ \/ fl'.buf = buf /\ fl'.batch = fl.batch /\ fl'.pc = "idle"
             \/ fl'.buf = <<>> /\ fl'.batch = buf /\ fl'.pc = "first"
        BY <1>0, <1>1 DEF FlusherRecv, TakeBuffer, Worker
    <2> HIDE DEF buf
    <2> QED
        BY <1>0, <1>1, <2>1, <2>2, <2>3, NoneInEmpty DEF FlusherRecv, InFlush, FlushedInv
<1>2. CASE FlusherTick
    <2>1. fl'.chan = fl.chan /\ fl'.buf = <<>> /\ fl'.batch = fl.buf /\ fl'.pc = "first"
        BY <1>0, <1>2 DEF FlusherTick, TakeBuffer, Worker
    <2> QED
        BY <1>0, <1>2, <2>1, NoneInEmpty DEF FlusherTick, InFlush, FlushedInv
<1>3. CASE FlushCommit
    <2>1. CASE NoFault
        <3>1. /\ fl'.chan = fl.chan /\ fl'.buf = fl.buf /\ fl'.batch = fl.batch
              /\ rows' = rows \cup Elems(fl.batch)
            BY <1>0, <1>3, <2>1 DEF FlushCommit, Worker, NoFault, Fault
        <3> QED
            BY <3>1 DEF InFlush, FlushedInv, InSeq, Elems
    <2>2. CASE Fault("db") /\ fl' = EndBatch(fl)
        <3>1. fl'.pc = "idle" /\ ~NoAccident
            BY <1>0, <2>2 DEF EndBatch, Worker, Fault, NoAccident
        <3> QED
            BY <3>1 DEF FlushedInv
    <2> QED
        BY <1>3, <2>1, <2>2 DEF FlushCommit
<1>4. CASE FlushReads \/ FlushClean \/ FlushCleanFails
    <2>1. fl.pc \in {"second", "third"} /\ UNCHANGED <<rows, handed>>
        BY <1>4 DEF FlushReads, FlushClean, FlushCleanFails, db, history
    <2>2. /\ fl'.chan = fl.chan /\ fl'.buf = fl.buf
          /\ \A m : InSeq(m, fl'.batch) => InSeq(m, fl.batch)
        <3>1. CASE fl' = EndBatch(fl)
            BY <1>0, <3>1, NoneInEmpty DEF EndBatch, Worker
        <3>2. CASE fl' = [fl EXCEPT !.pc = "third"]
            BY <1>0, <3>2 DEF Worker
        <3>3. CASE fl' = [fl EXCEPT !.batch = Tail(@)]
            <4>1. \A m : InSeq(m, fl.batch) <=> m = Head(fl.batch) \/ InSeq(m, Tail(fl.batch))
                BY <1>0, <2>1, HeadTailType
            <4> QED
                BY <1>0, <3>3, <4>1 DEF Worker
        <3> QED
            BY <1>4, <3>1, <3>2, <3>3 DEF FlushReads, FlushClean, FlushCleanFails
    <2> QED
        BY <2>1, <2>2 DEF InFlush, FlushedInv
<1> QED
    BY <1>1, <1>2, <1>3, <1>4 DEF FlusherNext

\* Every step keeps what was accepted, until the database or the process fails.
LEMMA NextStore ==
    ASSUME TypeInv, DeliveryInv, StoreInv, [Next]_vars
    PROVE  StoreInv'
<1>0. /\ rows \ rows' \subseteq handed /\ handed \subseteq handed' /\ failed \subseteq failed'
      /\ FlushedInv
    BY RowsStep, HandedStep, NextDelivery DEF StoreInv
<1>1. ASSUME UNCHANGED fl
      PROVE  /\ \A m \in Msgs : InFlush(m) => InFlush(m)'
             /\ FlushedInv'
    BY <1>0, <1>1 DEF InFlush, FlushedInv
<1>2. CASE FlusherNext
    <2>1. UNCHANGED snd
        BY <1>2 DEF FlusherNext, FlusherRecv, FlusherTick, FlushCommit, FlushReads, FlushClean,
                    FlushCleanFails
    <2> QED
        BY <1>0, <1>2, <2>1, FlusherMoves, KeepsStore DEF Keeps, StoreInv
<1>3. ASSUME NEW m \in Msgs, SendQueue(m)
      PROVE  StoreInv'
    <2>1. fl \in Worker /\ fl.chan \in Seq(Msgs) /\ snd \in [Msgs -> SendStates]
        BY DEF TypeInv, TypeOK, Worker
    <2>2. \A k : InSeq(k, Append(fl.chan, m)) <=> InSeq(k, fl.chan) \/ k = m
        BY <2>1, AppendType
    <2>3. /\ fl'.chan = Append(fl.chan, m) /\ fl'.buf = fl.buf /\ fl'.batch = fl.batch
          /\ fl'.pc = fl.pc
        BY <1>3, <2>1 DEF SendQueue, Worker
    <2>4. \A k : (InFlush(k) => InFlush(k)') /\ InFlush(m)'
        BY <2>2, <2>3 DEF InFlush
    <2>5. \A k \in Msgs : snd'[k] = "ok" => snd[k] = "ok" \/ k = m
        BY <1>3, <2>1 DEF SendQueue, Goto
    <2>6. FlushedInv'
        BY <1>0, <1>3, <2>3 DEF SendQueue, FlushedInv
    <2> QED
        BY <1>0, <2>4, <2>5, <2>6, KeepsStore DEF Keeps, StoreInv
<1>4. ASSUME NEW m \in Msgs, ~SendQueue(m),
             SendVerify(m) \/ SendNext(m) \/ EmergencyWrite(m) \/ EmergencyTimeout(m)
      PROVE  StoreInv'
    <2>1. UNCHANGED fl /\ \A k \in Msgs : snd'[k] = "ok" => snd[k] = "ok" \/ k \in rows' \/ "db" \in failed'
        <3>1. snd \in [Msgs -> SendStates]
            BY DEF TypeInv, TypeOK
        <3>2. CASE EmergencyWrite(m)
            BY <3>1, <3>2 DEF EmergencyWrite, Goto
        <3>3. CASE ~EmergencyWrite(m)
            BY <1>4, <3>1, <3>3 DEF SendVerify, SendNext, SendCount, SendMetrics, SendCache, SendPush,
                    SendTrim, SendEmergency, EmergencyTimeout, Goto
        <3> QED
            BY <3>2, <3>3
    <2> QED
        BY <1>0, <1>1, <2>1 DEF StoreInv, NoSilentLoss
<1>5. ASSUME UNCHANGED <<fl, snd>>
      PROVE  StoreInv'
    BY <1>0, <1>1, <1>5, KeepsStore DEF Keeps, StoreInv
<1>6. CASE DeleterNext \/ \E m \in Msgs : DirectDelete(m)
    BY <1>5, <1>6 DEF DeleterNext, DeleterRecv, DeleterTick, DeleteCached, DeleteStored, DirectDelete
<1>7. ASSUME NEW f \in Handlers, Poll(f) \/ ReadStart(f) \/ RequestNext(f)
      PROVE  StoreInv'
    <2>1. UNCHANGED <<fl, snd>>
        BY <1>7 DEF Poll, FetchStart, ReadStart, MarkReadStart, RequestNext, FetchLen, FetchRange, FetchMget,
                RebuildNext, RebuildLock, RebuildCheck, RebuildPage, RebuildPush, RebuildExpire,
                RebuildUnlock, HitNext, HitCount, HitBill, FetchTrimHits, FetchFallback, MarkNext,
                MarkCheck, MarkSet, Answer
    <2> QED
        BY <1>5, <2>1
<1>8. CASE ExpiryNext \/ UNCHANGED vars
    BY <1>5, <1>8 DEF ExpiryNext, CacheExpire, InboxExpire, LockExpire, PendingExpire, process, vars
<1>9. CASE Crash
    <2>1. "crash" \in failed' /\ fl'.pc = "idle"
        BY <1>9 DEF Crash, Fault, IdleWorker
    <2> QED
        BY <2>1 DEF StoreInv, NoSilentLoss, FlushedInv
<1> QED
    BY <1>2, <1>3, <1>4, <1>6, <1>7, <1>8, <1>9 DEF Next

(***************************************************************************)
(* Billing: every accepted message once as sent, every delivered message   *)
(* once as received                                                        *)
(***************************************************************************)
\* No failure that leaves a message unbilled or billed twice.
Clean == failed \cap {"metrics", "redis", "crash"} = {}

\* Where the send of a message stands tells whether it has been billed, and a flag
\* that a fetch has set stands for one increment: made, or about to be made.
SentInv == \A m \in Msgs :
              /\ snd[m] \in {"new", "count", "metrics"} => sentBilled[m] = 0
              /\ snd[m] \in {"cache", "push", "trim", "queue", "emerg", "ok"} => sentBilled[m] = 1
SomeHitBills(m) == \E f \in Handlers : \E i \in DOMAIN h[f].hits : Bills(f, i) /\ h[f].hits[i] = m
FlagInv == \A m \in counted : recvBilled[m] = 1 \/ SomeHitBills(m)
BillInv == Clean => SentInv /\ FlagInv

LEMMA CleanBefore ==
    ASSUME failed \subseteq failed', Clean'
    PROVE  Clean
BY DEF Clean

\* A step of request f leaves the other requests alone, and outside its hits the
\* request has nothing left to bill: it ends its hits when all are done.
BillsKept == \A g \in Handlers : \A i \in DOMAIN h[g].hits :
                Bills(g, i) => Bills(g, i)' /\ i \in DOMAIN h'[g].hits /\ h'[g].hits[i] = h[g].hits[i]

LEMMA RequestKeepsBills ==
    ASSUME HandlerInv, NEW f \in Handlers,
           \/ Poll(f) \/ ReadStart(f) \/ FetchLen(f) \/ RebuildNext(f) \/ FetchRange(f)
           \/ FetchMget(f) \/ FetchTrimHits(f) \/ FetchFallback(f) \/ MarkNext(f)
    PROVE  BillsKept
<1>0. h \in [Handlers -> Handler] /\ h[f] \in Handler
    BY DEF HandlerInv
<1>1. \A g \in Handlers \ {f} : h'[g] = h[g]
    <2>1. CASE Poll(f) \/ ReadStart(f)
        BY <1>0, <2>1 DEF Poll, FetchStart, ReadStart, MarkReadStart
    <2>2. CASE FetchLen(f) \/ FetchRange(f)
        BY <1>0, <2>2 DEF FetchLen, FetchRange, Step, EndRequest
    <2>3. CASE FetchMget(f)
        BY <1>0, <2>3 DEF FetchMget, EndRequest
    <2>4. CASE RebuildLock(f) \/ RebuildCheck(f) \/ RebuildExpire(f) \/ RebuildUnlock(f)
        BY <1>0, <2>4 DEF RebuildLock, RebuildCheck, RebuildExpire, RebuildUnlock, Step
    <2>5. CASE RebuildPage(f)
        BY <1>0, <2>5 DEF RebuildPage, Step
    <2>6. CASE RebuildPush(f)
        BY <1>0, <2>6 DEF RebuildPush, Step
    <2>7. CASE FetchTrimHits(f) \/ FetchFallback(f)
        BY <1>0, <2>7 DEF FetchTrimHits, FetchFallback, EndRequest
    <2>8. CASE MarkNext(f)
        BY <1>0, <2>8 DEF MarkNext, MarkCheck, MarkSet, Answer, EndRequest
    <2> QED
        BY <2>1, <2>2, <2>3, <2>4, <2>5, <2>6, <2>7, <2>8 DEF RebuildNext
<1>2. \A i : ~Bills(f, i)
    <2>1. CASE FetchTrimHits(f)
        BY <2>1 DEF FetchTrimHits, Bills
    <2>2. CASE h[f].pc # "hits"
        BY <2>2 DEF Bills
    <2>3. CASE ~FetchTrimHits(f)
        BY <2>2, <2>3 DEF Poll, FetchStart, ReadStart, MarkReadStart, FetchLen, FetchRange, FetchMget,
                RebuildNext, RebuildLock, RebuildCheck, RebuildPage, RebuildPush, RebuildExpire,
                RebuildUnlock, FetchFallback, MarkNext, MarkCheck, MarkSet, Answer
    <2> QED
        BY <2>1, <2>3
<1> QED
    BY <1>1, <1>2 DEF BillsKept, Bills

LEMMA SameBills ==
    ASSUME UNCHANGED h
    PROVE  BillsKept
BY DEF BillsKept, Bills

\* A step that sets no flag and bills nothing keeps what the flags stand for.
LEMMA KeptFlags ==
    ASSUME BillInv, failed \subseteq failed', BillsKept, UNCHANGED <<counted, recvBilled>>
    PROVE  Clean' => FlagInv'
<1> SUFFICES ASSUME Clean', NEW m \in counted PROVE recvBilled[m] = 1 \/ SomeHitBills(m)'
    BY DEF FlagInv
<1>1. recvBilled[m] = 1 \/ SomeHitBills(m)
    BY CleanBefore DEF BillInv, FlagInv
<1>2. ASSUME SomeHitBills(m) PROVE SomeHitBills(m)'
    BY <1>2 DEF SomeHitBills, BillsKept
<1> QED
    BY <1>1, <1>2

\* The count of a hit sets the flag and gets ready to bill; the billing is one
\* increment.
LEMMA HitBilling ==
    ASSUME TypeInv, DeliveryInv, BillInv, NEW f \in Handlers, HitNext(f), failed \subseteq failed'
    PROVE  Clean' => FlagInv'
<1> SUFFICES ASSUME Clean' PROVE FlagInv'
    OBVIOUS
<1>1. PICK i \in DOMAIN h[f].hits : HitCount(f, i) \/ HitBill(f, i)
    BY DEF HitNext
<1>2. /\ h[f].hits[i] \in Msgs /\ h[f].pc = "hits" /\ i \in DOMAIN h[f].st
      /\ recvBilled \in [Msgs -> Nat] /\ counted \subseteq Msgs
    BY <1>1 DEF TypeInv, TypeOK, HandlerInv, LocalsInv, Handler, HitCount, HitBill
<1>m. PICK m \in Msgs : m = h[f].hits[i]
    BY <1>2
<1>3. FlagInv /\ ~Fault("redis") /\ ~Fault("metrics")
    BY CleanBefore DEF BillInv, Clean, Fault
<1>4. ASSUME NEW s \in {"done", "bill"}, NEW got,
             h' = [h EXCEPT ![f] = [h[f] EXCEPT !.st[i] = s, !.got = got]]
      PROVE  /\ \A k : SomeHitBills(k) => SomeHitBills(k)' \/ k = m
             /\ s = "bill" => SomeHitBills(m)'
    <2>1. s \in HitStates
        BY DEF HitStates
    <2>2. /\ \A g \in Handlers : h'[g].hits = h[g].hits
          /\ \A g \in Handlers : \A j \in DOMAIN h[g].hits :
                g # f \/ j # i => (Bills(g, j)' <=> Bills(g, j))
          /\ Bills(f, i)' <=> s = "bill"
        BY ONLY TypeInv, f \in Handlers, i \in DOMAIN h[f].hits, <1>2, <1>4, <2>1, HitBills
    <2> QED
        BY <1>m, <2>2 DEF SomeHitBills
<1>5. CASE HitCount(f, i)
    <2>1. UNCHANGED recvBilled
        BY <1>5 DEF HitCount
    <2>2. CASE m \notin counted
        <3>1. counted' = counted \cup {m} /\ Skip(f, i, "bill")
            BY <1>3, <1>5, <1>m, <2>2 DEF HitCount
        <3>2. h' = [h EXCEPT ![f] = [h[f] EXCEPT !.st[i] = "bill", !.got = h[f].got]]
            BY <3>1, SkipGot
        <3>3. /\ \A k : SomeHitBills(k) => SomeHitBills(k)' \/ k = m
              /\ SomeHitBills(m)'
            BY <1>4, <3>2
        <3> QED
            BY <1>3, <2>1, <3>1, <3>3 DEF FlagInv
    <2>3. CASE m \in counted
        <3>1. counted' = counted /\ HandOver(f, i)
            BY <1>3, <1>5, <1>m, <2>3 DEF HitCount
        <3>2. ~Bills(f, i)
            BY <1>5 DEF HitCount, Bills
        <3>3. h' = [h EXCEPT ![f] = [h[f] EXCEPT !.st[i] = "done", !.got = h[f].got \cup {m}]]
            BY <1>m, <3>1, HandOverDeletes
        <3>4. /\ "done" \in HitStates
              /\ \A g \in Handlers : h'[g].hits = h[g].hits
              /\ \A g \in Handlers : \A j \in DOMAIN h[g].hits :
                    g # f \/ j # i => (Bills(g, j)' <=> Bills(g, j))
            <4>1. "done" \in HitStates
                BY DEF HitStates
            <4> DEFINE got == h[f].got \cup {m}
            <4>2. h' = [h EXCEPT ![f] = [h[f] EXCEPT !.st[i] = "done", !.got = got]]
                BY <3>3
            <4> HIDE DEF got
            <4> QED
                BY ONLY TypeInv, f \in Handlers, i \in DOMAIN h[f].hits, <1>2, <4>1, <4>2, HitBills
        <3>5. \A k : SomeHitBills(k) => SomeHitBills(k)'
            BY <3>2, <3>4 DEF SomeHitBills
        <3> QED
            BY <1>3, <2>1, <3>1, <3>5 DEF FlagInv
    <2> QED
        BY <2>2, <2>3
<1>6. CASE HitBill(f, i)
    <2>1. /\ UNCHANGED counted /\ HandOver(f, i) /\ recvBilled' = Billed(recvBilled, m, 1)
          /\ recvBilled[m] = 0
        BY <1>2, <1>3, <1>6, <1>m DEF HitBill, redis, Bills, DeliveryInv
    <2>2. h' = [h EXCEPT ![f] = [h[f] EXCEPT !.st[i] = "done", !.got = h[f].got \cup {m}]]
        BY <1>m, <2>1, HandOverDeletes
    <2>3. \A k : SomeHitBills(k) => SomeHitBills(k)' \/ k = m
        BY <1>4, <2>2
    <2>4. recvBilled'[m] = 1 /\ \A k \in Msgs : k # m => recvBilled'[k] = recvBilled[k]
        BY <1>2, <2>1 DEF Billed
    <2> QED
        BY <1>2, <1>3, <2>1, <2>3, <2>4 DEF FlagInv
<1> QED
    BY <1>1, <1>5, <1>6

LEMMA NextFlags ==
    ASSUME TypeInv, DeliveryInv, BillInv, [Next]_vars, failed \subseteq failed'
    PROVE  Clean' => FlagInv'
<1>0. HandlerInv
    BY DEF TypeInv
<1>1. ASSUME UNCHANGED <<h, counted, recvBilled>>
      PROVE  Clean' => FlagInv'
    BY <1>1, SameBills, KeptFlags
<1>2. ASSUME NEW m \in Msgs,
             \/ SendVerify(m) \/ SendNext(m) \/ EmergencyWrite(m) \/ EmergencyTimeout(m)
             \/ DirectDelete(m)
      PROVE  UNCHANGED <<h, counted, recvBilled>>
    BY <1>2 DEF SendVerify, SendNext, SendCount, SendMetrics, SendCache, SendPush, SendTrim, SendQueue,
                SendEmergency, EmergencyWrite, EmergencyTimeout, DirectDelete, redis, history
<1>3. CASE FlusherNext \/ DeleterNext
    BY <1>1, <1>3 DEF FlusherNext, FlusherRecv, FlusherTick, FlushCommit, FlushReads, FlushClean,
                FlushCleanFails, DeleterNext, DeleterRecv, DeleterTick, DeleteCached, DeleteStored,
                redis, history
<1>4. ASSUME NEW f \in Handlers, ~HitNext(f), Poll(f) \/ ReadStart(f) \/ RequestNext(f)
      PROVE  Clean' => FlagInv'
    <2>1. BillsKept
        BY <1>0, <1>4, RequestKeepsBills DEF RequestNext
    <2>2. UNCHANGED <<counted, recvBilled>>
        BY <1>4, RequestQuiet DEF RequestNext, Quiet
    <2> QED
        BY <2>1, <2>2, KeptFlags
<1>5. CASE ExpiryNext \/ UNCHANGED vars
    BY <1>1, <1>5 DEF ExpiryNext, CacheExpire, InboxExpire, LockExpire, PendingExpire, process, history,
                vars, redis
<1>6. CASE Crash
    BY <1>6 DEF Crash, Fault, Clean
<1> QED
    BY <1>1, <1>2, <1>3, <1>4, <1>5, <1>6, HitBilling DEF Next

\* The send of message m moves on, and only the step of its metrics bills it.
LEMMA NextSent ==
    ASSUME TypeInv, BillInv, [Next]_vars, failed \subseteq failed'
    PROVE  Clean' => SentInv'
<1> SUFFICES ASSUME Clean' PROVE SentInv'
    OBVIOUS
<1>0. /\ SentInv /\ ~Fault("redis") /\ ~Fault("metrics")
      /\ snd \in [Msgs -> SendStates] /\ sentBilled \in [Msgs -> Nat]
    BY CleanBefore DEF BillInv, Clean, Fault, TypeInv, TypeOK
<1>1. ASSUME UNCHANGED <<snd, sentBilled>>
      PROVE  SentInv'
    BY <1>0, <1>1 DEF SentInv
<1>2. ASSUME NEW m \in Msgs, SendMetrics(m)
      PROVE  SentInv'
    <2>1. snd[m] = "metrics" /\ snd' = [snd EXCEPT ![m] = "cache"] /\ sentBilled' = Billed(sentBilled, m, 1)
        BY <1>0, <1>2 DEF SendMetrics, Goto
    <2>2. sentBilled'[m] = 1 /\ \A k \in Msgs : k # m => sentBilled'[k] = sentBilled[k]
        BY <1>0, <2>1 DEF Billed, SentInv
    <2> QED
        BY <1>0, <2>1, <2>2 DEF SentInv
<1>3. ASSUME NEW m \in Msgs, ~SendMetrics(m),
             SendVerify(m) \/ SendNext(m) \/ EmergencyWrite(m) \/ EmergencyTimeout(m)
      PROVE  SentInv'
    <2>1. UNCHANGED sentBilled
        BY <1>3 DEF SendVerify, SendNext, SendCount, SendCache, SendPush, SendTrim, SendQueue,
                    SendEmergency, EmergencyWrite, EmergencyTimeout, history
    <2>2. PICK s : /\ snd' = [snd EXCEPT ![m] = s] \/ UNCHANGED snd
                   /\ snd' # snd => \/ snd[m] = "new" /\ s \in {"count", "rejected"}
                                    \/ snd[m] = "count" /\ s = "metrics"
                                    \/ /\ snd[m] \in {"cache", "push", "trim", "queue", "emerg"}
                                       /\ s \in {"push", "trim", "queue", "emerg", "ok", "err"}
        <3>1. CASE SendVerify(m)
            BY <3>1 DEF SendVerify, Goto
        <3>2. CASE SendNext(m)
            BY <1>0, <1>3, <3>2 DEF SendNext, SendCount, SendCache, SendPush, SendTrim, SendQueue,
                                    SendEmergency, Goto
        <3>3. CASE EmergencyWrite(m) \/ EmergencyTimeout(m)
            BY <3>3 DEF EmergencyWrite, EmergencyTimeout, Goto
        <3> QED
            BY <1>3, <3>1, <3>2, <3>3
    <2> QED
        BY <1>0, <2>1, <2>2 DEF SentInv
<1>4. CASE FlusherNext \/ DeleterNext \/ \E m \in Msgs : DirectDelete(m)
    BY <1>1, <1>4 DEF FlusherNext, FlusherRecv, FlusherTick, FlushCommit, FlushReads, FlushClean,
                FlushCleanFails, DeleterNext, DeleterRecv, DeleterTick, DeleteCached, DeleteStored,
                DirectDelete, history
<1>5. ASSUME NEW f \in Handlers, Poll(f) \/ ReadStart(f) \/ RequestNext(f)
      PROVE  SentInv'
    <2>1. UNCHANGED <<snd, sentBilled>>
        BY <1>5 DEF Poll, FetchStart, ReadStart, MarkReadStart, RequestNext, FetchLen, FetchRange, FetchMget,
                RebuildNext, RebuildLock, RebuildCheck, RebuildPage, RebuildPush, RebuildExpire,
                RebuildUnlock, HitNext, HitCount, HitBill, FetchTrimHits, FetchFallback, MarkNext,
                MarkCheck, MarkSet, Answer, history
    <2> QED
        BY <1>1, <2>1
<1>6. CASE ExpiryNext \/ UNCHANGED vars
    BY <1>1, <1>6 DEF ExpiryNext, CacheExpire, InboxExpire, LockExpire, PendingExpire, process, history, vars
<1>7. CASE Crash
    BY <1>7 DEF Crash, Fault, Clean
<1> QED
    BY <1>2, <1>3, <1>4, <1>5, <1>6, <1>7 DEF Next

LEMMA NextBills ==
    ASSUME TypeInv, DeliveryInv, BillInv, [Next]_vars
    PROVE  BillInv'
BY NextDelivery, NextFlags, NextSent DEF BillInv

LEMMA InitBills == Init => BillInv
BY DEF Init, BillInv, SentInv, FlagInv

\* What BillInv says of the messages that were handed over.
LEMMA BillsBilled ==
    ASSUME TypeInv, DeliveryInv, BillInv
    PROVE  BilledUnlessFailed
<1> SUFFICES ASSUME Clean
             PROVE  /\ \A m \in Msgs : snd[m] = "ok" => sentBilled[m] = 1
                    /\ \A m \in handed : recvBilled[m] = 1 \/ Billing(m)
    BY DEF BilledUnlessFailed, DeliveredIsBilled, Clean
<1>1. \A m \in Msgs : snd[m] = "ok" => sentBilled[m] = 1
    BY DEF BillInv, SentInv
<1>2. ASSUME NEW m \in handed
      PROVE  recvBilled[m] = 1 \/ Billing(m)
    <2>1. recvBilled[m] = 1 \/ SomeHitBills(m)
        BY DEF DeliveryInv, DeletesAreHanded, BillInv, FlagInv
    <2>2. ASSUME SomeHitBills(m)
          PROVE  Billing(m)
        BY <2>2 DEF SomeHitBills, Bills, Billing
    <2> QED
        BY <2>1, <2>2
<1> QED
    BY <1>1, <1>2

(***************************************************************************)
(* Where a message can be: the lists and the requests of its recipient,    *)
(* and nowhere before its send has cached it                               *)
(***************************************************************************)
\* The messages the locals of a request hold.
Carried(r, m) == InSeq(m, r.page) \/ InSeq(m, r.ids) \/ InSeq(m, r.hits) \/ InSeq(m, r.misses)
                 \/ m \in r.got

AddressInv ==
    /\ \A c \in Clients : \A m \in Msgs : InSeq(m, inbox[c]) => Rcpt[m] = c
    /\ \A f \in Handlers : \A m \in Msgs : Carried(h[f], m) => h[f].pc # "idle" /\ Rcpt[m] = h[f].cl

\* What request f does with messages in one step: it ends or starts with none, or
\* adds some of its client's inbox or rows to them; and what it puts into an inbox
\* it carried, and puts into that of its client.
LocalFlow(f) ==
    /\ \A g \in Handlers : g # f => h'[g] = h[g]
    /\ \/ \A m \in Msgs : ~Carried(h'[f], m)
       \/ h[f].pc = "idle" /\ \A m \in Msgs : Carried(h'[f], m) => Carried(h[f], m)
       \/ /\ h'[f].cl = h[f].cl /\ h'[f].pc # "idle"
          /\ \A m \in Msgs : Carried(h'[f], m) =>
                \/ Carried(h[f], m)
                \/ InSeq(m, inbox[h[f].cl]) /\ h[f].cl \in Clients
                \/ m \in rows /\ Rcpt[m] = h[f].cl
InboxFlow(f) ==
    \A c \in Clients : \A m \in Msgs :
       InSeq(m, inbox'[c]) => InSeq(m, inbox[c]) \/ (c = h[f].cl /\ Carried(h[f], m))

LEMMA FlowAddress ==
    ASSUME AddressInv, NEW f \in Handlers, LocalFlow(f), InboxFlow(f)
    PROVE  AddressInv'
<1>1. \A c \in Clients : \A m \in Msgs : InSeq(m, inbox'[c]) => Rcpt[m] = c
    BY DEF AddressInv, InboxFlow
<1>2. ASSUME NEW m \in Msgs, Carried(h'[f], m)
      PROVE  h'[f].pc # "idle" /\ Rcpt[m] = h'[f].cl
    BY <1>2 DEF AddressInv, LocalFlow
<1>3. ASSUME NEW g \in Handlers, g # f, NEW m \in Msgs, Carried(h'[g], m)
      PROVE  h'[g].pc # "idle" /\ Rcpt[m] = h'[g].cl
    BY <1>3 DEF AddressInv, LocalFlow
<1>4. \A g \in Handlers : \A m \in Msgs : Carried(h'[g], m) => h'[g].pc # "idle" /\ Rcpt[m] = h'[g].cl
    BY <1>2, <1>3
<1> HIDE DEF Carried
<1> QED
    BY <1>1, <1>4 DEF AddressInv, Carried

LEMMA SameInboxFlow ==
    ASSUME inbox' = inbox
    PROVE  \A f : InboxFlow(f)
BY DEF InboxFlow

\* The three kinds of step of a request.
LEMMA EndFlow ==
    ASSUME HandlerInv, NEW f \in Handlers, EndRequest(f)
    PROVE  LocalFlow(f)
<1>1. h'[f] = IdleHandler /\ \A g \in Handlers : g # f => h'[g] = h[g]
    BY DEF EndRequest, HandlerInv
<1>2. \A m \in Msgs : ~Carried(IdleHandler, m)
    BY NoneInEmpty DEF Carried, IdleHandler
<1> QED
    BY <1>1, <1>2 DEF LocalFlow

LEMMA GoOnFlow ==
    ASSUME HandlerInv, NEW f \in Handlers, NEW r, h' = [h EXCEPT ![f] = r], r.cl = h[f].cl, r.pc # "idle",
           \A m \in Msgs : Carried(r, m) =>
              \/ Carried(h[f], m)
              \/ InSeq(m, inbox[h[f].cl]) /\ h[f].cl \in Clients
              \/ m \in rows /\ Rcpt[m] = h[f].cl
    PROVE  LocalFlow(f)
<1>1. h'[f] = r /\ \A g \in Handlers : g # f => h'[g] = h[g]
    BY DEF HandlerInv
<1> QED
    BY <1>1 DEF LocalFlow

LEMMA StepFlow ==
    ASSUME HandlerInv, NEW f \in Handlers, NEW pc \in HandlerStates, pc # "idle", Step(f, pc)
    PROVE  LocalFlow(f)
<1>1. h' = [h EXCEPT ![f] = [h[f] EXCEPT !.pc = pc]]
    BY DEF Step
<1> DEFINE r == [h[f] EXCEPT !.pc = pc]
<1>2. /\ r.pc = pc /\ r.cl = h[f].cl /\ r.page = h[f].page /\ r.ids = h[f].ids /\ r.hits = h[f].hits
      /\ r.misses = h[f].misses /\ r.got = h[f].got
    BY DEF HandlerInv, Handler
<1>3. \A m \in Msgs : Carried(r, m) => Carried(h[f], m)
    <2> HIDE DEF r
    <2> QED
        BY <1>2 DEF Carried
<1> HIDE DEF r
<1> QED
    BY <1>1, <1>2, <1>3, GoOnFlow DEF r

LEMMA StartFlow ==
    ASSUME HandlerInv, NEW f \in Handlers, Poll(f) \/ ReadStart(f)
    PROVE  LocalFlow(f) /\ InboxFlow(f)
<1>0. inbox' = inbox
    BY DEF Poll, ReadStart, FetchStart, MarkReadStart, redis
<1>1. ASSUME NEW r, h' = [h EXCEPT ![f] = r], h[f].pc = "idle", r.page = h[f].page, r.ids = h[f].ids,
             r.hits = h[f].hits, r.misses = h[f].misses, r.got = h[f].got
      PROVE  LocalFlow(f)
    <2>1. h'[f] = r /\ \A g \in Handlers : g # f => h'[g] = h[g]
        BY <1>1 DEF HandlerInv
    <2>2. \A m \in Msgs : Carried(r, m) => Carried(h[f], m)
        BY <1>1 DEF Carried
    <2> QED
        BY <1>1, <2>1, <2>2 DEF LocalFlow
<1>2. CASE Poll(f)
    <2>1. PICK c \in Clients : FetchStart(f, c)
        BY <1>2 DEF Poll
    <2> DEFINE r == [h[f] EXCEPT !.pc = "len", !.cl = c]
    <2>2. h' = [h EXCEPT ![f] = r] /\ h[f].pc = "idle"
        BY <2>1 DEF FetchStart
    <2>3. /\ r.page = h[f].page /\ r.ids = h[f].ids /\ r.hits = h[f].hits /\ r.misses = h[f].misses
          /\ r.got = h[f].got
        BY DEF HandlerInv, Handler
    <2> HIDE DEF r
    <2> QED
        BY <1>0, <1>1, <2>2, <2>3, SameInboxFlow
<1>3. CASE ReadStart(f)
    <2>1. PICK c \in Readers, m \in Msgs : MarkReadStart(f, c, m)
        BY <1>3 DEF ReadStart
    <2> DEFINE r == [h[f] EXCEPT !.pc = "mark", !.cl = c, !.mk[m] = "check"]
    <2>2. h' = [h EXCEPT ![f] = r] /\ h[f].pc = "idle"
        BY <2>1 DEF MarkReadStart
    <2>3. /\ r.page = h[f].page /\ r.ids = h[f].ids /\ r.hits = h[f].hits /\ r.misses = h[f].misses
          /\ r.got = h[f].got
        BY DEF HandlerInv, Handler
    <2> HIDE DEF r
    <2> QED
        BY <1>0, <1>1, <2>2, <2>3, SameInboxFlow
<1> QED
    BY <1>2, <1>3

\* A write of the inbox of c.
LEMMA SetInboxFlow ==
    ASSUME TypeInv, NEW f \in Handlers, NEW q, NEW ttl, SetInbox(h[f].cl, q, ttl),
           \A m \in Msgs : InSeq(m, q) => InSeq(m, inbox[h[f].cl]) \/ Carried(h[f], m)
    PROVE  InboxFlow(f)
BY DEF SetInbox, InboxFlow, TypeInv, TypeOK

LEMMA TrimInboxFlow ==
    ASSUME TypeInv, NEW f \in Handlers, h[f].cl \in Clients, NEW D,
           TrimInbox(h[f].cl, D) \/ KeepInbox
    PROVE  InboxFlow(f)
<1> DEFINE s == inbox[h[f].cl]
           K == {i \in DOMAIN s : s[i] \notin D}
<1>1. s \in Seq(Msgs) /\ K \in SUBSET (DOMAIN s)
    BY DEF TypeInv, TypeOK
<1>2. CASE KeepInbox
    BY <1>2, SameInboxFlow DEF KeepInbox
<1>3. CASE TrimInbox(h[f].cl, D)
    <2>1. PICK q \in SubSeqAt(s, K) : SetInbox(h[f].cl, IF TrimFits(h[f].cl, D) THEN q ELSE <<>>, TRUE)
        BY <1>3 DEF TrimInbox
    <2> HIDE DEF K
    <2>2. \A m \in Msgs : InSeq(m, q) => InSeq(m, s)
        <3>1. \A m : InSeq(m, q) => \E i \in K : s[i] = m
            BY <1>1, <2>1, SubSeqAtType
        <3> QED
            BY <1>1, <3>1 DEF InSeq
    <2>3. \A m \in Msgs : InSeq(m, IF TrimFits(h[f].cl, D) THEN q ELSE <<>>) => InSeq(m, s)
        BY <2>2, NoneInEmpty
    <2> QED
        BY <2>1, <2>3, SetInboxFlow
<1> QED
    BY <1>2, <1>3

LEMMA RebuildFlow ==
    ASSUME TypeInv, NEW f \in Handlers, RebuildNext(f)
    PROVE  LocalFlow(f) /\ InboxFlow(f)
<1>0. HandlerInv /\ LocalsInv(h[f]) /\ h[f] \in Handler
    BY DEF TypeInv, HandlerInv, LocalsInv
<1>1. CASE RebuildLock(f) \/ RebuildCheck(f) \/ RebuildUnlock(f)
    <2>1. inbox' = inbox
        BY <1>1 DEF RebuildLock, RebuildCheck, RebuildUnlock, redis
    <2>2. LocalFlow(f)
        BY <1>0, <1>1, StepFlow DEF RebuildLock, RebuildCheck, RebuildUnlock, HandlerStates
    <2> QED
        BY <2>1, <2>2, SameInboxFlow
<1>2. CASE RebuildExpire(f)
    <2>1. LocalFlow(f)
        BY <1>0, <1>2, StepFlow DEF RebuildExpire, HandlerStates
    <2>2. InboxFlow(f)
        <3>1. CASE KeepInbox
            BY <3>1, SameInboxFlow DEF KeepInbox
        <3>2. CASE SetInbox(h[f].cl, inbox[h[f].cl], TRUE)
            BY <3>2, SetInboxFlow
        <3> QED
            BY <1>2, <3>1, <3>2 DEF RebuildExpire
    <2> QED
        BY <2>1, <2>2
<1>3. CASE RebuildPage(f)
    <2>1. inbox' = inbox
        BY <1>3 DEF RebuildPage, redis
    <2>2. CASE Step(f, "unlock")
        BY <1>0, <2>1, <2>2, StepFlow, SameInboxFlow DEF HandlerStates
    <2>3. CASE ~Step(f, "unlock")
        <3>1. PICK q \in Ascending(PageOf(h[f].cl, h[f].off)) :
                 h' = [h EXCEPT ![f].page = q,
                                ![f].pc = IF q = <<>> THEN RebuildDone(h[f].added) ELSE "push"]
            BY <1>3, <2>3 DEF RebuildPage
        <3> DEFINE r == [h[f] EXCEPT !.page = q,
                                     !.pc = IF q = <<>> THEN RebuildDone(h[f].added) ELSE "push"]
        <3>2. h' = [h EXCEPT ![f] = r]
            BY <3>1
        <3>3. \A m : InSeq(m, q) => m \in rows /\ Rcpt[m] = h[f].cl
            BY PageType DEF TypeInv, TypeOK
        <3>4. /\ r.pc # "idle" /\ r.cl = h[f].cl /\ r.page = q /\ r.ids = h[f].ids
              /\ r.hits = h[f].hits /\ r.misses = h[f].misses /\ r.got = h[f].got
            BY <1>0 DEF Handler, RebuildDone
        <3> HIDE DEF r
        <3>5. \A m \in Msgs : Carried(r, m) => Carried(h[f], m) \/ (m \in rows /\ Rcpt[m] = h[f].cl)
            BY <3>3, <3>4 DEF Carried
        <3>6. LocalFlow(f)
            BY <1>0, <3>2, <3>4, <3>5, GoOnFlow
        <3> QED
            BY <2>1, <3>6, SameInboxFlow
    <2> QED
        BY <2>2, <2>3
<1>4. CASE RebuildPush(f)
    <2> DEFINE q == h[f].page
               s == inbox[h[f].cl]
    <2>0. h[f].cl \in Clients /\ q \in Seq(Msgs) /\ s \in Seq(Msgs)
        BY <1>0, <1>4 DEF LocalsInv, Handler, RebuildPush, TypeInv, TypeOK
    <2>1. InboxFlow(f)
        <3>1. \A m \in Msgs : InSeq(m, q) => Carried(h[f], m)
            BY DEF Carried
        <3>2. \A m : InSeq(m, s \o q) => InSeq(m, s) \/ InSeq(m, q)
            BY <2>0, ConcatType
        <3>3. \A n \in 0..Len(q) : \A m : InSeq(m, s \o SubSeq(q, 1, n)) => InSeq(m, s) \/ InSeq(m, q)
            <4> TAKE n \in 0..Len(q)
            <4> HIDE DEF s, q
            <4>1. n \in Nat /\ n <= Len(q)
                BY <2>0
            <4>2. SubSeq(q, 1, n) \in Seq(Msgs) /\ \A m : InSeq(m, SubSeq(q, 1, n)) => InSeq(m, q)
                BY <2>0, <4>1, PrefixType
            <4>3. SubSeq(q, 1, n) \in Seq(Msgs)
                BY <4>2
            <4> DEFINE p == SubSeq(q, 1, n)
            <4> HIDE DEF p
            <4>4. \A m : InSeq(m, s \o p) => InSeq(m, s) \/ InSeq(m, p)
                BY <2>0, <4>3, ConcatType DEF p
            <4> QED
                BY <4>2, <4>4 DEF p
        <3>4. CASE SetInbox(h[f].cl, s \o q, h[f].cl \in inboxTtl)
            <4> HIDE DEF s, q
            <4>1. \A m \in Msgs : InSeq(m, s \o q) => InSeq(m, s) \/ Carried(h[f], m)
                BY <3>1, <3>2
            <4> QED
                BY <3>4, <4>1, SetInboxFlow DEF s
        <3>5. ASSUME NEW n \in 0..Len(q), SetInbox(h[f].cl, s \o SubSeq(q, 1, n), h[f].cl \in inboxTtl)
              PROVE  InboxFlow(f)
            <4> HIDE DEF s, q
            <4>1. \A m \in Msgs : InSeq(m, s \o SubSeq(q, 1, n)) => InSeq(m, s) \/ Carried(h[f], m)
                BY <3>1, <3>3
            <4> QED
                BY <3>5, <4>1, SetInboxFlow DEF s
        <3> QED
            BY <1>4, <3>4, <3>5 DEF RebuildPush
    <2>2. LocalFlow(f)
        <3>1. CASE Step(f, "unlock")
            BY <1>0, <3>1, StepFlow DEF HandlerStates
        <3>2. CASE ~Step(f, "unlock")
            <4> DEFINE added == h[f].added + Len(q)
                       last == added >= MaxQueueLen \/ Len(q) < PageSize
                       off == IF last THEN h[f].off ELSE h[f].off + PageSize
                       pc == IF last THEN RebuildDone(added) ELSE "page"
                       r == [h[f] EXCEPT !.added = added, !.page = <<>>, !.off = off, !.pc = pc]
            <4>1. h' = [h EXCEPT ![f] = r]
                BY <1>4, <3>2 DEF RebuildPush
            <4>2. pc # "idle"
                BY DEF RebuildDone
            <4> HIDE DEF added, off, pc
            <4>3. /\ r.pc = pc /\ r.cl = h[f].cl /\ r.page = <<>> /\ r.ids = h[f].ids
                  /\ r.hits = h[f].hits /\ r.misses = h[f].misses /\ r.got = h[f].got
                BY <1>0 DEF Handler
            <4> HIDE DEF r
            <4>4. \A m \in Msgs : Carried(r, m) => Carried(h[f], m)
                BY <4>3, NoneInEmpty DEF Carried
            <4> QED
                BY <1>0, <4>1, <4>2, <4>3, <4>4, GoOnFlow
        <3> QED
            BY <3>1, <3>2
    <2> QED
        BY <2>1, <2>2
<1> QED
    BY <1>1, <1>2, <1>3, <1>4 DEF RebuildNext

LEMMA FetchFlow ==
    ASSUME TypeInv, NEW f \in Handlers, FetchLen(f) \/ FetchRange(f) \/ FetchMget(f)
    PROVE  LocalFlow(f) /\ InboxFlow(f)
<1>0. HandlerInv /\ LocalsInv(h[f]) /\ h[f] \in Handler
    BY DEF TypeInv, HandlerInv, LocalsInv
<1>1. InboxFlow(f)
    BY SameInboxFlow DEF FetchLen, FetchRange, FetchMget, redis
<1>2. CASE EndRequest(f)
    BY <1>0, <1>1, <1>2, EndFlow
<1>3. CASE FetchLen(f)
    BY <1>0, <1>1, <1>3, EndFlow, StepFlow DEF FetchLen, HandlerStates
<1>4. CASE FetchRange(f) /\ ~EndRequest(f)
    <2> DEFINE q == inbox[h[f].cl]
               n == IF Len(q) < MaxInboxFetch THEN Len(q) ELSE MaxInboxFetch
               ids == SubSeq(q, 1, n)
               r == [h[f] EXCEPT !.pc = "mget", !.ids = ids]
    <2>1. h[f].cl \in Clients /\ q \in Seq(Msgs)
        BY <1>0, <1>4 DEF LocalsInv, FetchRange, TypeInv, TypeOK
    <2>2. n \in Nat /\ n <= Len(q)
        BY <2>1, BoundsAssumption
    <2>3. h' = [h EXCEPT ![f] = r]
        BY <1>4 DEF FetchRange
    <2> HIDE DEF q, n
    <2>4. \A m : InSeq(m, ids) => InSeq(m, q)
        BY <2>1, <2>2, PrefixType
    <2> HIDE DEF ids
    <2>5. /\ r.pc = "mget" /\ r.cl = h[f].cl /\ r.page = h[f].page /\ r.ids = ids
          /\ r.hits = h[f].hits /\ r.misses = h[f].misses /\ r.got = h[f].got
        BY <1>0 DEF Handler
    <2> HIDE DEF r
    <2>6. \A m \in Msgs : Carried(r, m) => Carried(h[f], m) \/ InSeq(m, q)
        BY <2>4, <2>5 DEF Carried
    <2> QED
        BY <1>0, <1>1, <2>1, <2>3, <2>5, <2>6, GoOnFlow DEF q
<1>5. CASE FetchMget(f) /\ ~EndRequest(f)
    <2> DEFINE ids == h[f].ids
               H == {i \in DOMAIN ids : ids[i] \in cache}
    <2>1. PICK hs \in SubSeqAt(ids, H), ms \in SubSeqAt(ids, DOMAIN ids \ H) :
            h' = [h EXCEPT ![f].pc = IF hs = <<>> THEN "misses" ELSE "hits",
                           ![f].ids = <<>>, ![f].hits = hs, ![f].misses = ms,
                           ![f].st = [i \in DOMAIN hs |-> "count"]]
        BY <1>5 DEF FetchMget
    <2> DEFINE r == [h[f] EXCEPT !.pc = IF hs = <<>> THEN "misses" ELSE "hits",
                                 !.ids = <<>>, !.hits = hs, !.misses = ms,
                                 !.st = [i \in DOMAIN hs |-> "count"]]
    <2>2. ids \in Seq(Msgs) /\ H \in SUBSET (DOMAIN ids) /\ DOMAIN ids \ H \in SUBSET (DOMAIN ids)
        BY <1>0 DEF Handler
    <2>3. h' = [h EXCEPT ![f] = r]
        BY <2>1
    <2>4. /\ r.pc # "idle" /\ r.cl = h[f].cl /\ r.page = h[f].page /\ r.ids = <<>>
          /\ r.hits = hs /\ r.misses = ms /\ r.got = h[f].got
        BY <1>0 DEF Handler
    <2> HIDE DEF r, H
    <2>5. \A m \in Msgs : InSeq(m, hs) \/ InSeq(m, ms) => InSeq(m, ids)
        <3>1. (\A m : InSeq(m, hs) => \E i \in H : ids[i] = m)
              /\ \A m : InSeq(m, ms) => \E i \in DOMAIN ids \ H : ids[i] = m
            BY <2>1, <2>2, SubSeqAtType
        <3> QED
            BY <2>2, <3>1 DEF InSeq
    <2>6. \A m \in Msgs : Carried(r, m) => Carried(h[f], m)
        BY <2>4, <2>5, NoneInEmpty DEF Carried
    <2> QED
        BY <1>0, <1>1, <2>3, <2>4, <2>6, GoOnFlow
<1> QED
    BY <1>1, <1>2, <1>3, <1>4, <1>5

LEMMA HitFlow ==
    ASSUME TypeInv, NEW f \in Handlers, HitNext(f)
    PROVE  LocalFlow(f) /\ InboxFlow(f)
<1>0. HandlerInv /\ h[f] \in Handler
    BY DEF TypeInv, HandlerInv, LocalsInv
<1>1. PICK i \in DOMAIN h[f].hits : HitCount(f, i) \/ HitBill(f, i)
    BY DEF HitNext
<1>2. InboxFlow(f) /\ h[f].pc = "hits"
    BY <1>1, SameInboxFlow DEF HitCount, HitBill, redis
<1>3. CASE HandOver(f, i)
    <2> DEFINE st == [h[f].st EXCEPT ![i] = "done"]
               r == [h[f] EXCEPT !.st = st, !.got = @ \cup {h[f].hits[i]}]
    <2>1. h' = [h EXCEPT ![f] = r]
        BY <1>3 DEF HandOver
    <2> HIDE DEF st
    <2>2. /\ r.pc = h[f].pc /\ r.cl = h[f].cl /\ r.page = h[f].page /\ r.ids = h[f].ids
          /\ r.hits = h[f].hits /\ r.misses = h[f].misses /\ r.got = h[f].got \cup {h[f].hits[i]}
        BY <1>0 DEF Handler
    <2> HIDE DEF r
    <2>3. \A m \in Msgs : Carried(r, m) => Carried(h[f], m)
        BY <1>1, <2>2 DEF Carried, InSeq
    <2> QED
        BY <1>0, <1>2, <2>1, <2>2, <2>3, GoOnFlow
<1>4. ASSUME NEW s, Skip(f, i, s)
      PROVE  LocalFlow(f)
    <2> DEFINE st == [h[f].st EXCEPT ![i] = s]
               r == [h[f] EXCEPT !.st = st]
    <2>1. h' = [h EXCEPT ![f] = r]
        BY <1>4 DEF Skip
    <2> HIDE DEF st
    <2>2. /\ r.pc = h[f].pc /\ r.cl = h[f].cl /\ r.page = h[f].page /\ r.ids = h[f].ids
          /\ r.hits = h[f].hits /\ r.misses = h[f].misses /\ r.got = h[f].got
        BY <1>0 DEF Handler
    <2> HIDE DEF r
    <2>3. \A m \in Msgs : Carried(r, m) => Carried(h[f], m)
        BY <2>2 DEF Carried
    <2> QED
        BY <1>0, <1>2, <2>1, <2>2, <2>3, GoOnFlow
<1> QED
    BY <1>1, <1>2, <1>3, <1>4 DEF HitCount, HitBill

LEMMA FetchEndFlow ==
    ASSUME TypeInv, NEW f \in Handlers, FetchTrimHits(f) \/ FetchFallback(f)
    PROVE  LocalFlow(f) /\ InboxFlow(f)
<1>0. HandlerInv /\ h[f].cl \in Clients /\ h[f] \in Handler
    BY DEF TypeInv, HandlerInv, LocalsInv, FetchTrimHits, FetchFallback
<1>1. InboxFlow(f)
    BY <1>0, TrimInboxFlow DEF FetchTrimHits, FetchFallback
<1>2. CASE EndRequest(f)
    BY <1>0, <1>1, <1>2, EndFlow
<1>3. CASE ~EndRequest(f)
    <2>1. PICK pc \in {"mark", "misses"} : h' = [h EXCEPT ![f] = [h[f] EXCEPT !.pc = pc, !.mk = MarkAll(f)]]
        BY <1>3 DEF FetchTrimHits, FetchFallback
    <2> DEFINE r == [h[f] EXCEPT !.pc = pc, !.mk = MarkAll(f)]
    <2>2. /\ r.pc = pc /\ r.cl = h[f].cl /\ r.page = h[f].page /\ r.ids = h[f].ids
          /\ r.hits = h[f].hits /\ r.misses = h[f].misses /\ r.got = h[f].got
        BY <1>0 DEF Handler
    <2>3. h' = [h EXCEPT ![f] = r]
        BY <2>1
    <2> HIDE DEF r
    <2>4. \A m \in Msgs : Carried(r, m) => Carried(h[f], m)
        BY <2>2 DEF Carried
    <2> QED
        BY <1>0, <1>1, <2>2, <2>3, <2>4, GoOnFlow
<1> QED
    BY <1>2, <1>3

LEMMA MarkFlow ==
    ASSUME TypeInv, NEW f \in Handlers, MarkNext(f)
    PROVE  LocalFlow(f) /\ InboxFlow(f)
<1>0. HandlerInv /\ h[f] \in Handler
    BY DEF TypeInv, HandlerInv, LocalsInv
<1>1. InboxFlow(f)
    BY SameInboxFlow DEF MarkNext, MarkCheck, MarkSet, Answer, redis
<1>2. CASE Answer(f)
    BY <1>0, <1>1, <1>2, EndFlow DEF Answer
<1>3. ASSUME NEW m \in Msgs, MarkCheck(f, m) \/ MarkSet(f, m)
      PROVE  LocalFlow(f)
    <2>1. PICK s : h' = [h EXCEPT ![f] = [h[f] EXCEPT !.mk[m] = s]]
        BY <1>3 DEF MarkCheck, MarkSet
    <2> DEFINE r == [h[f] EXCEPT !.mk[m] = s]
    <2>2. /\ r.pc = "mark" /\ r.cl = h[f].cl /\ r.page = h[f].page /\ r.ids = h[f].ids
          /\ r.hits = h[f].hits /\ r.misses = h[f].misses /\ r.got = h[f].got
        BY <1>0, <1>3 DEF Handler, MarkCheck, MarkSet
    <2>3. h' = [h EXCEPT ![f] = r]
        BY <2>1
    <2> HIDE DEF r
    <2>4. \A k \in Msgs : Carried(r, k) => Carried(h[f], k)
        BY <2>2 DEF Carried
    <2> QED
        BY <1>0, <2>2, <2>3, <2>4, GoOnFlow
<1> QED
    BY <1>1, <1>2, <1>3 DEF MarkNext

LEMMA RequestFlow ==
    ASSUME TypeInv, NEW f \in Handlers, Poll(f) \/ ReadStart(f) \/ RequestNext(f)
    PROVE  LocalFlow(f) /\ InboxFlow(f)
<1>1. HandlerInv
    BY DEF TypeInv
<1> QED
    BY <1>1, StartFlow, RebuildFlow, FetchFlow, HitFlow, FetchEndFlow, MarkFlow DEF RequestNext

\* An inbox gets what the request of its client carried, or a send to it pushes.
LEMMA InboxWrites ==
    ASSUME TypeInv, [Next]_vars
    PROVE  \A c \in Clients : \A k \in Msgs : InSeq(k, inbox'[c]) =>
              \/ InSeq(k, inbox[c])
              \/ \E f \in Handlers : c = h[f].cl /\ Carried(h[f], k)
              \/ Rcpt[k] = c /\ snd[k] = "push"
<1> DEFINE Goal == \A c \in Clients : \A k \in Msgs : InSeq(k, inbox'[c]) =>
                      \/ InSeq(k, inbox[c])
                      \/ \E f \in Handlers : c = h[f].cl /\ Carried(h[f], k)
                      \/ Rcpt[k] = c /\ snd[k] = "push"
<1>0. inbox \in [Clients -> Seq(Msgs)]
    BY DEF TypeInv, TypeOK
<1>1. CASE inbox' = inbox
    BY <1>1
<1>2. ASSUME NEW f \in Handlers, Poll(f) \/ ReadStart(f) \/ RequestNext(f)
      PROVE  Goal
    <2>1. InboxFlow(f)
        BY <1>2, RequestFlow
    <2> HIDE DEF Carried
    <2> QED
        BY <2>1 DEF InboxFlow
<1>3. ASSUME NEW c \in Clients, NEW q, NEW ttl, SetInbox(c, q, ttl),
             \A k \in Msgs : InSeq(k, q) => InSeq(k, inbox[c]) \/ (Rcpt[k] = c /\ snd[k] = "push")
      PROVE  Goal
    <2>1. inbox'[c] = q /\ \A d \in Clients : d # c => inbox'[d] = inbox[d]
        BY <1>0, <1>3 DEF SetInbox
    <2> QED
        BY <1>3, <2>1
<1>4. ASSUME NEW m \in Msgs, SendVerify(m) \/ SendNext(m) \/ EmergencyWrite(m) \/ EmergencyTimeout(m)
      PROVE  Goal
    <2> DEFINE c == Rcpt[m]
    <2>0. c \in Clients /\ inbox[c] \in Seq(Msgs)
        BY <1>0, RcptAssumption
    <2>1. CASE SendPush(m)
        <3>1. \A k : InSeq(k, Append(inbox[c], m)) => InSeq(k, inbox[c]) \/ k = m
            BY <2>0, AppendType
        <3>2. CASE Push(m)
            <4>1. SetInbox(c, Append(inbox[c], m), c \in inboxTtl)
                BY <3>2 DEF Push
            <4>2. \A k \in Msgs : InSeq(k, Append(inbox[c], m)) =>
                     InSeq(k, inbox[c]) \/ (Rcpt[k] = c /\ snd[k] = "push")
                BY <2>1, <3>1 DEF SendPush
            <4> HIDE DEF c, Goal
            <4> QED
                BY <1>3, <2>0, <4>1, <4>2
        <3> QED
            BY <1>1, <2>1, <3>2 DEF SendPush, KeepInbox
    <2>2. CASE SendTrim(m)
        <3>1. CASE Trim(m)
            <4> DEFINE n == IF Len(inbox[c]) < MaxQueueLen + 1 THEN Len(inbox[c]) ELSE MaxQueueLen + 1
            <4>1. n \in Nat /\ n <= Len(inbox[c])
                BY <2>0, BoundsAssumption
            <4>2. SetInbox(c, SubSeq(inbox[c], 1, n), c \in inboxTtl)
                BY <3>1 DEF Trim
            <4> HIDE DEF n
            <4>3. \A k : InSeq(k, SubSeq(inbox[c], 1, n)) => InSeq(k, inbox[c])
                BY <2>0, <4>1, PrefixType
            <4> HIDE DEF c, Goal
            <4> QED
                BY <1>3, <2>0, <4>2, <4>3
        <3> QED
            BY <1>1, <2>2, <3>1 DEF SendTrim, KeepInbox
    <2>3. CASE ~SendPush(m) /\ ~SendTrim(m)
        BY <1>1, <1>4, <2>3 DEF SendVerify, SendNext, SendCount, SendMetrics, SendCache, SendQueue,
                                SendEmergency, EmergencyWrite, EmergencyTimeout, redis
    <2> QED
        BY <2>1, <2>2, <2>3
<1>5. CASE FlusherNext
    <2>1. CASE FlushClean
        <3> DEFINE m == Head(fl.batch)
                   c == Rcpt[m]
                   s == inbox[c]
                   first == {i \in DOMAIN s : s[i] = m /\ \A j \in DOMAIN s : j < i => s[j] # m}
                   K == DOMAIN s \ first
        <3>1. m \in Msgs
            BY <2>1, HeadTailType DEF FlushClean, TypeInv, TypeOK, WorkerInv, Worker
        <3>2. c \in Clients /\ s \in Seq(Msgs) /\ K \in SUBSET (DOMAIN s)
            BY <1>0, <3>1, RcptAssumption
        <3>3. PICK q \in SubSeqAt(s, K) : SetInbox(c, q, c \in inboxTtl)
            BY <2>1 DEF FlushClean
        <3> HIDE DEF K, Goal, c, m
        <3>4. \A k \in Msgs : InSeq(k, q) => InSeq(k, s)
            <4>1. \A k : InSeq(k, q) => \E i \in K : s[i] = k
                BY <3>2, <3>3, SubSeqAtType
            <4> QED
                BY <3>2, <4>1 DEF InSeq
        <3> QED
            <4>1. PICK d \in Clients : d = c
                BY <3>2
            <4>2. PICK t : t = (c \in inboxTtl)
                OBVIOUS
            <4>3. SetInbox(d, q, t)
                BY <3>3, <4>1, <4>2 DEF SetInbox
            <4>4. \A k \in Msgs : InSeq(k, q) => InSeq(k, inbox[d]) \/ (Rcpt[k] = d /\ snd[k] = "push")
                BY <3>4, <4>1
            <4>5. Goal
                BY <1>3, <4>3, <4>4
            <4> QED
                BY <4>5 DEF Goal
    <2>2. CASE ~FlushClean
        BY <1>1, <1>5, <2>2 DEF FlusherNext, FlusherRecv, FlusherTick, FlushCommit, FlushReads,
                                FlushCleanFails, redis
    <2> QED
        BY <2>1, <2>2
<1>6. CASE DeleterNext \/ \E m \in Msgs : DirectDelete(m)
    BY <1>1, <1>6 DEF DeleterNext, DeleterRecv, DeleterTick, DeleteCached, DeleteStored, DirectDelete, redis
<1>7. CASE ExpiryNext
    <2>1. ASSUME NEW c \in Clients, InboxExpire(c)
          PROVE  Goal
        <3> HIDE DEF Goal
        <3> QED
            BY <1>3, <2>1, NoneInEmpty DEF InboxExpire
    <2> QED
        BY <1>1, <1>7, <2>1 DEF ExpiryNext, CacheExpire, PendingExpire, LockExpire
<1>8. CASE Crash \/ UNCHANGED vars
    BY <1>1, <1>8 DEF Crash, vars, redis
<1> HIDE DEF Goal
<1> QED
    BY <1>2, <1>4, <1>5, <1>6, <1>7, <1>8 DEF Next, Goal

\* What every step but those of requests leaves alone, or a crash empties.
LEMMA OthersKeepLocals ==
    ASSUME \/ FlusherNext \/ DeleterNext \/ ExpiryNext \/ Crash \/ UNCHANGED vars
           \/ \E m \in Msgs : SendVerify(m) \/ SendNext(m) \/ EmergencyWrite(m) \/ EmergencyTimeout(m)
                              \/ DirectDelete(m)
    PROVE  \/ UNCHANGED <<h, counted, handed, returned>>
           \/ h' = [f \in Handlers |-> IdleHandler] /\ UNCHANGED <<counted, handed, returned>>
<1>1. CASE FlusherNext
    BY <1>1 DEF FlusherNext, FlusherRecv, FlusherTick, FlushCommit, FlushReads, FlushClean,
                FlushCleanFails, redis, history
<1>2. CASE DeleterNext \/ \E m \in Msgs : DirectDelete(m)
    BY <1>2 DEF DeleterNext, DeleterRecv, DeleterTick, DeleteCached, DeleteStored, DirectDelete, redis, history
<1>3. CASE ExpiryNext \/ Crash \/ UNCHANGED vars
    BY <1>3 DEF ExpiryNext, CacheExpire, InboxExpire, LockExpire, PendingExpire, Crash, vars, redis,
                process, history
<1>4. ASSUME NEW m \in Msgs, SendVerify(m) \/ SendNext(m) \/ EmergencyWrite(m) \/ EmergencyTimeout(m)
      PROVE  UNCHANGED <<h, counted, handed, returned>>
    BY <1>4 DEF SendVerify, SendNext, SendCount, SendMetrics, SendCache, SendPush, SendTrim, SendQueue,
                SendEmergency, EmergencyWrite, EmergencyTimeout, redis, history
<1> QED
    BY <1>1, <1>2, <1>3, <1>4

LEMMA NextAddress ==
    ASSUME TypeInv, AddressInv, [Next]_vars
    PROVE  AddressInv'
<1>1. ASSUME NEW f \in Handlers, Poll(f) \/ ReadStart(f) \/ RequestNext(f)
      PROVE  AddressInv'
    BY <1>1, RequestFlow, FlowAddress
<1>2. ASSUME \/ UNCHANGED <<h, counted, handed, returned>>
             \/ h' = [f \in Handlers |-> IdleHandler] /\ UNCHANGED <<counted, handed, returned>>
      PROVE  AddressInv'
    <2>1. \A m \in Msgs : ~Carried(IdleHandler, m)
        BY NoneInEmpty DEF Carried, IdleHandler
    <2>2. \A f \in Handlers : \A m \in Msgs :
             Carried(h'[f], m) => Carried(h[f], m) /\ h'[f] = h[f]
        BY <1>2, <2>1
    <2> HIDE DEF Carried
    <2>3. \A f \in Handlers : \A m \in Msgs : Carried(h'[f], m) => h'[f].pc # "idle" /\ Rcpt[m] = h'[f].cl
        BY <2>2 DEF AddressInv
    <2>4. \A c \in Clients : \A m \in Msgs : InSeq(m, inbox'[c]) => Rcpt[m] = c
        BY InboxWrites DEF AddressInv
    <2> QED
        BY <2>3, <2>4 DEF AddressInv, Carried
<1> QED
    BY <1>1, <1>2, OthersKeepLocals DEF Next

LEMMA InitAddress == Init => AddressInv
BY NoneInEmpty DEF Init, AddressInv, Carried, IdleHandler

\* A send that has not reached the cache yet, or was refused before it.
Early == {"new", "count", "metrics", "cache", "rejected", "errMetrics"}

\* No message of such a send is anywhere.
TraceInv == \A m \in Msgs : snd[m] \in Early => ~Somewhere(m)

\* What a step adds to the places a message can be in belongs to a send past its
\* early part.
NoNewTraces == \A k \in Msgs : Somewhere(k)' => Somewhere(k) \/ snd'[k] \notin Early

LEMMA CarriedIsInRequest == \A f \in Handlers : \A m : InRequest(f, m) <=> Carried(h[f], m)
BY DEF InRequest, Carried

\* A request finds, flags, hands over and returns only what is in its client's
\* list, in the rows or among its own locals.
LEMMA RequestTraces ==
    ASSUME TypeInv, NEW f \in Handlers, Poll(f) \/ ReadStart(f) \/ RequestNext(f)
    PROVE  \A k \in Msgs : Somewhere(k)' => Somewhere(k)
<1>1. UNCHANGED <<cache, rows, emerg, fl>>
    BY DEF Poll, FetchStart, ReadStart, MarkReadStart, RequestNext, FetchLen, FetchRange, FetchMget,
           RebuildNext, RebuildLock, RebuildCheck, RebuildPage, RebuildPush, RebuildExpire,
           RebuildUnlock, HitNext, HitCount, HitBill, FetchTrimHits, FetchFallback, MarkNext,
           MarkCheck, MarkSet, Answer, redis, db
<1>2. \A k \in Msgs : k \in returned' => k \in returned \/ Carried(h[f], k)
    <2>1. UNCHANGED returned \/ returned' = returned \cup h[f].got
        BY DEF Poll, FetchStart, ReadStart, MarkReadStart, RequestNext, FetchLen, FetchRange, FetchMget,
               RebuildNext, RebuildLock, RebuildCheck, RebuildPage, RebuildPush, RebuildExpire,
               RebuildUnlock, HitNext, HitCount, HitBill, FetchTrimHits, FetchFallback, MarkNext,
               MarkCheck, MarkSet, Answer, history
    <2> QED
        BY <2>1 DEF Carried
<1>3. \A k \in Msgs : /\ k \in counted' => k \in counted \/ Carried(h[f], k)
                      /\ k \in handed' => k \in handed \/ Carried(h[f], k)
                      /\ InDelete(k)' => InDelete(k) \/ Carried(h[f], k)
    <2>1. CASE HitNext(f)
        <3>1. PICK i \in DOMAIN h[f].hits : HitCount(f, i) \/ HitBill(f, i)
            BY <2>1 DEF HitNext
        <3>2. Carried(h[f], h[f].hits[i])
            BY DEF Carried, InSeq
        <3>3. counted' = counted \/ counted' = counted \cup {h[f].hits[i]}
            BY <3>1 DEF HitCount, HitBill, redis
        <3>4. CASE HandOver(f, i)
            <4>1. /\ \A k : InDelete(k)' => InDelete(k) \/ k = h[f].hits[i]
                  /\ handed' = handed \cup {h[f].hits[i]}
                BY <3>4, HandOverDeletes
            <4> HIDE DEF Carried
            <4> QED
                BY <3>2, <3>3, <4>1
        <3>5. CASE \E s : Skip(f, i, s)
            BY <3>2, <3>3, <3>5 DEF Skip, InDelete
        <3> QED
            BY <3>1, <3>4, <3>5 DEF HitCount, HitBill
    <2>2. CASE ~HitNext(f)
        BY <2>2, RequestQuiet DEF RequestNext, Quiet, DeletesQuiet
    <2> QED
        BY <2>1, <2>2
<1>4. LocalFlow(f) /\ InboxFlow(f)
    BY RequestFlow
<1>5. ASSUME NEW k \in Msgs
      PROVE  /\ Carried(h[f], k) => Somewhere(k)
             /\ \A g \in Handlers : Carried(h[g], k) => Somewhere(k)
    BY <1>5, CarriedIsInRequest DEF Somewhere
<1>6. ASSUME NEW k \in Msgs, NEW g \in Handlers, Carried(h'[g], k)
      PROVE  Somewhere(k)
    <2>1. CASE g # f
        BY <1>4, <1>5, <1>6, <2>1 DEF LocalFlow
    <2>2. CASE g = f
        <3>1. \/ Carried(h[f], k)
              \/ InSeq(k, inbox[h[f].cl]) /\ h[f].cl \in Clients
              \/ k \in rows
            BY <1>4, <1>6, <2>2 DEF LocalFlow
        <3> QED
            BY <1>5, <3>1 DEF Somewhere
    <2> QED
        BY <2>1, <2>2
<1>7. ASSUME NEW k \in Msgs, NEW c \in Clients, InSeq(k, inbox'[c])
      PROVE  Somewhere(k)
    <2>1. InSeq(k, inbox[c]) \/ Carried(h[f], k)
        BY <1>4, <1>7 DEF InboxFlow
    <2> QED
        BY <1>5, <2>1 DEF Somewhere
<1>8. ASSUME NEW k \in Msgs, Somewhere(k)'
      PROVE  Somewhere(k)
    <2>1. CASE k \in cache' \cup rows' \cup emerg'
        BY <1>1, <2>1 DEF Somewhere
    <2>2. CASE k \in counted' \cup handed' \cup returned'
        BY <1>2, <1>3, <1>5, <2>2 DEF Somewhere
    <2>3. CASE \E c \in Clients : InSeq(k, inbox'[c])
        BY <1>7, <2>3
    <2>4. CASE InFlush(k)'
        BY <1>1, <2>4 DEF Somewhere, InFlush
    <2>5. CASE InDelete(k)'
        BY <1>3, <1>5, <2>5 DEF Somewhere
    <2>6. CASE \E g \in Handlers : InRequest(g, k)'
        <3>1. \E g \in Handlers : Carried(h'[g], k)
            BY <2>6 DEF InRequest, Carried
        <3> QED
            BY <1>6, <3>1
    <2> QED
        BY <1>8, <2>1, <2>2, <2>3, <2>4, <2>5, <2>6 DEF Somewhere
<1> QED
    BY <1>8

\* What the flusher holds it held before.
LEMMA FlusherBack ==
    ASSUME TypeInv, FlusherNext
    PROVE  /\ \A m \in Msgs : InFlush(m)' => InFlush(m)
           /\ \A m \in Msgs : m \in rows' => m \in rows \/ InFlush(m)
           /\ cache' \subseteq cache
<1>0. /\ fl.chan \in Seq(Msgs) /\ fl.buf \in Seq(Msgs) /\ fl.batch \in Seq(Msgs) /\ fl \in Worker
      /\ fl.pc = "idle" <=> fl.batch = <<>>
    BY DEF TypeInv, TypeOK, Worker, WorkerInv
<1>1. CASE FlusherRecv
    <2> DEFINE buf == Append(fl.buf, Head(fl.chan))
    <2>1. /\ Head(fl.chan) \in Msgs
          /\ \A m : InSeq(m, fl.chan) <=> m = Head(fl.chan) \/ InSeq(m, Tail(fl.chan))
        BY <1>0, <1>1, HeadTailType DEF FlusherRecv
    <2>2. \A m : InSeq(m, buf) <=> InSeq(m, fl.buf) \/ m = Head(fl.chan)
        BY ONLY <1>0, <2>1, AppendType
    <2>3. /\ fl'.chan = Tail(fl.chan)
          /\ \/ fl'.buf = buf /\ fl'.batch = fl.batch
             \/ fl'.buf = <<>> /\ fl'.batch = buf
        BY <1>0, <1>1 DEF FlusherRecv, TakeBuffer, Worker
    <2> HIDE DEF buf
    <2>4. UNCHANGED <<rows, cache>>
        BY <1>1 DEF FlusherRecv, redis, db
    <2> QED
        BY <2>1, <2>2, <2>3, <2>4, NoneInEmpty DEF InFlush
<1>2. CASE FlusherTick
    <2>1. fl'.chan = fl.chan /\ fl'.buf = <<>> /\ fl'.batch = fl.buf /\ UNCHANGED <<rows, cache>>
        BY <1>0, <1>2 DEF FlusherTick, TakeBuffer, Worker, redis, db
    <2> QED
        BY <2>1, NoneInEmpty DEF InFlush
<1>3. CASE FlushCommit \/ FlushReads \/ FlushClean \/ FlushCleanFails
    <2>1. fl'.chan = fl.chan /\ fl'.buf = fl.buf /\ \A m : InSeq(m, fl'.batch) => InSeq(m, fl.batch)
        <3>1. CASE fl' = EndBatch(fl)
            BY <1>0, <3>1, NoneInEmpty DEF EndBatch, Worker
        <3>2. CASE \E pc : fl' = [fl EXCEPT !.pc = pc]
            BY <1>0, <3>2 DEF Worker
        <3>3. CASE FlushClean /\ fl' = [fl EXCEPT !.batch = Tail(@)]
            <4>1. fl.batch # <<>>
                BY <1>0, <3>3 DEF FlushClean
            <4>2. \A m : InSeq(m, fl.batch) <=> m = Head(fl.batch) \/ InSeq(m, Tail(fl.batch))
                BY <1>0, <4>1, HeadTailType
            <4> QED
                BY <1>0, <3>3, <4>2 DEF Worker
        <3> QED
            BY <1>3, <3>1, <3>2, <3>3 DEF FlushCommit, FlushReads, FlushClean, FlushCleanFails
    <2>2. rows' \subseteq rows \cup Elems(fl.batch) /\ cache' \subseteq cache
        BY <1>3 DEF FlushCommit, FlushReads, FlushClean, FlushCleanFails, redis, db
    <2> QED
        BY <2>1, <2>2 DEF InFlush, Elems, InSeq
<1> QED
    BY <1>1, <1>2, <1>3 DEF FlusherNext

\* The steps of a send.
LEMMA SendTraces ==
    ASSUME TypeInv, NEW m \in Msgs, SendVerify(m) \/ SendNext(m) \/ EmergencyWrite(m) \/ EmergencyTimeout(m)
    PROVE  /\ \A k \in Msgs : snd'[k] \in Early => snd[k] \in Early
           /\ UNCHANGED <<dl, directDel>>
           /\ \A k \in Msgs : k \in cache' => k \in cache \/ snd'[k] \notin Early
           /\ \A k \in Msgs : k \in rows' => k \in rows \cup emerg
           /\ \A k \in Msgs : k \in emerg' => k \in emerg \/ snd'[k] \notin Early
           /\ \A k \in Msgs : InFlush(k)' => InFlush(k) \/ snd'[k] \notin Early
<1>0. /\ snd \in [Msgs -> SendStates] /\ fl \in Worker /\ fl.chan \in Seq(Msgs)
    BY DEF TypeInv, TypeOK, Worker
<1>1. UNCHANGED <<dl, directDel>>
    BY DEF SendVerify, SendNext, SendCount, SendMetrics, SendCache, SendPush, SendTrim, SendQueue,
           SendEmergency, EmergencyWrite, EmergencyTimeout
<1>2. CASE SendVerify(m) \/ SendCount(m) \/ SendMetrics(m)
    <2>1. UNCHANGED <<cache, rows, emerg, fl>> /\ snd[m] \in Early /\ \A k \in Msgs : k # m => snd'[k] = snd[k]
        BY <1>0, <1>2 DEF SendVerify, SendCount, SendMetrics, Goto, redis, db, Early
    <2> QED
        BY <1>1, <2>1 DEF InFlush
<1>3. CASE SendCache(m)
    <2>1. /\ UNCHANGED <<rows, emerg, fl>> /\ cache' \subseteq cache \cup {m} /\ snd'[m] \notin Early
          /\ \A k \in Msgs : k # m => snd'[k] = snd[k]
        BY <1>0, <1>3 DEF SendCache, Goto, db, Early
    <2> QED
        BY <1>1, <2>1 DEF InFlush
<1>4. CASE SendPush(m) \/ SendTrim(m) \/ EmergencyTimeout(m)
    <2>1. /\ UNCHANGED <<cache, rows, emerg, fl>> /\ snd'[m] \notin Early
          /\ \A k \in Msgs : k # m => snd'[k] = snd[k]
        BY <1>0, <1>4 DEF SendPush, SendTrim, EmergencyTimeout, Goto, redis, db, Early
    <2> QED
        BY <1>1, <2>1 DEF InFlush
<1>5. CASE SendEmergency(m)
    <2>1. /\ UNCHANGED <<cache, rows, fl>> /\ emerg' = emerg \cup {m} /\ snd'[m] \notin Early
          /\ \A k \in Msgs : k # m => snd'[k] = snd[k]
        BY <1>0, <1>5 DEF SendEmergency, Goto, redis, db, Early
    <2> QED
        BY <1>1, <2>1 DEF InFlush
<1>6. CASE SendQueue(m)
    <2>1. /\ UNCHANGED <<cache, rows, emerg>> /\ snd'[m] \notin Early
          /\ \A k \in Msgs : k # m => snd'[k] = snd[k]
        BY <1>0, <1>6 DEF SendQueue, Goto, redis, db, Early
    <2>2. \A k : InSeq(k, Append(fl.chan, m)) <=> InSeq(k, fl.chan) \/ k = m
        BY <1>0, AppendType
    <2>3. fl'.chan = Append(fl.chan, m) /\ fl'.buf = fl.buf /\ fl'.batch = fl.batch
        BY <1>0, <1>6 DEF SendQueue, Worker
    <2> QED
        BY <1>1, <2>1, <2>2, <2>3 DEF InFlush
<1>7. CASE EmergencyWrite(m)
    <2>1. /\ UNCHANGED <<cache, fl>> /\ emerg' \subseteq emerg /\ rows' \subseteq rows \cup {m} /\ m \in emerg
          /\ \A k \in Msgs : snd'[k] = snd[k] \/ snd'[k] \notin Early
        BY <1>0, <1>7 DEF EmergencyWrite, Goto, redis, Early
    <2> QED
        BY <1>1, <2>1 DEF InFlush
<1> QED
    BY <1>2, <1>3, <1>4, <1>5, <1>6, <1>7 DEF SendNext

\* Putting the places together, for every step but a request's.
LEMMA PlacesTraces ==
    ASSUME TypeInv, [Next]_vars,
           \/ UNCHANGED <<h, counted, handed, returned>>
           \/ h' = [f \in Handlers |-> IdleHandler] /\ UNCHANGED <<counted, handed, returned>>,
           \A k \in Msgs : snd'[k] \in Early => snd[k] \in Early,
           \A k \in Msgs : InDelete(k)' => InDelete(k),
           \A k \in Msgs : k \in cache' => k \in cache \/ snd'[k] \notin Early,
           \A k \in Msgs : k \in rows' => k \in rows \cup emerg \/ InFlush(k),
           \A k \in Msgs : k \in emerg' => k \in emerg \/ snd'[k] \notin Early,
           \A k \in Msgs : InFlush(k)' => InFlush(k) \/ snd'[k] \notin Early
    PROVE  NoNewTraces
<1>1. ASSUME NEW k \in Msgs, NEW g \in Handlers, InRequest(g, k)'
      PROVE  InRequest(g, k)
    <2>1. ~Carried(IdleHandler, k)
        BY NoneInEmpty DEF Carried, IdleHandler
    <2>2. Carried(h'[g], k)
        BY <1>1 DEF InRequest, Carried
    <2>3. h'[g] = h[g]
        BY <2>1, <2>2
    <2> QED
        BY <2>2, <2>3, CarriedIsInRequest
<1>2. ASSUME NEW k \in Msgs, NEW c \in Clients, InSeq(k, inbox'[c])
      PROVE  Somewhere(k) \/ snd'[k] \notin Early
    <2>1. \/ InSeq(k, inbox[c])
          \/ \E f \in Handlers : Carried(h[f], k)
          \/ snd[k] = "push"
        BY <1>2, InboxWrites
    <2>2. snd[k] = "push" => snd'[k] \notin Early
        BY DEF Early
    <2> QED
        BY <2>1, <2>2, CarriedIsInRequest DEF Somewhere
<1>3. ASSUME NEW k \in Msgs, Somewhere(k)'
      PROVE  Somewhere(k) \/ snd'[k] \notin Early
    <2>1. CASE k \in cache' \cup rows' \cup emerg'
        BY <2>1 DEF Somewhere
    <2>2. CASE k \in counted' \cup handed' \cup returned'
        BY <2>2 DEF Somewhere
    <2>3. CASE \E c \in Clients : InSeq(k, inbox'[c])
        BY <1>2, <2>3
    <2>4. CASE InFlush(k)'
        BY <2>4 DEF Somewhere
    <2>5. CASE InDelete(k)'
        BY <2>5 DEF Somewhere
    <2>6. CASE \E g \in Handlers : InRequest(g, k)'
        BY <1>1, <2>6 DEF Somewhere
    <2> QED
        BY <1>3, <2>1, <2>2, <2>3, <2>4, <2>5, <2>6 DEF Somewhere
<1> QED
    BY <1>3 DEF NoNewTraces

LEMMA NextTraces ==
    ASSUME TypeInv, TraceInv, [Next]_vars
    PROVE  TraceInv'
<1>0. snd \in [Msgs -> SendStates]
    BY DEF TypeInv, TypeOK
<1>1. ASSUME NoNewTraces, \A k \in Msgs : snd'[k] \in Early => snd[k] \in Early
      PROVE  TraceInv'
    BY <1>1 DEF NoNewTraces, TraceInv
<1>2. ASSUME NEW f \in Handlers, Poll(f) \/ ReadStart(f) \/ RequestNext(f)
      PROVE  TraceInv'
    <2>1. UNCHANGED snd
        BY <1>2 DEF Poll, FetchStart, ReadStart, MarkReadStart, RequestNext, FetchLen, FetchRange, FetchMget,
                RebuildNext, RebuildLock, RebuildCheck, RebuildPage, RebuildPush, RebuildExpire,
                RebuildUnlock, HitNext, HitCount, HitBill, FetchTrimHits, FetchFallback, MarkNext,
                MarkCheck, MarkSet, Answer
    <2> QED
        BY <1>1, <1>2, <2>1, RequestTraces DEF NoNewTraces
<1>3. ASSUME NEW m \in Msgs, SendVerify(m) \/ SendNext(m) \/ EmergencyWrite(m) \/ EmergencyTimeout(m)
      PROVE  TraceInv'
    <2>1. /\ \A k \in Msgs : snd'[k] \in Early => snd[k] \in Early
          /\ UNCHANGED <<dl, directDel>>
          /\ \A k \in Msgs : k \in cache' => k \in cache \/ snd'[k] \notin Early
          /\ \A k \in Msgs : k \in rows' => k \in rows \cup emerg
          /\ \A k \in Msgs : k \in emerg' => k \in emerg \/ snd'[k] \notin Early
          /\ \A k \in Msgs : InFlush(k)' => InFlush(k) \/ snd'[k] \notin Early
        BY <1>3, SendTraces
    <2>2. \A k \in Msgs : InDelete(k)' => InDelete(k)
        BY <2>1 DEF InDelete
    <2>3. \/ UNCHANGED <<h, counted, handed, returned>>
          \/ h' = [f \in Handlers |-> IdleHandler] /\ UNCHANGED <<counted, handed, returned>>
        BY <1>3, OthersKeepLocals
    <2>4. NoNewTraces
        BY <2>1, <2>2, <2>3, PlacesTraces
    <2> QED
        BY <1>1, <2>1, <2>4
<1>4. CASE FlusherNext
    <2>1. UNCHANGED <<snd, emerg, dl, directDel>>
        BY <1>4 DEF FlusherNext, FlusherRecv, FlusherTick, FlushCommit, FlushReads, FlushClean,
                    FlushCleanFails
    <2>2. \A k \in Msgs : InDelete(k)' => InDelete(k)
        BY <2>1 DEF InDelete
    <2>3. NoNewTraces
        BY <1>4, <2>1, <2>2, FlusherBack, OthersKeepLocals, PlacesTraces
    <2> QED
        BY <1>1, <2>1, <2>3
<1>5. CASE DeleterNext \/ \E m \in Msgs : DirectDelete(m)
    <2>1. UNCHANGED <<snd, emerg, fl>> /\ cache' \subseteq cache /\ rows' \subseteq rows
        BY <1>5 DEF DeleterNext, DeleterRecv, DeleterTick, DeleteCached, DeleteStored, DirectDelete,
                    DeleteRows, redis, db
    <2>2. \A k \in Msgs : InDelete(k)' => InDelete(k)
        BY <1>5, DeleterQuiet DEF Quiet, DeletesQuiet
    <2>3. \A k \in Msgs : InFlush(k)' => InFlush(k)
        BY <2>1 DEF InFlush
    <2>4. UNCHANGED <<h, counted, handed, returned>>
        BY <1>5 DEF DeleterNext, DeleterRecv, DeleterTick, DeleteCached, DeleteStored, DirectDelete,
                    redis, history
    <2>5. NoNewTraces
        BY <2>1, <2>2, <2>3, <2>4, PlacesTraces
    <2> QED
        BY <1>1, <2>1, <2>5
<1>6. CASE ExpiryNext \/ Crash \/ UNCHANGED vars
    <2>1. /\ \A k \in Msgs : snd'[k] \in Early => snd[k] \in Early
          /\ cache' \subseteq cache /\ rows' = rows /\ emerg' \subseteq emerg
        BY <1>0, <1>6 DEF ExpiryNext, CacheExpire, InboxExpire, LockExpire, PendingExpire, Crash, vars, redis,
                    db, process, Early
    <2>2. \A k \in Msgs : InDelete(k)' => InDelete(k)
        BY <1>6, RestQuiet DEF Quiet, DeletesQuiet
    <2>3. \A k \in Msgs : InFlush(k)' => InFlush(k)
        <3>1. fl' = fl \/ fl' = IdleWorker
            BY <1>6 DEF ExpiryNext, CacheExpire, InboxExpire, LockExpire, PendingExpire, Crash, vars, process
        <3> QED
            BY <3>1, NoneInEmpty DEF InFlush, IdleWorker
    <2>4. NoNewTraces
        BY <1>6, <2>1, <2>2, <2>3, OthersKeepLocals, PlacesTraces
    <2> QED
        BY <1>1, <2>1, <2>4
<1> QED
    BY <1>2, <1>3, <1>4, <1>5, <1>6 DEF Next

LEMMA InitTraces == Init => TraceInv
<1> SUFFICES ASSUME Init PROVE TraceInv
    OBVIOUS
<1>1. \A m : ~Carried(IdleHandler, m)
    BY NoneInEmpty DEF Carried, IdleHandler
<1>2. \A f \in Handlers : \A m : ~InRequest(f, m)
    BY <1>1, CarriedIsInRequest DEF Init
<1>3. \A m : ~InFlush(m) /\ ~InDelete(m)
    BY NoneInEmpty DEF Init, InFlush, InDelete, IdleWorker
<1> QED
    BY <1>2, <1>3, NoneInEmpty DEF Init, TraceInv, Somewhere

(***************************************************************************)
(* The ledger: how every step of the service reads in MessageLedger        *)
(***************************************************************************)
\* A request answers with what it handed over; an emergency write is of a send
\* that waits for it or has given up.
GotInv == \A f \in Handlers : h[f].got \subseteq handed
EmergInv == \A m \in emerg : snd[m] \in {"emerg", "err"}

\* The variables of the ledger.
Ans == [m \in Msgs |-> Told[snd[m]]]
Kept == {m \in Msgs : InFlush(m) \/ m \in rows}
Accs == failed \cap {"db", "crash"}

LEMMA ToldValues ==
    /\ Told["new"] = "new" /\ Told["count"] = "new" /\ Told["metrics"] = "new" /\ Told["cache"] = "new"
    /\ Told["push"] = "out" /\ Told["trim"] = "out" /\ Told["queue"] = "out" /\ Told["emerg"] = "out"
    /\ Told["ok"] = "accepted"
    /\ Told["rejected"] = "refused" /\ Told["errMetrics"] = "refused"
    /\ Told["err"] = "failed" /\ Told["lost"] = "failed"
BY DEF Told, SendStates

LEMMA EndRequestGot ==
    ASSUME HandlerInv, NEW f \in Handlers, EndRequest(f)
    PROVE  \A g \in Handlers : h'[g].got \subseteq h[g].got
BY DEF HandlerInv, EndRequest, IdleHandler

LEMMA SameGot ==
    ASSUME HandlerInv, NEW f \in Handlers, NEW r, h' = [h EXCEPT ![f] = r], r.got = h[f].got
    PROVE  \A g \in Handlers : h'[g].got \subseteq h[g].got
BY DEF HandlerInv

LEMMA StepGot ==
    ASSUME HandlerInv, NEW f \in Handlers, NEW pc, Step(f, pc)
    PROVE  \A g \in Handlers : h'[g].got \subseteq h[g].got
<1>1. h' = [h EXCEPT ![f] = [h[f] EXCEPT !.pc = pc]]
    BY DEF Step
<1>2. [h[f] EXCEPT !.pc = pc].got = h[f].got
    BY DEF HandlerInv, Handler
<1> QED
    BY <1>1, <1>2, SameGot

\* Only a hand-over adds to an answer.
LEMMA GotStays ==
    ASSUME TypeInv, NEW f \in Handlers,
           \/ Poll(f) \/ ReadStart(f) \/ FetchLen(f) \/ RebuildNext(f) \/ FetchRange(f)
           \/ FetchMget(f) \/ FetchTrimHits(f) \/ FetchFallback(f) \/ MarkNext(f)
    PROVE  \A g \in Handlers : h'[g].got \subseteq h[g].got
<1>0. HandlerInv /\ h[f] \in Handler
    BY DEF TypeInv, HandlerInv, LocalsInv
<1>1. CASE EndRequest(f) \/ \E pc : Step(f, pc)
    BY <1>0, <1>1, EndRequestGot, StepGot
<1>2. CASE Poll(f)
    <2>1. PICK c \in Clients : h' = [h EXCEPT ![f] = [h[f] EXCEPT !.pc = "len", !.cl = c]]
        BY <1>2 DEF Poll, FetchStart
    <2>2. [h[f] EXCEPT !.pc = "len", !.cl = c].got = h[f].got
        BY <1>0 DEF Handler
    <2> QED
        BY <1>0, <2>1, <2>2, SameGot
<1>3. CASE ReadStart(f)
    <2>1. PICK c \in Readers, m \in Msgs : MarkReadStart(f, c, m)
        BY <1>3 DEF ReadStart
    <2> DEFINE r == [h[f] EXCEPT !.pc = "mark", !.cl = c, !.mk[m] = "check"]
    <2>2. h' = [h EXCEPT ![f] = r] /\ r.got = h[f].got
        BY <1>0, <2>1 DEF MarkReadStart, Handler
    <2> HIDE DEF r
    <2> QED
        BY <1>0, <2>1, <2>2, SameGot
<1>4. CASE FetchLen(f)
    BY <1>1, <1>4 DEF FetchLen
<1>5. CASE RebuildNext(f)
    <2>1. CASE RebuildPage(f) /\ ~\E pc : Step(f, pc)
        <3>1. PICK q, pc : h' = [h EXCEPT ![f] = [h[f] EXCEPT !.page = q, !.pc = pc]]
            BY <2>1 DEF RebuildPage
        <3>2. [h[f] EXCEPT !.page = q, !.pc = pc].got = h[f].got
            BY <1>0 DEF Handler
        <3> QED
            BY <1>0, <3>1, <3>2, SameGot
    <2>2. CASE RebuildPush(f) /\ ~\E pc : Step(f, pc)
        <3> DEFINE added == h[f].added + Len(h[f].page)
                   last == added >= MaxQueueLen \/ Len(h[f].page) < PageSize
                   off == IF last THEN h[f].off ELSE h[f].off + PageSize
                   pc == IF last THEN RebuildDone(added) ELSE "page"
                   r == [h[f] EXCEPT !.added = added, !.page = <<>>, !.off = off, !.pc = pc]
        <3>1. h' = [h EXCEPT ![f] = r]
            BY <2>2 DEF RebuildPush
        <3> HIDE DEF added, off, pc
        <3>2. r.got = h[f].got
            BY <1>0 DEF Handler
        <3> HIDE DEF r
        <3> QED
            BY <1>0, <3>1, <3>2, SameGot
    <2> QED
        BY <1>1, <1>5, <2>1, <2>2
           DEF RebuildNext, RebuildLock, RebuildCheck, RebuildExpire, RebuildUnlock
<1>6. CASE FetchRange(f) /\ ~EndRequest(f)
    <2>1. PICK ids : h' = [h EXCEPT ![f] = [h[f] EXCEPT !.pc = "mget", !.ids = ids]]
        BY <1>6 DEF FetchRange
    <2>2. [h[f] EXCEPT !.pc = "mget", !.ids = ids].got = h[f].got
        BY <1>0 DEF Handler
    <2> QED
        BY <1>0, <2>1, <2>2, SameGot
<1>7. CASE FetchMget(f) /\ ~EndRequest(f)
    <2>1. PICK hs, ms :
             h' = [h EXCEPT ![f].pc = IF hs = <<>> THEN "misses" ELSE "hits",
                            ![f].ids = <<>>, ![f].hits = hs, ![f].misses = ms,
                            ![f].st = [i \in DOMAIN hs |-> "count"]]
        BY <1>7 DEF FetchMget
    <2> DEFINE r == [h[f] EXCEPT !.pc = IF hs = <<>> THEN "misses" ELSE "hits",
                                 !.ids = <<>>, !.hits = hs, !.misses = ms,
                                 !.st = [i \in DOMAIN hs |-> "count"]]
    <2>2. h' = [h EXCEPT ![f] = r] /\ r.got = h[f].got
        BY <1>0, <2>1 DEF Handler
    <2> HIDE DEF r
    <2> QED
        BY <1>0, <2>1, <2>2, SameGot
<1>8. CASE (FetchTrimHits(f) \/ FetchFallback(f)) /\ ~EndRequest(f)
    <2>1. PICK pc \in {"mark", "misses"} : h' = [h EXCEPT ![f] = [h[f] EXCEPT !.pc = pc, !.mk = MarkAll(f)]]
        BY <1>8 DEF FetchTrimHits, FetchFallback
    <2>2. [h[f] EXCEPT !.pc = pc, !.mk = MarkAll(f)].got = h[f].got
        BY <1>0 DEF Handler
    <2> QED
        BY <1>0, <2>1, <2>2, SameGot
<1>9. CASE MarkNext(f) /\ ~EndRequest(f)
    <2>1. PICK m \in Msgs : MarkCheck(f, m) \/ MarkSet(f, m)
        BY <1>9 DEF MarkNext, Answer
    <2>2. PICK s : h' = [h EXCEPT ![f] = [h[f] EXCEPT !.mk[m] = s]]
        BY <2>1 DEF MarkCheck, MarkSet
    <2>3. [h[f] EXCEPT !.mk[m] = s].got = h[f].got
        BY <1>0 DEF Handler
    <2> QED
        BY <1>0, <2>2, <2>3, SameGot
<1> QED
    BY <1>1, <1>2, <1>3, <1>4, <1>5, <1>6, <1>7, <1>8, <1>9

LEMMA NextGot ==
    ASSUME TypeInv, GotInv, [Next]_vars
    PROVE  GotInv'
<1>1. ASSUME NEW f \in Handlers, HitNext(f)
      PROVE  GotInv'
    <2>1. PICK i \in DOMAIN h[f].hits : HandOver(f, i) \/ \E s : Skip(f, i, s)
        BY <1>1 DEF HitNext, HitCount, HitBill
    <2>2. h \in [Handlers -> Handler]
        BY DEF TypeInv, HandlerInv
    <2>3. CASE HandOver(f, i)
        <3> DEFINE r == [h[f] EXCEPT !.st[i] = "done", !.got = h[f].got \cup {h[f].hits[i]}]
        <3>1. handed' = handed \cup {h[f].hits[i]} /\ h' = [h EXCEPT ![f] = r]
            BY <2>3, HandOverDeletes
        <3>2. r.got = h[f].got \cup {h[f].hits[i]}
            BY <2>2 DEF Handler
        <3> HIDE DEF r
        <3> QED
            BY <2>2, <3>1, <3>2 DEF GotInv
    <2>4. ASSUME NEW s, Skip(f, i, s)
          PROVE  GotInv'
        <3> DEFINE r == [h[f] EXCEPT !.st[i] = s, !.got = h[f].got]
        <3>1. h' = [h EXCEPT ![f] = r] /\ handed' = handed
            BY <2>4, SkipGot DEF Skip
        <3>2. r.got = h[f].got
            BY <2>2 DEF Handler
        <3> HIDE DEF r
        <3> QED
            BY <2>2, <3>1, <3>2 DEF GotInv
    <2> QED
        BY <2>1, <2>3, <2>4
<1>2. ASSUME NEW f \in Handlers, Poll(f) \/ ReadStart(f) \/ (RequestNext(f) /\ ~HitNext(f))
      PROVE  GotInv'
    <2>1. \A g \in Handlers : h'[g].got \subseteq h[g].got
        BY <1>2, GotStays DEF RequestNext
    <2>2. handed' = handed
        BY <1>2, RequestQuiet DEF RequestNext, Quiet
    <2> QED
        BY <2>1, <2>2 DEF GotInv
<1>3. ASSUME \/ UNCHANGED <<h, counted, handed, returned>>
             \/ h' = [f \in Handlers |-> IdleHandler] /\ UNCHANGED <<counted, handed, returned>>
      PROVE  GotInv'
    BY <1>3 DEF GotInv, IdleHandler
<1> QED
    BY <1>1, <1>2, <1>3, OthersKeepLocals DEF Next

LEMMA NextEmerg ==
    ASSUME TypeInv, EmergInv, [Next]_vars
    PROVE  EmergInv'
<1>0. snd \in [Msgs -> SendStates] /\ emerg \subseteq Msgs
    BY DEF TypeInv, TypeOK
<1>1. ASSUME NEW m \in Msgs, SendVerify(m) \/ SendNext(m) \/ EmergencyWrite(m) \/ EmergencyTimeout(m)
      PROVE  EmergInv'
    <2>1. CASE SendVerify(m) \/ SendCount(m) \/ SendMetrics(m) \/ SendCache(m) \/ SendPush(m) \/ SendTrim(m)
               \/ SendQueue(m)
        <3>1. emerg' = emerg /\ snd[m] \notin {"emerg", "err"} /\ \A k \in Msgs : k # m => snd'[k] = snd[k]
            BY <1>0, <2>1 DEF SendVerify, SendCount, SendMetrics, SendCache, SendPush, SendTrim, SendQueue,
                              Goto
        <3> QED
            BY <1>0, <3>1 DEF EmergInv
    <2>2. CASE SendEmergency(m) \/ EmergencyTimeout(m)
        BY <1>0, <2>2 DEF SendEmergency, EmergencyTimeout, Goto, EmergInv
    <2>3. CASE EmergencyWrite(m)
        BY <1>0, <2>3 DEF EmergencyWrite, Goto, EmergInv
    <2> QED
        BY <1>1, <2>1, <2>2, <2>3 DEF SendNext
<1>2. ASSUME UNCHANGED <<snd, emerg>>
      PROVE  EmergInv'
    BY <1>2 DEF EmergInv
<1>3. CASE FlusherNext
    BY <1>2, <1>3 DEF FlusherNext, FlusherRecv, FlusherTick, FlushCommit, FlushReads, FlushClean,
                      FlushCleanFails
<1>4. CASE DeleterNext \/ \E m \in Msgs : DirectDelete(m)
    BY <1>2, <1>4 DEF DeleterNext, DeleterRecv, DeleterTick, DeleteCached, DeleteStored, DirectDelete
<1>5. ASSUME NEW f \in Handlers, Poll(f) \/ ReadStart(f) \/ RequestNext(f)
      PROVE  EmergInv'
    BY <1>2, <1>5 DEF Poll, FetchStart, ReadStart, MarkReadStart, RequestNext, FetchLen, FetchRange, FetchMget,
           RebuildNext, RebuildLock, RebuildCheck, RebuildPage, RebuildPush, RebuildExpire,
           RebuildUnlock, HitNext, HitCount, HitBill, FetchTrimHits, FetchFallback, MarkNext,
           MarkCheck, MarkSet, Answer
<1>6. CASE ExpiryNext \/ UNCHANGED vars
    BY <1>2, <1>6 DEF ExpiryNext, CacheExpire, InboxExpire, LockExpire, PendingExpire, vars, process
<1>7. CASE Crash
    BY <1>7 DEF Crash, EmergInv
<1> QED
    BY <1>1, <1>3, <1>4, <1>5, <1>6, <1>7 DEF Next

\* Which steps of the service are accidents of the ledger.
LEMMA FaultAccident ==
    /\ NoFault => Accs' = Accs
    /\ \A kind : Fault(kind) /\ kind \notin {"db", "crash"} => Accs' = Accs
    /\ \A kind \in {"db", "crash"} : Fault(kind) => kind \notin Accs /\ Accs' = Accs \cup {kind}
BY DEF NoFault, Fault, Accs

LEMMA SameKept ==
    ASSUME UNCHANGED <<fl, rows>>
    PROVE  Kept' = Kept
BY DEF Kept, InFlush

LEMMA GotoAns ==
    ASSUME snd \in [Msgs -> SendStates], NEW m \in Msgs, NEW s \in SendStates, Goto(m, s)
    PROVE  /\ Ans' = [Ans EXCEPT ![m] = Told[s]]
           /\ Told[s] = Told[snd[m]] => Ans' = Ans
           /\ \A k \in Msgs : Ans[k] = Told[snd[k]]
BY DEF Goto, Ans

\* The steps of the ledger, in these variables.
LEMMA LedgerStays ==
    ASSUME UNCHANGED <<Ans, Kept, Accs, handed, returned>>
    PROVE  [Ledger!Next]_(Ledger!vars)
BY DEF Ledger!vars, Ans, Kept, Accs

LEMMA LedgerTells ==
    ASSUME NEW m \in Msgs, NEW to, Ans' = [Ans EXCEPT ![m] = to],
           \/ Ans[m] = "new" /\ to \in {"out", "refused", "failed"}
           \/ Ans[m] = "out" /\ to = "failed",
           UNCHANGED <<Kept, Accs, handed, returned>>
    PROVE  [Ledger!Next]_(Ledger!vars)
<1>1. CASE Ans[m] = "new" /\ to = "out"
    BY <1>1 DEF Ledger!Next, Ledger!Release, Ledger!Becomes, Ans, Kept, Accs
<1>2. CASE Ans[m] = "new" /\ to = "refused"
    BY <1>2 DEF Ledger!Next, Ledger!Refuse, Ledger!Becomes, Ans, Kept, Accs
<1>3. CASE Ans[m] \in {"new", "out"} /\ to = "failed"
    BY <1>3 DEF Ledger!Next, Ledger!Fail, Ledger!Becomes, Ans, Kept, Accs
<1> QED
    BY <1>1, <1>2, <1>3

LEMMA LedgerAccepts ==
    ASSUME NEW m \in Msgs, Ans[m] = "out", Ans' = [Ans EXCEPT ![m] = "accepted"],
           Kept' = Kept \cup {m}, UNCHANGED <<Accs, handed, returned>>
    PROVE  [Ledger!Next]_(Ledger!vars)
BY DEF Ledger!Next, Ledger!Accept, Ledger!Becomes, Ans, Kept, Accs

LEMMA LedgerKeepsLate ==
    ASSUME NEW m \in Msgs, Ans[m] = "failed", Kept' = Kept \cup {m},
           UNCHANGED <<Ans, Accs, handed, returned>>
    PROVE  [Ledger!Next]_(Ledger!vars)
BY DEF Ledger!Next, Ledger!KeepLate, Ans, Kept, Accs

LEMMA LedgerDelivers ==
    ASSUME NEW m \in Msgs, Ans[m] \in {"out", "accepted", "failed"}, handed' = handed \cup {m},
           UNCHANGED <<Ans, Kept, Accs, returned>>
    PROVE  [Ledger!Next]_(Ledger!vars)
BY DEF Ledger!Next, Ledger!Deliver, Ans, Kept, Accs

LEMMA LedgerReturns ==
    ASSUME NEW R \in SUBSET handed, returned' = returned \cup R,
           UNCHANGED <<Ans, Kept, Accs, handed>>
    PROVE  [Ledger!Next]_(Ledger!vars)
BY DEF Ledger!Next, Ledger!Return, Ans, Kept, Accs

LEMMA LedgerLetsGo ==
    ASSUME Kept' \subseteq Kept, Kept \ Kept' \subseteq handed,
           UNCHANGED <<Ans, Accs, handed, returned>>
    PROVE  [Ledger!Next]_(Ledger!vars)
<1> DEFINE D == Kept \ Kept'
<1>1. D \in SUBSET handed /\ Kept' = Kept \ D
    OBVIOUS
<1> HIDE DEF D
<1> QED
    BY <1>1 DEF Ledger!Next, Ledger!LetGo, Ans, Kept, Accs

LEMMA LedgerSuffers ==
    ASSUME NEW k \in {"db", "crash"}, k \notin Accs, Accs' = Accs \cup {k},
           NEW L \in SUBSET Msgs, \A m \in L : Ans[m] \in {"new", "out"},
           Ans' = [m \in Msgs |-> IF m \in L THEN "failed" ELSE Ans[m]],
           \A m \in Kept' : m \in Kept \/ Ans'[m] = "failed",
           UNCHANGED <<handed, returned>>
    PROVE  [Ledger!Next]_(Ledger!vars)
<1>1. L \in SUBSET {m \in Msgs : Ans[m] \in {"new", "out"}}
    OBVIOUS
<1>2. Kept' \subseteq Kept \cup {m \in Msgs : Ans'[m] = "failed"}
    BY DEF Kept
<1>3. Ledger!Accident(k)
    BY <1>1, <1>2 DEF Ledger!Accident, Ans, Kept, Accs
<1> QED
    BY <1>3 DEF Ledger!Next

\* A send, and the emergency write on its behalf.
LEMMA SendLedger ==
    ASSUME TypeInv, EmergInv, NEW m \in Msgs,
           SendVerify(m) \/ SendNext(m) \/ EmergencyWrite(m) \/ EmergencyTimeout(m)
    PROVE  [Ledger!Next]_(Ledger!vars)
<1>0. /\ snd \in [Msgs -> SendStates] /\ fl \in Worker /\ fl.chan \in Seq(Msgs)
      /\ \A k \in Msgs : Ans[k] = Told[snd[k]]
    BY DEF TypeInv, TypeOK, Worker, Ans
<1>1. UNCHANGED <<handed, returned>>
    BY DEF SendVerify, SendNext, SendCount, SendMetrics, SendCache, SendPush, SendTrim, SendQueue,
           SendEmergency, EmergencyWrite, EmergencyTimeout, history
<1>2. ASSUME NEW s \in SendStates, Goto(m, s), UNCHANGED <<fl, rows>>,
             NoFault \/ \E kind : Fault(kind) /\ kind \notin {"db", "crash"},
             \/ Told[s] = Told[snd[m]]
             \/ Told[snd[m]] = "new" /\ Told[s] \in {"out", "refused", "failed"}
             \/ Told[snd[m]] = "out" /\ Told[s] = "failed"
      PROVE  [Ledger!Next]_(Ledger!vars)
    <2>1. Kept' = Kept /\ Accs' = Accs
        BY <1>2, SameKept, FaultAccident
    <2>2. /\ Ans' = [Ans EXCEPT ![m] = Told[s]]
          /\ Told[s] = Told[snd[m]] => Ans' = Ans
        BY <1>0, <1>2, GotoAns
    <2>3. CASE Told[s] = Told[snd[m]]
        BY <1>1, <2>1, <2>2, <2>3, LedgerStays
    <2>4. CASE Told[s] # Told[snd[m]]
        <3>1. PICK to : to = Told[s]
            OBVIOUS
        <3>2. Ans' = [Ans EXCEPT ![m] = to]
            BY <2>2, <3>1
        <3>3. \/ Ans[m] = "new" /\ to \in {"out", "refused", "failed"}
              \/ Ans[m] = "out" /\ to = "failed"
            BY <1>0, <1>2, <2>4, <3>1
        <3> QED
            BY <1>1, <2>1, <3>2, <3>3, LedgerTells
    <2> QED
        BY <2>3, <2>4
<1>3. CASE SendVerify(m)
    <2>1. PICK s \in {"count", "rejected"} : Goto(m, s)
        BY <1>3 DEF SendVerify
    <2>2. snd[m] = "new" /\ UNCHANGED <<fl, rows>> /\ NoFault
        BY <1>3 DEF SendVerify, db
    <2> QED
        BY <1>2, <2>1, <2>2, ToldValues DEF SendStates
<1>4. CASE SendCount(m)
    <2>1. /\ snd[m] = "count" /\ UNCHANGED <<fl, rows>>
          /\ NoFault \/ \E kind : Fault(kind) /\ kind \notin {"db", "crash"}
        BY <1>4 DEF SendCount, db
    <2>2. PICK s \in {"metrics", "cache", "err"} : Goto(m, s)
        BY <1>4 DEF SendCount
    <2> QED
        BY <1>2, <2>1, <2>2, ToldValues DEF SendStates
<1>5. CASE SendMetrics(m)
    <2>1. /\ snd[m] = "metrics" /\ UNCHANGED <<fl, rows>>
          /\ NoFault \/ \E kind : Fault(kind) /\ kind \notin {"db", "crash"}
        BY <1>5 DEF SendMetrics, db
    <2>2. PICK s \in {"cache", "errMetrics"} : Goto(m, s)
        BY <1>5 DEF SendMetrics
    <2> QED
        BY <1>2, <2>1, <2>2, ToldValues DEF SendStates
<1>6. CASE SendCache(m)
    <2>1. /\ snd[m] = "cache" /\ UNCHANGED <<fl, rows>>
          /\ NoFault \/ \E kind : Fault(kind) /\ kind \notin {"db", "crash"}
        BY <1>6 DEF SendCache, db
    <2>2. PICK s \in {"push", "err"} : Goto(m, s)
        BY <1>6 DEF SendCache
    <2> QED
        BY <1>2, <2>1, <2>2, ToldValues DEF SendStates
<1>7. CASE SendPush(m) \/ SendTrim(m) \/ SendEmergency(m) \/ EmergencyTimeout(m)
    <2>1. /\ snd[m] \in {"push", "trim", "queue", "emerg"} /\ UNCHANGED <<fl, rows>>
          /\ NoFault \/ \E kind : Fault(kind) /\ kind \notin {"db", "crash"}
        BY <1>7 DEF SendPush, SendTrim, SendEmergency, EmergencyTimeout, db
    <2>2. PICK s \in {"trim", "queue", "emerg", "err"} : Goto(m, s)
        BY <1>7 DEF SendPush, SendTrim, SendEmergency, EmergencyTimeout
    <2> QED
        BY <1>2, <2>1, <2>2, ToldValues DEF SendStates
<1>8. CASE SendQueue(m)
    <2>1. snd[m] = "queue" /\ Goto(m, "ok") /\ UNCHANGED rows /\ Accs' = Accs
        BY <1>8, FaultAccident DEF SendQueue, db
    <2>2. Ans[m] = "out" /\ Ans' = [Ans EXCEPT ![m] = "accepted"]
        BY <1>0, <2>1, GotoAns, ToldValues DEF SendStates
    <2>3. \A k : InSeq(k, Append(fl.chan, m)) <=> InSeq(k, fl.chan) \/ k = m
        BY <1>0, AppendType
    <2>4. fl'.chan = Append(fl.chan, m) /\ fl'.buf = fl.buf /\ fl'.batch = fl.batch
        BY <1>0, <1>8 DEF SendQueue, Worker
    <2>5. \A k \in Msgs : InFlush(k)' <=> InFlush(k) \/ k = m
        BY <2>3, <2>4 DEF InFlush
    <2>6. Kept' = Kept \cup {m}
        BY <2>1, <2>5 DEF Kept
    <2> QED
        BY <1>1, <2>1, <2>2, <2>6, LedgerAccepts
<1>9. CASE EmergencyWrite(m)
    <2>1. snd[m] \in {"emerg", "err"} /\ UNCHANGED fl
        BY <1>9 DEF EmergencyWrite, EmergInv
    <2>2. ASSUME rows' = rows \cup {m}
          PROVE  Kept' = Kept \cup {m}
        BY <2>1, <2>2 DEF Kept, InFlush
    <2>3. CASE NoFault /\ rows' = rows \cup {m} /\ snd[m] = "emerg" /\ Goto(m, "ok")
        <3>1. Ans[m] = "out" /\ Ans' = [Ans EXCEPT ![m] = "accepted"]
            BY <1>0, <2>3, GotoAns, ToldValues DEF SendStates
        <3> QED
            BY <1>1, <2>2, <2>3, <3>1, FaultAccident, LedgerAccepts
    <2>4. CASE NoFault /\ rows' = rows \cup {m} /\ snd[m] = "err" /\ UNCHANGED snd
        <3>1. Ans[m] = "failed" /\ Ans' = Ans
            BY <1>0, <2>4, ToldValues DEF Ans
        <3> QED
            BY <1>1, <2>2, <2>4, <3>1, FaultAccident, LedgerKeepsLate
    <2>5. ASSUME Fault("db"), rows' \in {rows, rows \cup {m}}, NEW L \in SUBSET {m},
                 L = {m} => Ans[m] = "out" /\ Goto(m, "err"),
                 L = {} => Ans[m] = "failed" /\ UNCHANGED snd
          PROVE  [Ledger!Next]_(Ledger!vars)
        <3>1. L = {m} \/ L = {}
            OBVIOUS
        <3>2. "db" \notin Accs /\ Accs' = Accs \cup {"db"}
            BY <2>5, FaultAccident
        <3>3. Ans' = [k \in Msgs |-> IF k \in L THEN "failed" ELSE Ans[k]] /\ Ans'[m] = "failed"
            <4>1. CASE L = {m}
                <5>1. Ans' = [Ans EXCEPT ![m] = "failed"]
                    BY <1>0, <2>5, <4>1, GotoAns, ToldValues DEF SendStates
                <5>2. DOMAIN Ans = Msgs
                    BY DEF Ans
                <5>3. Ans = [k \in Msgs |-> Ans[k]]
                    BY DEF Ans
                <5> HIDE DEF Ans
                <5>4. Ans'[m] = "failed" /\ \A k \in Msgs : k # m => Ans'[k] = Ans[k]
                    BY <5>1, <5>2
                <5>5. Ans' = [k \in Msgs |-> IF k = m THEN "failed" ELSE Ans[k]]
                    BY <5>1, <5>2, <5>3
                <5> QED
                    BY <4>1, <5>4, <5>5
            <4>2. CASE L = {}
                BY <1>0, <2>5, <4>2 DEF Ans
            <4> QED
                BY <3>1, <4>1, <4>2
        <3>4. \A k \in Kept' : k \in Kept \/ Ans'[k] = "failed"
            <4>1. Kept' \subseteq Kept \cup {m}
                BY <2>1, <2>5 DEF Kept, InFlush
            <4> QED
                BY <3>3, <4>1
        <3>5. L \in SUBSET Msgs /\ \A k \in L : Ans[k] \in {"new", "out"}
            BY <2>5, <3>1
        <3> QED
            BY <1>1, <3>2, <3>3, <3>4, <3>5, LedgerSuffers
    <2>6. CASE Fault("db") /\ rows' \in {rows, rows \cup {m}} /\ snd[m] = "emerg" /\ Goto(m, "err")
        <3>1. Ans[m] = "out" /\ {m} \in SUBSET {m} /\ {m} # {}
            BY <1>0, <2>6, ToldValues
        <3> QED
            BY <2>5, <2>6, <3>1
    <2>7. CASE Fault("db") /\ rows' \in {rows, rows \cup {m}} /\ snd[m] = "err" /\ UNCHANGED snd
        <3>1. Ans[m] = "failed" /\ {} \in SUBSET {m} /\ {m} # {}
            BY <1>0, <2>7, ToldValues
        <3> QED
            BY <2>5, <2>7, <3>1
    <2> QED
        BY <1>9, <2>1, <2>3, <2>4, <2>6, <2>7 DEF EmergencyWrite
<1> QED
    BY <1>3, <1>4, <1>5, <1>6, <1>7, <1>8, <1>9 DEF SendNext

\* The workers only let go of what was handed over, or lose it in an accident.
LEMMA WorkerLedger ==
    ASSUME TypeInv, DeliveryInv, FlushedInv, [Next]_vars,
           FlusherNext \/ DeleterNext \/ \E m \in Msgs : DirectDelete(m)
    PROVE  [Ledger!Next]_(Ledger!vars)
<1>0. UNCHANGED <<snd, handed, returned>>
    <2>1. CASE FlusherNext
        BY <2>1 DEF FlusherNext, FlusherRecv, FlusherTick, FlushCommit, FlushReads, FlushClean,
                    FlushCleanFails, history
    <2>2. CASE ~FlusherNext
        BY <2>2 DEF DeleterNext, DeleterRecv, DeleterTick, DeleteCached, DeleteStored, DirectDelete, history
    <2> QED
        BY <2>1, <2>2
<1>1. Ans' = Ans
    BY <1>0 DEF Ans
<1>2. Kept' \subseteq Kept
    <2>1. CASE FlusherNext
        BY <2>1, FlusherBack DEF Kept
    <2>2. CASE ~FlusherNext
        <3>1. UNCHANGED fl /\ rows' \subseteq rows
            BY <2>2 DEF DeleterNext, DeleterRecv, DeleterTick, DeleteCached, DeleteStored, DirectDelete,
                        DeleteRows, db
        <3> QED
            BY <3>1 DEF Kept, InFlush
    <2> QED
        BY <2>1, <2>2
<1>3. NoAccident => Kept \ Kept' \subseteq handed
    <2>1. rows \ rows' \subseteq handed
        BY RowsStep
    <2>2. NoAccident => \A m \in Msgs : InFlush(m) => InFlush(m)' \/ m \in rows' \cup handed'
        <3>1. CASE FlusherNext
            BY <3>1, FlusherMoves
        <3>2. CASE ~FlusherNext
            BY <3>2 DEF DeleterNext, DeleterRecv, DeleterTick, DeleteCached, DeleteStored, DirectDelete,
                        InFlush
        <3> QED
            BY <3>1, <3>2
    <2> QED
        BY <1>0, <2>1, <2>2 DEF Kept
<1>4. NoFault \/ Fault("redis") \/ Fault("db")
    <2>1. CASE FlusherNext
        BY <2>1 DEF FlusherNext, FlusherRecv, FlusherTick, FlushCommit, FlushReads, FlushClean,
                    FlushCleanFails
    <2>2. CASE ~FlusherNext
        BY <2>2 DEF DeleterNext, DeleterRecv, DeleterTick, DeleteBatchStart, DeleteCached, DeleteStored,
                    DirectDelete
    <2> QED
        BY <2>1, <2>2
<1>5. CASE NoFault \/ Fault("redis")
    <2>1. Accs' = Accs
        BY <1>5, FaultAccident
    <2>2. NoAccident
        BY <2>1 DEF Accs, NoAccident
    <2> QED
        BY <1>0, <1>1, <1>2, <1>3, <2>1, <2>2, LedgerLetsGo
<1>6. CASE Fault("db")
    <2>1. "db" \notin Accs /\ Accs' = Accs \cup {"db"}
        BY <1>6, FaultAccident
    <2>2. PICK L \in SUBSET Msgs : L = {}
        OBVIOUS
    <2>3. Ans' = [m \in Msgs |-> IF m \in L THEN "failed" ELSE Ans[m]]
        BY <1>1, <2>2 DEF Ans
    <2> QED
        BY <1>0, <1>2, <2>1, <2>2, <2>3, LedgerSuffers
<1> QED
    BY <1>4, <1>5, <1>6

\* A request delivers what a send past its early part has released, and answers
\* with what it delivered.
LEMMA RequestLedger ==
    ASSUME TypeInv, TraceInv, GotInv, NEW f \in Handlers, Poll(f) \/ ReadStart(f) \/ RequestNext(f)
    PROVE  [Ledger!Next]_(Ledger!vars)
<1>0. UNCHANGED <<snd, fl, rows>> /\ (NoFault \/ \E kind : Fault(kind))
    <2>1. CASE Poll(f) \/ ReadStart(f) \/ FetchLen(f) \/ RebuildNext(f) \/ FetchRange(f) \/ FetchMget(f)
        BY <2>1 DEF Poll, FetchStart, ReadStart, MarkReadStart, FetchLen, FetchRange, FetchMget,
                    RebuildNext, RebuildLock, RebuildCheck, RebuildPage, RebuildPush, RebuildExpire,
                    RebuildUnlock, db
    <2>2. CASE HitNext(f)
        BY <2>2 DEF HitNext, HitCount, HitBill, db
    <2>3. CASE FetchTrimHits(f) \/ FetchFallback(f) \/ MarkNext(f)
        BY <2>3 DEF FetchTrimHits, FetchFallback, MarkNext, MarkCheck, MarkSet, Answer, db
    <2> QED
        BY <2>1, <2>2, <2>3 DEF RequestNext
<1>1. Ans' = Ans /\ Kept' = Kept
    BY <1>0, SameKept DEF Ans
<1>2. CASE HitNext(f)
    <2>1. PICK i \in DOMAIN h[f].hits : HitCount(f, i) \/ HitBill(f, i)
        BY <1>2 DEF HitNext
    <2>2. Accs' = Accs /\ UNCHANGED returned
        BY <2>1, FaultAccident DEF HitCount, HitBill
    <2>3. CASE handed' = handed
        BY <1>1, <2>2, <2>3, LedgerStays
    <2>4. CASE handed' = handed \cup {h[f].hits[i]}
        <3>1. PICK m \in Msgs : m = h[f].hits[i]
            BY DEF TypeInv, HandlerInv, LocalsInv, Handler
        <3>2. Carried(h[f], m)
            BY <3>1 DEF Carried, InSeq
        <3>3. snd[m] \notin Early
            BY <3>2, CarriedIsInRequest DEF TraceInv, Somewhere
        <3>4. Ans[m] \in {"out", "accepted", "failed"}
            BY <3>3, ToldValues DEF Ans, Early, TypeInv, TypeOK, SendStates
        <3> QED
            BY <1>1, <2>2, <2>4, <3>1, <3>4, LedgerDelivers
    <2> QED
        BY <2>1, <2>3, <2>4 DEF HitCount, HitBill, HandOver, Skip
<1>3. CASE ~HitNext(f) /\ ~Answer(f)
    <2>1. handed' = handed /\ returned' = returned
        <3>1. handed' = handed
            BY <1>3, RequestQuiet DEF RequestNext, Quiet
        <3>2. returned' = returned
            BY <1>3 DEF Poll, FetchStart, ReadStart, MarkReadStart, RequestNext, FetchLen, FetchRange,
                        FetchMget, RebuildNext, RebuildLock, RebuildCheck, RebuildPage, RebuildPush,
                        RebuildExpire, RebuildUnlock, FetchTrimHits, FetchFallback, MarkNext,
                        MarkCheck, MarkSet, history
        <3> QED
            BY <3>1, <3>2
    <2>2. CASE NoFault \/ \E kind : Fault(kind) /\ kind \notin {"db", "crash"}
        BY <1>1, <2>1, <2>2, FaultAccident, LedgerStays
    <2>3. ASSUME NEW k \in {"db", "crash"}, Fault(k)
          PROVE  [Ledger!Next]_(Ledger!vars)
        <3>1. k \notin Accs /\ Accs' = Accs \cup {k}
            BY <2>3, FaultAccident
        <3>2. PICK L \in SUBSET Msgs : L = {}
            OBVIOUS
        <3>3. Ans' = [m \in Msgs |-> IF m \in L THEN "failed" ELSE Ans[m]]
            BY <1>1, <3>2 DEF Ans
        <3> QED
            BY <1>1, <2>1, <3>1, <3>2, <3>3, LedgerSuffers
    <2> QED
        BY <1>0, <2>2, <2>3
<1>4. CASE Answer(f)
    <2>1. returned' = returned \cup h[f].got /\ handed' = handed /\ Accs' = Accs
        BY <1>4, FaultAccident DEF Answer
    <2>2. h[f].got \in SUBSET handed
        BY DEF GotInv
    <2> QED
        BY <1>1, <2>1, <2>2, LedgerReturns
<1> QED
    BY <1>2, <1>3, <1>4

LEMMA RestLedger ==
    ASSUME TypeInv, ExpiryNext \/ Crash \/ UNCHANGED vars
    PROVE  [Ledger!Next]_(Ledger!vars)
<1>1. CASE ExpiryNext
    <2>1. UNCHANGED <<snd, fl, rows, handed, returned>> /\ Fault("expiry")
        BY <1>1 DEF ExpiryNext, CacheExpire, InboxExpire, LockExpire, PendingExpire, db, process, history
    <2>2. Ans' = Ans /\ Kept' = Kept /\ Accs' = Accs
        BY <2>1, SameKept, FaultAccident DEF Ans
    <2> QED
        BY <2>1, <2>2, LedgerStays
<1>2. CASE UNCHANGED vars
    <2>1. UNCHANGED <<snd, fl, rows, handed, returned, failed>>
        BY <1>2 DEF vars, db, process, history
    <2>2. Ans' = Ans /\ Kept' = Kept /\ Accs' = Accs
        BY <2>1, SameKept DEF Ans, Accs
    <2> QED
        BY <2>1, <2>2, LedgerStays
<1>3. CASE Crash
    <2> DEFINE L == {m \in Msgs : snd[m] \in {"count", "metrics", "cache", "push", "trim", "queue", "emerg"}}
    <2>1. "crash" \notin Accs /\ Accs' = Accs \cup {"crash"} /\ UNCHANGED <<handed, returned>>
        BY <1>3, FaultAccident DEF Crash, history
    <2>2. \A m \in L : Ans[m] \in {"new", "out"}
        BY ToldValues DEF Ans
    <2>3. Ans' = [m \in Msgs |-> IF m \in L THEN "failed" ELSE Ans[m]]
        BY <1>3, ToldValues DEF Crash, Ans
    <2>4. \A m \in Kept' : m \in Kept
        BY <1>3, NoneInEmpty DEF Crash, Kept, InFlush, IdleWorker, db
    <2> HIDE DEF L
    <2>5. L \in SUBSET Msgs
        BY DEF L
    <2> QED
        BY <2>1, <2>2, <2>3, <2>4, <2>5, LedgerSuffers
<1> QED
    BY <1>1, <1>2, <1>3

LEMMA InitLedger == Init => Ledger!Init
<1> SUFFICES ASSUME Init PROVE Ledger!Init
    OBVIOUS
<1>1. [m \in Msgs |-> Told[snd[m]]] = [m \in Msgs |-> "new"]
    BY ToldValues DEF Init
<1>2. {m \in Msgs : InFlush(m) \/ m \in rows} = {}
    BY NoneInEmpty DEF Init, InFlush, IdleWorker
<1> QED
    BY <1>1, <1>2 DEF Init, Ledger!Init

LEMMA NextLedger ==
    ASSUME TypeInv, DeliveryInv, StoreInv, TraceInv, GotInv, EmergInv, [Next]_vars
    PROVE  [Ledger!Next]_(Ledger!vars)
BY SendLedger, WorkerLedger, RequestLedger, RestLedger DEF Next, StoreInv

\* What the ledger promises, proved of the ledger's own steps.
PromiseInv ==
    /\ \A m \in Msgs : Ans[m] \in {"new", "refused"} => m \notin Kept \cup handed
    /\ Accs = {} => \A m \in Msgs : Ans[m] = "accepted" => m \in Kept \cup handed
    /\ returned \subseteq handed

LEMMA InitPromise == Ledger!Init => PromiseInv
BY DEF Ledger!Init, PromiseInv, Ans, Kept, Accs

\* One step of the ledger, in its variables.
LEMMA LedgerSteps ==
    ASSUME [Ledger!Next]_(Ledger!vars)
    PROVE  \/ UNCHANGED <<Ans, Kept, handed, returned, Accs>>
           \/ \E m \in Msgs, to \in {"out", "refused", "failed"} :
                 /\ Ans[m] \in {"new", "out"} /\ (to = "refused" => Ans[m] = "new")
                 /\ Ans' = [Ans EXCEPT ![m] = to]
                 /\ UNCHANGED <<Kept, handed, returned, Accs>>
           \/ \E m \in Msgs : /\ Ans[m] = "out" /\ Ans' = [Ans EXCEPT ![m] = "accepted"]
                              /\ Kept' = Kept \cup {m} /\ UNCHANGED <<handed, returned, Accs>>
           \/ \E m \in Msgs : /\ Ans[m] = "failed" /\ Kept' = Kept \cup {m}
                              /\ UNCHANGED <<Ans, handed, returned, Accs>>
           \/ \E m \in Msgs : /\ Ans[m] \in {"out", "accepted", "failed"} /\ handed' = handed \cup {m}
                              /\ UNCHANGED <<Ans, Kept, returned, Accs>>
           \/ \E R \in SUBSET handed : returned' = returned \cup R /\ UNCHANGED <<Ans, Kept, handed, Accs>>
           \/ \E D \in SUBSET handed : Kept' = Kept \ D /\ UNCHANGED <<Ans, handed, returned, Accs>>
           \/ /\ Accs' # {} /\ UNCHANGED <<handed, returned>>
              /\ \A m \in Msgs : Ans'[m] = Ans[m] \/ (Ans[m] \in {"new", "out"} /\ Ans'[m] = "failed")
              /\ \A m \in Kept' : m \in Kept \/ Ans'[m] = "failed"
<1>1. CASE UNCHANGED Ledger!vars
    BY <1>1 DEF Ledger!vars, Ans, Kept, Accs
<1>2. ASSUME NEW m \in Msgs, Ledger!Release(m) \/ Ledger!Refuse(m) \/ Ledger!Fail(m)
      PROVE  \E to \in {"out", "refused", "failed"} :
                 /\ Ans[m] \in {"new", "out"} /\ (to = "refused" => Ans[m] = "new")
                 /\ Ans' = [Ans EXCEPT ![m] = to]
                 /\ UNCHANGED <<Kept, handed, returned, Accs>>
    BY <1>2 DEF Ledger!Release, Ledger!Refuse, Ledger!Fail, Ledger!Becomes, Ans, Kept, Accs
<1>3. ASSUME NEW m \in Msgs, Ledger!Accept(m)
      PROVE  /\ Ans[m] = "out" /\ Ans' = [Ans EXCEPT ![m] = "accepted"]
             /\ Kept' = Kept \cup {m} /\ UNCHANGED <<handed, returned, Accs>>
    BY <1>3 DEF Ledger!Accept, Ledger!Becomes, Ans, Kept, Accs
<1>4. ASSUME NEW m \in Msgs, Ledger!KeepLate(m)
      PROVE  /\ Ans[m] = "failed" /\ Kept' = Kept \cup {m}
             /\ UNCHANGED <<Ans, handed, returned, Accs>>
    BY <1>4 DEF Ledger!KeepLate, Ans, Kept, Accs
<1>5. ASSUME NEW m \in Msgs, Ledger!Deliver(m)
      PROVE  /\ Ans[m] \in {"out", "accepted", "failed"} /\ handed' = handed \cup {m}
             /\ UNCHANGED <<Ans, Kept, returned, Accs>>
    BY <1>5 DEF Ledger!Deliver, Ans, Kept, Accs
<1>6. CASE Ledger!Return
    BY <1>6 DEF Ledger!Return, Ans, Kept, Accs
<1>7. CASE Ledger!LetGo
    BY <1>7 DEF Ledger!LetGo, Ans, Kept, Accs
<1>8. ASSUME NEW k \in {"db", "crash"}, Ledger!Accident(k)
      PROVE  /\ Accs' # {} /\ UNCHANGED <<handed, returned>>
             /\ \A m \in Msgs : Ans'[m] = Ans[m] \/ (Ans[m] \in {"new", "out"} /\ Ans'[m] = "failed")
             /\ \A m \in Kept' : m \in Kept \/ Ans'[m] = "failed"
    <2>1. Accs' = Accs \cup {k} /\ UNCHANGED <<handed, returned>>
        BY <1>8 DEF Ledger!Accident, Accs
    <2>2. PICK L \in SUBSET {m \in Msgs : Ans[m] \in {"new", "out"}} :
             Ans' = [m \in Msgs |-> IF m \in L THEN "failed" ELSE Ans[m]]
        BY <1>8 DEF Ledger!Accident, Ans
    <2>3. Kept' \subseteq Kept \cup {m \in Msgs : Ans'[m] = "failed"}
        BY <1>8 DEF Ledger!Accident, Ans, Kept
    <2> HIDE DEF Ans, Kept, Accs
    <2> QED
        BY <2>1, <2>2, <2>3
<1> HIDE DEF Ans, Kept, Accs
<1> QED
    BY <1>1, <1>2, <1>3, <1>4, <1>5, <1>6, <1>7, <1>8 DEF Ledger!Next

LEMMA NextPromise ==
    ASSUME PromiseInv, [Ledger!Next]_(Ledger!vars)
    PROVE  PromiseInv'
<1>1. DOMAIN Ans = Msgs
    BY DEF Ans
<1> HIDE DEF Ans, Kept, Accs
<1> QED
    BY <1>1, LedgerSteps DEF PromiseInv

LEMMA LedgerFinal ==
    ASSUME [Ledger!Next]_(Ledger!vars)
    PROVE  \A m \in Msgs :
              /\ Ans[m] \in {"accepted", "refused", "failed"} => Ans'[m] = Ans[m]
              /\ Ans[m] = "accepted" /\ m \notin Kept => m \notin Kept'
<1>1. DOMAIN Ans = Msgs
    BY DEF Ans
<1> HIDE DEF Ans, Kept, Accs
<1> QED
    BY <1>1, LedgerSteps

LEMMA LedgerPromises ==
    Ledger!Spec => /\ []Ledger!RefusedIsNowhere /\ []Ledger!AcceptedIsSafe /\ []Ledger!ReturnedIsDelivered
                   /\ Ledger!AnswersAreFinal /\ Ledger!GoneForGood
<1>1. PromiseInv => Ledger!RefusedIsNowhere /\ Ledger!AcceptedIsSafe /\ Ledger!ReturnedIsDelivered
    BY DEF PromiseInv, Ledger!RefusedIsNowhere, Ledger!AcceptedIsSafe, Ledger!ReturnedIsDelivered, Ans, Kept,
           Accs
<1>2. PromiseInv /\ [Ledger!Next]_(Ledger!vars) => PromiseInv'
    BY NextPromise
<1>3. [Ledger!Next]_(Ledger!vars) => [Ledger!Final]_(Ledger!vars)
    BY LedgerFinal DEF Ledger!Final, Ans
<1>4. [Ledger!Next]_(Ledger!vars) => [Ledger!Gone]_(Ledger!vars)
    BY LedgerFinal DEF Ledger!Gone, Ans, Kept
<1> QED
    BY <1>1, <1>2, <1>3, <1>4, InitPromise, PTL
       DEF Ledger!Spec, Ledger!AnswersAreFinal, Ledger!GoneForGood

(***************************************************************************)
(* Theorems                                                                *)
(***************************************************************************)
SafetyInv == TypeInv /\ DeliveryInv /\ StoreInv /\ BillInv /\ AddressInv /\ TraceInv /\ GotInv /\ EmergInv

LEMMA InitSafety == Init => SafetyInv
<1> SUFFICES ASSUME Init PROVE SafetyInv
    OBVIOUS
<1>1. StoreInv
    BY DEF Init, StoreInv, NoSilentLoss, FlushedInv, IdleWorker
<1>2. GotInv /\ EmergInv
    BY DEF Init, GotInv, EmergInv, IdleHandler
<1> QED
    BY <1>1, <1>2, InitType, DeliveryInit, InitBills, InitAddress, InitTraces DEF SafetyInv

LEMMA NextSafety == SafetyInv /\ [Next]_vars => SafetyInv'
BY NextType, NextDelivery, NextStore, NextBills, NextAddress, NextTraces, NextGot, NextEmerg DEF SafetyInv

LEMMA Safety == Spec => []SafetyInv
BY InitSafety, NextSafety, PTL DEF Spec

\* Whatever fails and whatever the interleaving, only a message that a fetch has
\* flagged and handed over is ever queued for deletion (DeletesAreHanded).
THEOREM OnlyDeliveredAreDeleted == Spec => []DeletesAreHanded
<1>1. SafetyInv => DeletesAreHanded
    BY DEF SafetyInv, DeliveryInv
<1> QED
    BY <1>1, Safety, PTL

\* A row of table messages is deleted only after its message was handed over, in
\* every step of the system (RowsLeaveOnlyHanded).
THEOREM RowsAreKept == Spec => RowsLeaveOnlyHanded
<1>1. SafetyInv /\ [Next]_vars => [rows \ rows' \subseteq handed]_vars
    BY RowsStep DEF SafetyInv
<1> QED
    BY <1>1, Safety, PTL DEF Spec, RowsLeaveOnlyHanded

\* One delivery of a message is billed, however many requests and retries race
\* for it, and only the retries of a failed increment count it again (CountOnce).
THEOREM DeliveryIsCountedOnce == Spec => []CountOnce
<1>1. SafetyInv => CountOnce
    BY DEF SafetyInv, DeliveryInv
<1> QED
    BY <1>1, Safety, PTL

\* An accepted message is in the flusher's hands or in the database until it is
\* handed over, as long as neither the database nor the process fails, for every
\* channel and batch size (NoSilentLoss).
THEOREM AcceptedIsNeverLost == Spec => []NoSilentLoss
<1>1. SafetyInv => NoSilentLoss
    BY DEF SafetyInv, StoreInv
<1> QED
    BY <1>1, Safety, PTL

\* As long as metrics, Redis and the process do not fail, an accepted message has
\* been billed once as sent and a delivered one once as received, or the request
\* that set its flag is about to: no interleaving of deliveries loses the
\* increment or makes it twice (BilledUnlessFailed).
THEOREM DeliveriesAreBilled == Spec => []BilledUnlessFailed
<1>1. SafetyInv => BilledUnlessFailed
    BY BillsBilled DEF SafetyInv
<1> QED
    BY <1>1, Safety, PTL

\* No request ever holds a message of another recipient than its client, from
\* whichever list, page or cache it took it, and whatever the interleaving of
\* rebuilds, sends and flushes (OnlyRecipient).
THEOREM RequestsAreAddressed == Spec => []OnlyRecipient
<1>1. AddressInv => OnlyRecipient
    BY CarriedIsInRequest DEF AddressInv, OnlyRecipient
<1>2. SafetyInv => OnlyRecipient
    BY <1>1 DEF SafetyInv
<1> QED
    BY <1>2, Safety, PTL

\* A send refused for its signature or its metrics leaves its message nowhere: not
\* in a cache, a list, a row, a channel, a flag or an answer, now or later
\* (RefusedLeavesNoTrace).
THEOREM RefusedIsNowhere == Spec => []RefusedLeavesNoTrace
<1>1. TraceInv => RefusedLeavesNoTrace
    BY DEF TraceInv, RefusedLeavesNoTrace, Early
<1>2. SafetyInv => RefusedLeavesNoTrace
    BY <1>1 DEF SafetyInv
<1> QED
    BY <1>2, Safety, PTL

\* The message service implements MessageLedger: every step of a send, a worker,
\* a request, an expiry or a crash is a step of the ledger or leaves it alone
\* (IsLedger).
THEOREM ServiceIsLedger == Spec => IsLedger
<1>1. SafetyInv /\ [Next]_vars => [Ledger!Next]_(Ledger!vars)
    BY NextLedger DEF SafetyInv
<1> QED
    BY <1>1, InitLedger, Safety, PTL DEF Spec, IsLedger, Ledger!Spec

\* So it keeps the ledger's promises: nothing refused is kept or delivered, nothing
\* accepted is missing before an accident, no client gets what was not delivered,
\* no answer changes, and no accepted message comes back once it was let go.
THEOREM ServiceKeepsPromises ==
    Spec => /\ []Ledger!RefusedIsNowhere /\ []Ledger!AcceptedIsSafe /\ []Ledger!ReturnedIsDelivered
            /\ Ledger!AnswersAreFinal /\ Ledger!GoneForGood
<1> QED
    BY ServiceIsLedger, LedgerPromises DEF IsLedger
=============================================================================
