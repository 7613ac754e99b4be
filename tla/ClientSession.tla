---------------------------- MODULE ClientSession ----------------------------
(***************************************************************************)
(* The session service of vaultless-core: login by challenge, the hybrid   *)
(* verifier with its per-process cache and the pub/sub invalidation        *)
(* channel, logout and deactivation of a client                            *)
(* (src/vaultless-core/src/models/session/hybrid_verifier.rs and           *)
(* src/vaultless-core/src/models/clients), over several API processes, one *)
(* Redis and one PostgreSQL.                                               *)
(*                                                                         *)
(* A step is what one task does between two awaits. Session j is the j-th  *)
(* token minted; its jti is j. A token carries its own expiry, which is    *)
(* never later than that of a revocation of it: both last 30 days.         *)
(***************************************************************************)
EXTENDS Integers, Sequences, FiniteSets

CONSTANTS
    Nodes,          \* API processes, each with a HybridSessionVerifier
    Clients,
    Tasks,          \* requests that may be served at once
    Challenges,     \* challenges generate_and_cache_challenge ever returns
    Routes,         \* the protected routes requested: reads ("me"), "logout", "deactivate"
    NoClient,       \* the owner of a session that was not minted
    NoNode,         \* the process of an idle task
    MaxSessions,    \* bound on the sessions minted
    Faults,         \* the kinds of failure that may happen
    MaxFaults       \* bound on the kinds of failure in one behaviour

Jtis == 1..MaxSessions
NoJti == 0
Revokers == Tasks \cup Jtis

(***************************************************************************)
(* redis, db: a command, checkout or statement fails, or its answer is     *)
(* lost; link: a pub/sub connection closes or goes silent; crash: a        *)
(* process dies and restarts.                                              *)
(***************************************************************************)
FaultKinds == {"redis", "db", "link", "crash"}

ASSUME NoClientAssumption == NoClient \notin Clients
ASSUME NoNodeAssumption == NoNode \notin Nodes
ASSUME TasksAssumption == Tasks \cap Int = {}
ASSUME RoutesAssumption == Routes \subseteq {"me", "logout", "deactivate"}
ASSUME MaxSessionsAssumption == MaxSessions \in Nat
ASSUME FaultsAssumption == Faults \subseteq FaultKinds /\ MaxFaults \in Nat

VARIABLES
    \* PostgreSQL, table clients
    isActive,     \* the clients with is_active
    lastJti,      \* last_jti of each client
    \* Redis
    revoked,      \* sessions with a revoked_session key
    challenge,    \* "unused", "live" (an auth_challenge key) or "gone"
    chan,         \* invalidations on their way to each process
    \* the processes
    link,         \* each process's pub/sub connection: "up", "silent" or "down"
    localCache,   \* moka cache of each process: jti -> "valid", "revoked" or "none"
    task,         \* what each task does
    rev,          \* revoke_session under way, for a task or spawned by a login
    \* history
    owner,        \* the client each minted session belongs to
    issued,       \* sessions whose token a client received
    passed,       \* how many logins each challenge was good for
    excused,      \* <<n, j>>: n holds j as valid though its invalidation never comes or has passed
    overlapped,   \* clients two of whose logins overlapped
    leaving,      \* clients that asked for their deactivation
    failed        \* the kinds of failure so far

db == <<isActive, lastJti>>
sessions == <<owner, issued>>
ghosts == <<excused, overlapped, leaving>>
vars == <<db, revoked, challenge, chan, link, localCache, task, rev, sessions, passed, ghosts, failed>>

TaskStates == {"idle", "recheck", "load", "fill", "secure", "revoke", "clear",
               "kill", "read", "off", "find", "mint", "store"}
Ops == {"none", "me", "logout", "deactivate", "login"}
RevokeStates == {"none", "setex", "local", "publish"}

Task == [pc : TaskStates, op : Ops, node : Nodes \cup {NoNode}, cl : Clients \cup {NoClient},
         jti : Jtis \cup {NoJti}, old : Jtis \cup {NoJti}, seen : {"none", "valid", "revoked"}]
Revoke == [pc : RevokeStates, node : Nodes \cup {NoNode}, jti : Jtis \cup {NoJti}]

\* The type invariant: rows, keys, caches and the locals of every task.
TypeOK ==
    /\ isActive \subseteq Clients
    /\ lastJti \in [Clients -> Jtis \cup {NoJti}]
    /\ revoked \subseteq Jtis
    /\ challenge \in [Challenges -> {"unused", "live", "gone"}]
    /\ chan \in [Nodes -> Seq(Jtis)]
    /\ link \in [Nodes -> {"up", "silent", "down"}]
    /\ localCache \in [Nodes -> [Jtis -> {"none", "valid", "revoked"}]]
    /\ task \in [Tasks -> Task]
    /\ rev \in [Revokers -> Revoke]
    /\ \A r \in Revokers : rev[r].pc # "none" => rev[r].node \in Nodes /\ rev[r].jti \in {j \in Jtis : owner[j] # NoClient}
    /\ owner \in [Jtis -> Clients \cup {NoClient}]
    /\ issued \subseteq {j \in Jtis : owner[j] # NoClient}
    /\ passed \in [Challenges -> Nat]
    /\ excused \subseteq Nodes \X Jtis
    /\ overlapped \subseteq Clients
    /\ leaving \subseteq Clients
    /\ failed \subseteq FaultKinds

IdleTask == [pc |-> "idle", op |-> "none", node |-> NoNode, cl |-> NoClient,
             jti |-> NoJti, old |-> NoJti, seen |-> "none"]
NoRevoke == [pc |-> "none", node |-> NoNode, jti |-> NoJti]
EmptyCache == [j \in Jtis |-> "none"]

\* Clients exist before the service starts: signing up adds none (see SignUp).
Init ==
    /\ isActive = Clients /\ lastJti = [c \in Clients |-> NoJti]
    /\ revoked = {} /\ challenge = [h \in Challenges |-> "unused"]
    /\ chan = [n \in Nodes |-> <<>>] /\ link = [n \in Nodes |-> "down"]
    /\ localCache = [n \in Nodes |-> EmptyCache]
    /\ task = [t \in Tasks |-> IdleTask] /\ rev = [r \in Revokers |-> NoRevoke]
    /\ owner = [j \in Jtis |-> NoClient] /\ issued = {}
    /\ passed = [h \in Challenges |-> 0]
    /\ excused = {} /\ overlapped = {} /\ leaving = {} /\ failed = {}

\* A failure: in one behaviour each kind happens at most once, and at most
\* MaxFaults kinds do.
Fault(kind) == /\ kind \in Faults \ failed
               /\ Cardinality(failed) < MaxFaults
               /\ failed' = failed \cup {kind}
NoFault == UNCHANGED failed

Step(t, pc) == task' = [task EXCEPT ![t].pc = pc]
End(t) == task' = [task EXCEPT ![t] = IdleTask]
Forget(n, j) == /\ localCache' = [localCache EXCEPT ![n][j] = "none"]
                /\ excused' = excused \ {<<n, j>>}
KeepCache == UNCHANGED <<localCache, excused>>

\* No announcement of the sessions js will come to the processes ns.
NeverTold(ns, js) == excused' = excused \cup {x \in ns \X js : localCache[x[1]][x[2]] = "valid"}

-----------------------------------------------------------------------------
(***************************************************************************)
(* revoke_session                                                          *)
(***************************************************************************)
StartRevoke(n, j) == [pc |-> "setex", node |-> n, jti |-> j]

\* Mutant: a logout waits for ever for a revocation that failed.
RevokeSetHangs(r) ==
    /\ rev[r].pc = "setex"
    /\ \/ /\ NoFault /\ revoked' = revoked \cup {rev[r].jti}
          /\ rev' = [rev EXCEPT ![r].pc = "local"]
       \/ /\ Fault("redis") /\ revoked' = revoked
          /\ rev' = [rev EXCEPT ![r] = NoRevoke]
    /\ UNCHANGED <<task, excused, db, challenge, chan, link, localCache, sessions, passed, overlapped, leaving>>

\* SETEX revoked_session; without it nothing else happens.
RevokeSet(r) ==
    /\ rev[r].pc = "setex"
    /\ \/ /\ NoFault /\ revoked' = revoked \cup {rev[r].jti}
          /\ rev' = [rev EXCEPT ![r].pc = "local"] /\ UNCHANGED <<task, excused>>
       \/ /\ Fault("redis") /\ revoked' \in {revoked, revoked \cup {rev[r].jti}}
          /\ NeverTold(Nodes, {rev[r].jti})
          /\ rev' = [rev EXCEPT ![r] = NoRevoke]
          /\ IF r \in Tasks THEN End(r) ELSE UNCHANGED task
    /\ UNCHANGED <<db, challenge, chan, link, localCache, sessions, passed, overlapped, leaving>>

RevokeLocal(r) ==
    /\ rev[r].pc = "local"
    /\ Forget(rev[r].node, rev[r].jti)
    /\ rev' = [rev EXCEPT ![r].pc = "publish"]
    /\ NoFault /\ UNCHANGED <<db, revoked, challenge, chan, link, task, sessions, passed, overlapped, leaving>>

\* PUBLISH reaches the processes that are subscribed at that moment.
Publish(j) ==
    /\ chan' = [n \in Nodes |-> IF link[n] = "up" THEN Append(chan[n], j) ELSE chan[n]]
    /\ NeverTold({n \in Nodes : link[n] # "up"}, {j})

\* The task that waits for the revocation goes on: a logout clears last_jti, a
\* deactivation is over.
Resume(r) == IF r \notin Tasks THEN UNCHANGED task
             ELSE IF task[r].op = "logout" THEN Step(r, "clear") ELSE End(r)

RevokePublish(r) ==
    /\ rev[r].pc = "publish"
    /\ rev' = [rev EXCEPT ![r] = NoRevoke]
    /\ \/ NoFault /\ Publish(rev[r].jti) /\ Resume(r)
       \/ /\ Fault("redis")
          /\ \/ Publish(rev[r].jti)
             \/ UNCHANGED chan /\ NeverTold(Nodes, {rev[r].jti})
          /\ IF r \in Tasks THEN End(r) ELSE UNCHANGED task
    /\ UNCHANGED <<db, revoked, challenge, link, localCache, sessions, passed, overlapped, leaving>>

-----------------------------------------------------------------------------
(***************************************************************************)
(* run_pubsub_listener and PubSubHealth                                    *)
(***************************************************************************)
Connect(n) ==
    /\ link[n] = "down"
    /\ link' = [link EXCEPT ![n] = "up"]
    /\ NoFault
    /\ UNCHANGED <<db, revoked, challenge, chan, localCache, task, rev, sessions, passed, ghosts>>

\* Mutant: the listener takes a message and leaves the cache alone.
ReceiveIgnores(n) ==
    /\ chan[n] # <<>>
    /\ chan' = [chan EXCEPT ![n] = Tail(@)]
    /\ NoFault
    /\ UNCHANGED <<db, revoked, challenge, link, localCache, task, rev, sessions, passed, ghosts>>

Receive(n) ==
    /\ chan[n] # <<>>
    /\ Forget(n, Head(chan[n]))
    /\ chan' = [chan EXCEPT ![n] = Tail(@)]
    /\ NoFault
    /\ UNCHANGED <<db, revoked, challenge, link, task, rev, sessions, passed, overlapped, leaving>>

\* The connection closes, or goes silent without the process noticing; what was
\* on its way is lost. The cache keeps its entries over a reconnection.
Loses(n) == /\ chan' = [chan EXCEPT ![n] = <<>>]
            /\ NeverTold({n}, {chan[n][i] : i \in DOMAIN chan[n]})
LinkBreaks(n) ==
    /\ link[n] = "up" /\ Fault("link")
    /\ \E s \in {"down", "silent"} : link' = [link EXCEPT ![n] = s]
    /\ Loses(n)
    /\ UNCHANGED <<db, revoked, challenge, localCache, task, rev, sessions, passed, overlapped, leaving>>

SilenceEnds(n) ==
    /\ link[n] = "silent"
    /\ link' = [link EXCEPT ![n] = "down"]
    /\ NoFault
    /\ UNCHANGED <<db, revoked, challenge, chan, localCache, task, rev, sessions, passed, ghosts>>

\* is_healthy. The silence it computes is the age of an Instant made on the
\* spot less the age of another one (record_message): always about zero, so
\* that a silent connection counts as healthy for as long as it is not closed.
IsPubsubHealthy(n) == link[n] # "down"

-----------------------------------------------------------------------------
(***************************************************************************)
(* verify_fast in front of every protected route, then the route           *)
(***************************************************************************)
FirstStep(op) == CASE op = "logout" -> "secure" [] op = "deactivate" -> "kill" [] OTHER -> "idle"
Enter(t) == IF FirstStep(task[t].op) = "idle" THEN End(t) ELSE Step(t, FirstStep(task[t].op))

\* The local cache answers at once when pub/sub is healthy; an unhealthy one
\* sends the task to Redis, and so does a miss. A refused request leaves no trace.
VerifyStart(t, n, op, j) ==
    LET hit == localCache[n][j]
        go(pc) == task' = [task EXCEPT ![t] = [IdleTask EXCEPT
                      !.pc = pc, !.op = op, !.node = n, !.cl = owner[j], !.jti = j, !.seen = hit]]
    IN  /\ task[t].pc = "idle" /\ j \in issued
        /\ \/ hit = "none" /\ go("load")
           \/ hit # "none" /\ ~IsPubsubHealthy(n) /\ go("recheck")
           \/ hit = "valid" /\ IsPubsubHealthy(n) /\ FirstStep(op) # "idle" /\ go(FirstStep(op))
        /\ leaving' = IF task'[t].pc = "kill" THEN leaving \cup {owner[j]} ELSE leaving
        /\ NoFault
        /\ UNCHANGED <<db, revoked, challenge, chan, link, localCache, rev, sessions, passed,
                       excused, overlapped>>

\* Who passes verify_fast into a deactivation is leaving.
Leave(t) == leaving' = IF task'[t].pc = "kill" THEN leaving \cup {task[t].cl} ELSE leaving

\* A cached answer compared with Redis; one that differs is dropped.
VerifyRecheck(t) ==
    LET isRevoked == task[t].jti \in revoked
        isValid == task[t].seen = "valid"
    IN  /\ task[t].pc = "recheck"
        /\ \/ /\ NoFault
              /\ IF isRevoked = isValid THEN Forget(task[t].node, task[t].jti) ELSE KeepCache
              /\ IF isValid /\ ~isRevoked THEN Enter(t) ELSE End(t)
           \/ Fault("redis") /\ End(t) /\ KeepCache
        /\ Leave(t)
        /\ UNCHANGED <<db, revoked, challenge, chan, link, rev, sessions, passed, overlapped>>

\* Mutant: when Redis does not answer, the session is taken for valid.
VerifyLoadFailsOpen(t) ==
    /\ task[t].pc = "load"
    /\ \/ /\ NoFault
          /\ task' = [task EXCEPT ![t].pc = "fill",
                                  ![t].seen = IF task[t].jti \in revoked THEN "revoked" ELSE "valid"]
       \/ Fault("redis") /\ task' = [task EXCEPT ![t].pc = "fill", ![t].seen = "valid"]
    /\ UNCHANGED <<db, revoked, challenge, chan, link, localCache, rev, sessions, passed, ghosts>>

VerifyLoad(t) ==
    /\ task[t].pc = "load"
    /\ \/ /\ NoFault
          /\ task' = [task EXCEPT ![t].pc = "fill",
                                  ![t].seen = IF task[t].jti \in revoked THEN "revoked" ELSE "valid"]
       \/ Fault("redis") /\ End(t)
    /\ UNCHANGED <<db, revoked, challenge, chan, link, localCache, rev, sessions, passed, ghosts>>

\* Mutant: the cache is told what Redis was asked, not its negation.
VerifyFillInverted(t) ==
    /\ task[t].pc = "fill"
    /\ localCache' = [localCache EXCEPT ![task[t].node][task[t].jti] =
                          IF task[t].seen = "valid" THEN "revoked" ELSE "valid"]
    /\ IF task[t].seen = "valid" THEN Enter(t) ELSE End(t)
    /\ Leave(t)
    /\ NoFault
    /\ UNCHANGED <<db, revoked, challenge, chan, link, rev, sessions, passed, excused, overlapped>>

\* The answer of Redis enters the cache, however old it is by now.
VerifyFill(t) ==
    /\ task[t].pc = "fill"
    /\ localCache' = [localCache EXCEPT ![task[t].node][task[t].jti] = task[t].seen]
    /\ excused' = IF task[t].seen = "valid" /\ task[t].jti \in revoked
                  THEN excused \cup {<<task[t].node, task[t].jti>>}
                  ELSE excused \ {<<task[t].node, task[t].jti>>}
    /\ IF task[t].seen = "valid" THEN Enter(t) ELSE End(t)
    /\ Leave(t)
    /\ NoFault
    /\ UNCHANGED <<db, revoked, challenge, chan, link, rev, sessions, passed, overlapped>>

\* time_to_live of the local cache.
CacheExpire(n, j) ==
    /\ localCache[n][j] # "none"
    /\ Forget(n, j)
    /\ NoFault
    /\ UNCHANGED <<db, revoked, challenge, chan, link, task, rev, sessions, passed, overlapped, leaving>>

-----------------------------------------------------------------------------
(***************************************************************************)
(* logout: verify_secure, revoke_session, last_jti                         *)
(***************************************************************************)
LogoutSecure(t) ==
    /\ task[t].pc = "secure"
    /\ \/ /\ NoFault
          /\ IF task[t].jti \in revoked
             THEN End(t) /\ UNCHANGED rev
             ELSE /\ Step(t, "revoke")
                  /\ rev' = [rev EXCEPT ![t] = StartRevoke(task[t].node, task[t].jti)]
       \/ Fault("redis") /\ End(t) /\ UNCHANGED rev
    /\ UNCHANGED <<db, revoked, challenge, chan, link, localCache, sessions, passed, ghosts>>

\* UPDATE ... SET last_jti = NULL WHERE id = $1 AND last_jti = $2.
Cleared(t) == IF lastJti[task[t].cl] = task[t].jti
              THEN [lastJti EXCEPT ![task[t].cl] = NoJti] ELSE lastJti
LogoutClear(t) ==
    /\ task[t].pc = "clear"
    /\ \/ NoFault /\ lastJti' = Cleared(t)
       \/ Fault("db") /\ lastJti' \in {lastJti, Cleared(t)}
    /\ End(t)
    /\ UNCHANGED <<isActive, revoked, challenge, chan, link, localCache, rev, sessions, passed, ghosts>>

(***************************************************************************)
(* deactivate_client: a revocation without a token, then the deactivation. *)
(***************************************************************************)
\* UPDATE ... SET last_jti = NULL ... RETURNING last_jti returns the new value,
\* NULL: no session is revoked here.
DeactivateKill(t) ==
    /\ task[t].pc = "kill"
    /\ \/ NoFault /\ lastJti' = [lastJti EXCEPT ![task[t].cl] = NoJti] /\ Step(t, "read")
       \/ /\ Fault("db") /\ lastJti' \in {lastJti, [lastJti EXCEPT ![task[t].cl] = NoJti]}
          /\ End(t)
    /\ UNCHANGED <<isActive, revoked, challenge, chan, link, localCache, rev, sessions, passed, ghosts>>

\* SELECT of the client, after its last_jti has been cleared: only a login
\* that stored a new one in between gives it something to revoke.
DeactivateRead(t) ==
    /\ task[t].pc = "read"
    /\ \/ NoFault /\ task' = [task EXCEPT ![t].pc = "off", ![t].old = lastJti[task[t].cl]]
       \/ Fault("db") /\ End(t)
    /\ UNCHANGED <<db, revoked, challenge, chan, link, localCache, rev, sessions, passed, ghosts>>

\* Mutant: a client without a last session has one revoked all the same.
DeactivateOffAlways(t) ==
    /\ task[t].pc = "off" /\ NoFault
    /\ isActive' = isActive \ {task[t].cl}
    /\ Step(t, "revoke")
    /\ rev' = [rev EXCEPT ![t] = StartRevoke(task[t].node, task[t].old)]
    /\ UNCHANGED <<lastJti, revoked, challenge, chan, link, localCache, sessions, passed, ghosts>>

\* UPDATE ... SET is_active = FALSE, then the session read before is revoked.
\* The cached copies of the client are deleted too; a copy leaves out the id
\* (skip_serializing), so that nobody can read one back.
DeactivateOff(t) ==
    LET revokeOld == /\ Step(t, "revoke")
                     /\ rev' = [rev EXCEPT ![t] = StartRevoke(task[t].node, task[t].old)]
    IN  /\ task[t].pc = "off"
        /\ \/ /\ NoFault /\ isActive' = isActive \ {task[t].cl}
              /\ IF task[t].old # NoJti THEN revokeOld ELSE End(t) /\ UNCHANGED rev
           \/ /\ Fault("db") /\ isActive' \in {isActive, isActive \ {task[t].cl}}
              /\ End(t) /\ UNCHANGED rev
        /\ UNCHANGED <<lastJti, revoked, challenge, chan, link, localCache, sessions, passed, ghosts>>

-----------------------------------------------------------------------------
(***************************************************************************)
(* login_hybrid                                                            *)
(***************************************************************************)
\* generate_and_cache_challenge, and CHALLENGE_EXPIRY_SECONDS.
NewChallenge(h) ==
    /\ challenge[h] = "unused"
    /\ challenge' = [challenge EXCEPT ![h] = "live"]
    /\ NoFault
    /\ UNCHANGED <<db, revoked, chan, link, localCache, task, rev, sessions, passed, ghosts>>

ChallengeExpire(h) ==
    /\ challenge[h] = "live"
    /\ challenge' = [challenge EXCEPT ![h] = "gone"]
    /\ NoFault
    /\ UNCHANGED <<db, revoked, chan, link, localCache, task, rev, sessions, passed, ghosts>>

\* sign_up_hybrid consumes its challenge and then fails: its INSERT names the
\* sixteen columns of MINIMAL_CLIENT_FIELDS and gives ten values.
SignUp(h) == ChallengeExpire(h)

LoginTask(n, c) == [IdleTask EXCEPT !.pc = "find", !.op = "login", !.node = n, !.cl = c]

Minted == {j \in Jtis : owner[j] # NoClient}
\* The bound: a login starts only if a session is left for it to mint.
SessionLeft == Cardinality(Minted) + Cardinality({t \in Tasks : task[t].pc \in {"find", "mint"}}) < MaxSessions

\* Mutant: the challenge is read and not deleted.
LoginChallengeKept(t, n, c, h) ==
    /\ task[t].pc = "idle" /\ challenge[h] = "live" /\ SessionLeft
    /\ passed' = [passed EXCEPT ![h] = @ + 1]
    /\ task' = [task EXCEPT ![t] = LoginTask(n, c)]
    /\ NoFault
    /\ UNCHANGED <<db, revoked, challenge, chan, link, localCache, rev, sessions, ghosts>>

\* verify_and_consume_challenge: GETDEL; a challenge that is not there refuses
\* the login without a trace.
LoginChallenge(t, n, c, h) ==
    /\ task[t].pc = "idle" /\ challenge[h] = "live" /\ SessionLeft
    /\ challenge' = [challenge EXCEPT ![h] = "gone"]
    /\ \/ /\ NoFault /\ passed' = [passed EXCEPT ![h] = @ + 1]
          /\ task' = [task EXCEPT ![t] = LoginTask(n, c)]
       \/ Fault("redis") /\ UNCHANGED <<passed, task>>
    /\ UNCHANGED <<db, revoked, chan, link, localCache, rev, sessions, ghosts>>

\* find_active_client, then the signature and the re-attestation, either of
\* which may refuse the login.
LoggingIn(c) == {t \in Tasks : task[t].op = "login" /\ task[t].cl = c /\ task[t].pc \in {"mint", "store"}}
LoginFind(t) ==
    LET c == task[t].cl
    IN  /\ task[t].pc = "find"
        /\ \/ /\ NoFault /\ c \in isActive
              /\ task' = [task EXCEPT ![t].pc = "mint", ![t].old = lastJti[c]]
              /\ overlapped' = IF LoggingIn(c) # {} THEN overlapped \cup {c} ELSE overlapped
           \/ NoFault /\ End(t) /\ UNCHANGED overlapped
        /\ UNCHANGED <<db, revoked, challenge, chan, link, localCache, rev, sessions, passed,
                       excused, leaving>>

\* Mutant: it is the new session that is revoked.
LoginMintRevokesNew(t) ==
    LET new == Cardinality(Minted) + 1
    IN  /\ task[t].pc = "mint" /\ new \in Jtis
        /\ owner' = [owner EXCEPT ![new] = task[t].cl]
        /\ rev' = IF task[t].old # NoJti
                  THEN [rev EXCEPT ![new] = StartRevoke(task[t].node, new)] ELSE rev
        /\ task' = [task EXCEPT ![t].pc = "store", ![t].jti = new]
        /\ NoFault
        /\ UNCHANGED <<db, revoked, challenge, chan, link, localCache, issued, passed, ghosts>>

\* Mutant: the old session is forgotten, not revoked.
LoginMintForgetsOld(t) ==
    LET new == Cardinality(Minted) + 1
    IN  /\ task[t].pc = "mint" /\ new \in Jtis
        /\ owner' = [owner EXCEPT ![new] = task[t].cl]
        /\ task' = [task EXCEPT ![t].pc = "store", ![t].jti = new]
        /\ NoFault
        /\ UNCHANGED <<db, revoked, challenge, chan, link, localCache, rev, issued, passed, ghosts>>

\* The token is made and the revocation of the session read before is spawned.
LoginMint(t) ==
    LET new == Cardinality(Minted) + 1
    IN  /\ task[t].pc = "mint" /\ new \in Jtis
        /\ owner' = [owner EXCEPT ![new] = task[t].cl]
        /\ rev' = IF task[t].old # NoJti
                  THEN [rev EXCEPT ![new] = StartRevoke(task[t].node, task[t].old)] ELSE rev
        /\ task' = [task EXCEPT ![t].pc = "store", ![t].jti = new]
        /\ NoFault
        /\ UNCHANGED <<db, revoked, challenge, chan, link, localCache, issued, passed, ghosts>>

\* UPDATE clients SET last_jti, whatever it holds by now; the client gets its
\* token only if that succeeds.
LoginStore(t) ==
    /\ task[t].pc = "store"
    /\ \/ /\ NoFault /\ lastJti' = [lastJti EXCEPT ![task[t].cl] = task[t].jti]
          /\ issued' = issued \cup {task[t].jti}
       \/ /\ Fault("db") /\ lastJti' \in {lastJti, [lastJti EXCEPT ![task[t].cl] = task[t].jti]}
          /\ UNCHANGED issued
    /\ End(t)
    /\ UNCHANGED <<isActive, revoked, challenge, chan, link, localCache, rev, owner, passed, ghosts>>

-----------------------------------------------------------------------------
\* A process dies and restarts: its cache, its tasks, its revocations and its
\* connection are gone.
Crash(n) ==
    /\ Fault("crash")
    /\ localCache' = [localCache EXCEPT ![n] = EmptyCache]
    /\ task' = [t \in Tasks |-> IF task[t].node = n THEN IdleTask ELSE task[t]]
    /\ rev' = [r \in Revokers |-> IF rev[r].node = n THEN NoRevoke ELSE rev[r]]
    /\ chan' = [chan EXCEPT ![n] = <<>>] /\ link' = [link EXCEPT ![n] = "down"]
    /\ excused' = {x \in excused : x[1] # n} \cup
                  {x \in (Nodes \ {n}) \X {rev[r].jti : r \in {q \in Revokers : rev[q].node = n}} :
                       localCache[x[1]][x[2]] = "valid"}
    /\ UNCHANGED <<db, revoked, challenge, sessions, passed, overlapped, leaving>>

VerifyNext(t) == \/ \E n \in Nodes, j \in Jtis, op \in Routes : VerifyStart(t, n, op, j)
                 \/ VerifyRecheck(t) \/ VerifyLoad(t) \/ VerifyFill(t)
LogoutNext(t) == LogoutSecure(t) \/ LogoutClear(t)
DeactivateNext(t) == DeactivateKill(t) \/ DeactivateRead(t) \/ DeactivateOff(t)
LoginNext(t) == LoginFind(t) \/ LoginMint(t) \/ LoginStore(t)
RevokeNext(r) == RevokeSet(r) \/ RevokeLocal(r) \/ RevokePublish(r)
ListenerNext(n) == Connect(n) \/ Receive(n)

\* What a task does once it has started.
TaskNext(t) == VerifyRecheck(t) \/ VerifyLoad(t) \/ VerifyFill(t) \/ LogoutNext(t) \/ DeactivateNext(t) \/ LoginNext(t)

Next ==
    \/ \E t \in Tasks : VerifyNext(t) \/ LogoutNext(t) \/ DeactivateNext(t) \/ LoginNext(t)
    \/ \E t \in Tasks, n \in Nodes, c \in Clients, h \in Challenges : LoginChallenge(t, n, c, h)
    \/ \E r \in Revokers : RevokeNext(r)
    \/ \E n \in Nodes : ListenerNext(n) \/ LinkBreaks(n) \/ SilenceEnds(n) \/ Crash(n)
    \/ \E n \in Nodes, j \in Jtis : CacheExpire(n, j)
    \/ \E h \in Challenges : NewChallenge(h) \/ ChallengeExpire(h) \/ SignUp(h)

\* Spawned tasks run, the listener reconnects and reads, and TTLs end.
Fairness ==
    /\ \A t \in Tasks : WF_vars(TaskNext(t))
    /\ \A r \in Revokers : WF_vars(RevokeNext(r))
    /\ \A n \in Nodes : WF_vars(ListenerNext(n))
    /\ \A n \in Nodes, j \in Jtis : WF_vars(CacheExpire(n, j))

Spec == Init /\ [][Next]_vars /\ Fairness

-----------------------------------------------------------------------------
(***************************************************************************)
(* Properties                                                              *)
(***************************************************************************)
\* The revocation of j is under way, or a message about it is.
Revoking(j) == \E r \in Revokers : rev[r].pc # "none" /\ rev[r].jti = j
Announced(n, j) == \E i \in DOMAIN chan[n] : chan[n][i] = j

\* A process takes a revoked session for valid only in three windows: the
\* revocation is still on its way to it, the announcement was lost (a broken
\* connection, a failed PUBLISH, a crash), or an answer of Redis older than the
\* revocation was cached after it. The fallback, the listener and the fill of
\* the cache leave no other.
StaleOnlyInWindows ==
    \A n \in Nodes, j \in revoked :
        localCache[n][j] = "valid" => Revoking(j) \/ Announced(n, j) \/ <<n, j>> \in excused

\* A revoked session is one day refused for good by every process: a stale
\* entry does not outlive its TTL, and none is made anew.
StaleEntriesEnd ==
    \A n \in Nodes, j \in Jtis : j \in revoked ~> [](localCache[n][j] # "valid")

\* last_jti of an active client is a session that still works, unless the
\* logout or the login that replaces it is under way or a call failed: revoking
\* the previous session never hits the newest one.
LastIsLive ==
    \A c \in isActive : lastJti[c] \in revoked =>
        \/ \E t \in Tasks : \/ task[t].pc = "store" /\ task[t].old = lastJti[c]
                            \/ task[t].pc \in {"revoke", "clear"} /\ task[t].jti = lastJti[c]
        \/ failed \cap {"redis", "db", "crash"} # {}

\* One session per client: a session that is no longer last_jti has been revoked
\* or is about to be, unless two logins of the client overlapped, the client is
\* leaving (its last_jti is cleared before anything reads it) or a call failed.
SupersededIsRevoked ==
    \A j \in issued : LET c == owner[j] IN
        \/ lastJti[c] = j \/ j \in revoked \/ Revoking(j)
        \/ c \in overlapped \cup leaving
        \/ failed \cap {"redis", "db", "crash"} # {}

\* A challenge is good for one login, however many requests present it.
ChallengeOnce == \A h \in Challenges : passed[h] <= 1

\* Every request is answered, whatever call fails.
TasksEnd == \A t \in Tasks : task[t].pc # "idle" ~> task[t].pc = "idle"

\* What the deactivation says it does ("Revoke active session if exists"):
\* when it is over, no session of the client works. The code does not do it.
DeactivatedIsRevoked ==
    \A j \in issued : owner[j] \notin isActive /\ (\A t \in Tasks : task[t].pc = "idle") /\ ~Revoking(j)
                     => j \in revoked

\* The sessions that a process takes for valid: those in its cache, and those of answers
\* of Redis that are about to enter it.
Trusted(n) == {j \in Jtis : \/ localCache[n][j] = "valid"
                            \/ \E t \in Tasks : /\ task[t].pc = "fill" /\ task[t].seen = "valid"
                                                 /\ task[t].node = n /\ task[t].jti = j}

Store == INSTANCE SessionStore
             WITH Processes <- Nodes, Sessions <- Jtis, Nobody <- NoClient,
                  given <- issued, ended <- revoked, active <- isActive,
                  trusted <- [n \in Nodes |-> Trusted(n)]

(***************************************************************************)
(* Seen from outside the service is a store of sessions: whatever links,   *)
(* calls and processes fail, no process comes to trust a session that has  *)
(* ended, nobody receives one, and only a client that asked with a session *)
(* of its own is deactivated.                                              *)
(***************************************************************************)
IsStore == Store!Spec
=============================================================================
