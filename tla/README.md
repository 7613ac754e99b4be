# vaultless-data: verification project

TLA+ models of the services in this repository, the TLC configurations that
check them on small instances, and proofs, for every instance, of what matters
most. Every module is written from the Rust source; `PROJECT.json` names, for
each definition, the file and the lines it stands for.

    tlc -config im_races.cfg MCInstantMessage     # model-check one run
    tlapm InstantMessageProofs.tla                # check one proof module

## 1. The system

An API server (`vaultless-api`, axum on tokio) over a library (`vaultless-core`).
All state that matters is in Redis and PostgreSQL, except for channels, buffers
and in-process caches; several server processes may share both stores.
Everything is `async`: a handler is interleaved with the others at each of its
awaits, and much work is left to spawned tasks whose failure is only logged.

| component | state | operations | hard parts |
|---|---|---|---|
| **Instant messages** `models/message/` | Redis: message cache, inbox lists, pending receipts, rebuild lock, delivered flags; PostgreSQL: `messages`; process: flusher and deleter channels and buffers | send, fetch, mark_read, flush, emergency write, delete batch, rebuild | write-behind persistence, at-least-once reads with trimming, TTLs, full channels, lost answers, crashes |
| **Client sessions** `models/session/`, `models/clients/` | Redis: challenges, `revoked:<jti>`; PostgreSQL: `clients.last_jti`, `is_active`; per node: a 60 s cache of verified tokens, pub/sub link | challenge, login, verify_fast, verify_secure, revoke, logout, deactivate | stale cache entries, late fills, missed invalidations, concurrent logins |
| **Developer tokens** `services/token.rs`, `models/user.rs` | Redis: session and refresh keys; PostgreSQL: `user_sessions`, `refresh_tokens` | login pair, refresh (rotation), theft detection, verify, password reset | check-then-act on the refresh key, spawned inserts and rotations, short-lived marks |
| **Developer accounts** `user.rs`, `user_auth.rs` | the row with its two tokens; in Redis the counter of failed logins | register, login, verify e-mail, resend, reset password | tokens replaced by overlapping requests, a counter whose TTL is a second command |
| **Integrity service** `app_model/integrity/service.rs` | Redis counters with a TTL of an hour | lockout check, verdict, failure count, hourly limits | INCR and EXPIRE are two commands; lockout is check-then-act |
| **Platform verifiers** `app_model/integrity/` | IoT device rows, a cache of Google's keys; for browsers bindings, counters and a usage baseline in Redis | Android, iOS, IoT, browser, CAPTCHA, trust scores | long chains of decisions; scores configured against scores attainable; several commands per answer |
| **Usage metrics** `models/usage/`, `validate_quota.rs` | Redis hashes per key and hour, set of active keys; PostgreSQL `usage_metrics` | quota check, increments, hourly flush, orphan recovery, restoration, shutdown | HGETALL ... commit ... DEL; quota checked before and counted after |
| **Applications, API keys** `app_model/`, `api_key.rs` | rows, auth cache in Redis, a materialised view | create, update, deactivate, resolve a key, invalidate, refresh | fill against invalidation, triggers dropped during a refresh |
| Real-time `real_time_message.rs` | map of client to channel | register, unregister, publish | not routed |
| Rate limiter, circuit breakers, proofs, client tokens | | | built, but no route or call uses them |
| Crypto, billing, mail, HTTP layer, dashboards, SDK | | | pure functions, queries, I/O |

Interaction. A message handler runs behind `client_auth` (client sessions) and
`app_auth` (applications, quotas), calls InstantMessage, and that calls the
usage counters. A login calls the integrity service between the check of its
challenge and the creation of its session, and revokes the client's former
session in a spawned task. The integrity service asks a platform verifier for
its verdict and counts it. The usage flusher triggers the refresh of the
applications' view. A client's deactivation goes through the session verifier.
A developer's login ends where a pair of tokens begins.

### What makes each modelled component correct

* Messages: what was accepted is not lost and not billed twice, what is refused
  leaves nothing behind, rows leave the table only for messages that were
  handed out, only the recipient reads, and no answer is taken back.
* Sessions: a node honours a revoked session only in its named windows, one
  challenge makes one login, a client's new session ends its former one.
* Tokens: a refresh token is good for one exchange, the tables and the cache
  agree on which tokens are spent, no request revives a session that ended.
* Accounts: a mailed token changes the account once and in its time, the lock
  is overshot by no more than the logins under way, and it ends.
* Integrity: limits are overshot by no more than what runs at once, and every
  counter ends.
* Verifiers: who is accepted passed what the configuration asks for, and no
  configuration asks for a score that a genuine device cannot reach; bindings
  move only as the configuration allows.
* Usage: counts are lost or doubled only in named windows, every past hour
  should reach PostgreSQL (none does, section 6), quotas are overshot by no
  more than what runs at once.
* Applications: an answer to a request is at most an hour old, and it is known
  why a cached answer or the view is behind.

## 2. Modules

| module | models | extent |
|---|---|---|
| `InstantMessage` | send, fetch, mark_read, flusher, emergency writes, deleter, rebuild, TTLs, crash | one action per await-to-await step of each handler and background task |
| `ClientSession` | challenges, login_hybrid, verify_fast, verify_secure, revoke, listener, logout, deactivation, crash | any number of nodes, each with its cache and link |
| `TokenService` | create_token_pair, refresh_token, rotation, verify_access_token, reset | one user; pair *i* is the *i*-th minted |
| `DeveloperAccounts` | create, login_with_transaction, verify_email, resend, forgot and reset password, login counter | one account, one address |
| `IntegrityService` | verify_integrity, its counters and limits | one application and identity |
| `Attestation` | the Android, iOS and IoT verifiers, trust scores, Google's keys | the verdict of one attestation, several at once |
| `BrowserIntegrity` | validate_browser_integrity, CAPTCHA answers, counters, bindings, baseline | clients and guests |
| `UsageMetrics` | validate_hot, the increments, the flusher, recovery, shutdown, restoration | several servers, keys and hours |
| `Applications` | create, update, deactivate, resolve, invalidate, both refreshes of the view | one application with its two keys |
| `BoundedStaleness` | what the cache of `Applications` promises | abstract specification |
| `MessageLedger` | what `InstantMessage` promises senders and recipients | abstract specification |
| `SessionStore` | what `ClientSession` promises about sessions that have ended and clients that leave | abstract specification |
| `*Proofs` | the theorems about the module of that name; `VerifierProofs` those about `Attestation` and `BrowserIntegrity` | section 5 |
| `MC*` | | instances for TLC: model values, symmetry, small limits |

Each component module stands alone. Where one calls another, the callee's
answer is an input (`IntegrityService` takes any verdict of the verifiers,
`InstantMessage` may see a usage increment fail), so that what is shown of a
component holds whatever the others answer. `Applications` implements
`BoundedStaleness`, `InstantMessage` implements `MessageLedger` and
`ClientSession` implements `SessionStore`, by `INSTANCE ... WITH`.

Conventions. A step is what one task does between two awaits; `pc` or `at`
names the await it stands at, the other fields are the locals it still needs. A
Redis command or an SQL statement that may fail has a branch for it, and where
its answer may be lost the branch lets it have happened or not. In the first
four modules that were written `Fault(kind)` lets each kind of failure happen
at most once in a behaviour and at most `MaxFaults` kinds; in the others
`faults`, `crashes` or `MaxStuck` bound the failures, or a command may fail any
number of times. Variables under "history" record what the properties speak of
and guard nothing. A definition whose comment says "mutant" belongs to no
specification: it is a plausible bug that the property beside it would notice.

A request is dropped with its connection: a client that disconnects ends its
handler at the await it stands at. What such a request leaves behind is what it
leaves when its process dies there. In `DeveloperAccounts`, `IntegrityService`
and `BrowserIntegrity`, where the end of a counter depends on the request
between its INCR and its EXPIRE, a crash therefore ends any subset of the
requests, and in `UsageMetrics` one request or one flusher. In the other
modules a crash ends all requests of a process at once: what a single dropped
one leaves half done while others go on is checked there only where a failed
call leaves the same.

**InstantMessage.** `cache`, `inbox`, `pending`, `rows`, channels and buffers
are the variables of the same names in the code. A client is both a sender and
a recipient; a recipient's fetch is LLEN, LRANGE, MGET, then per hit the
delivered flag, metrics and queue_delete, then the trim. The attempts at the
delivered flag are one step; when all fail, the first may have set it. The
flusher takes each receipt of a batch out of Redis before it inserts it, and
goes on when either fails, so that a failure or a crash loses some
(`TakeReads`). The model starts at the handlers: what `app_auth` and
`client_auth` let through. Bodies, sizes and signatures are abstract;
`BadProof` names the messages whose signature does not verify. Seen as a ledger
(`Ledger`), a message is what its sender was told (`Told`), whether it is kept
(in the table, the flusher or an emergency write), delivered (`handed`), or
returned to a client; caches, inboxes, channels and locks are details that the
ledger does not have. A failed SQL call or a crash is its only accident.
Bounds: each message is sent once; the attempts at a usage increment (three in
the code, two in the runs) and the sizes of channels, batches and pages are
constants.

**ClientSession.** Sessions are numbered as they are created. A node's cache
entry is a verdict, and a task between the answer of Redis and its insert is a
fill; the listener drops an entry when a published revocation arrives, and
loses those published while its link is down. `StaleOnlyInWindows` names every
way in which a node may still honour a revoked session: an invalidation not yet
received, a fill that read before the revocation, an entry whose message was
lost. Seen as a store (`Store`), a session has an owner, was handed out or not,
has ended or not, and is trusted by a process that has it in its cache or holds
an answer of Redis that is about to enter it (`Trusted`); challenges, rows,
channels and revocations under way are details. The store says what no window
excuses: a process begins to trust a session at a moment at which it has not
ended, and nobody receives a session that has.

**TokenService.** Keys and rows are sets of pairs. The tasks that a handler
spawns (the insert of a session row, the insert or rotation of a refresh row)
are variables of their own, so that requests overtake them. `raced` and
`unrecorded` name the two windows in which a refresh token may be exchanged
more than once.

**DeveloperAccounts.** A random token is a number and a string made from it is
the number with how often it was hashed, which is what the code confuses.
`login_with_transaction` holds the row's lock and is one step.

**IntegrityService.** One operator models the counter that the code writes out
four times: INCR, an EXPIRE if the result is 1, a comparison. The verifiers
appear as a verdict, chosen freely: trusted, low trust (which is counted), an
error (which is not). Counts are followed up to `Ceiling`, above every limit.

**Attestation.** A configuration is the set of its settings, and the checks of
a platform are a table: what each looks at, the points it adds, whether a miss
ends the verification. The points needed are those of the settings. A setting
of the IoT configuration that is null is checked like one that is true and asks
for no points, which is what a configuration without it is here. A device is
what it shows to each check: good, bad or unreadable; the parts of a version
are those of an `i32`, negative ones included, whose code does not overflow.

**BrowserIntegrity.** A step is one Redis command or the answer of a CAPTCHA
provider; each may fail, with its effect (`Lost`) or without, and a server may
die or drop requests at any of them (`CrashBrowser`). `stuck` records whose
EXPIRE did not take effect for one of these reasons. The configuration comes
with the request, since the developer may change it between two of them.
Operators that `Attestation` has under the same name begin with `Browser` here
(`BrowserRequests`, `BrowserSpec`), so that one proof module extends both.

**UsageMetrics.** A hash is a key and an hour. An increment is SADD, HINCRBY
and EXPIRE as three steps; a flusher's pass is its scan, a read per key, a
transaction per batch, and SREM and DEL per key. `Readable` is a constant
because the code's parser understands none of the keys the code writes. With it
empty, as in the code, the flusher moves nothing: `us_parse.cfg` refutes
`HoursAreFlushed`, that every past hour reaches PostgreSQL, and no passing run
claims it. With `{"hour"}` the parser is the one the module's documentation
describes; the runs take it, since every question about what the flusher does
with a key it understands is empty otherwise. The theorems hold for both.

**Applications.** The row is its version and whether it is active; what is
cached is a row with the hour it was stored. Rows are read as the code expects
them (section 6 lists where the schema says otherwise).

## 3. Runs

| run | instance | shows |
|---|---|---|
| `im_races` | 1 message, 2 handlers; one failure of Redis, database or metrics, or a crash | two fetches and the background tasks in every order: deliveries are counted once and billed unless a call failed, deletes follow hand-outs; refinement of `MessageLedger` (`IsLedger`) |
| `im_pipeline` | 3 messages, 1 refused, timeout | batches and full channels: a message is never silently lost |
| `im_progress` | 1 message, 2 clients, one failure, expiry; fairness | requests end, accepted messages reach the table or a fetch |
| `cs_verify` | 2 nodes, 2 tasks, 1 session; fairness | stale answers only in the named windows, and they end; refinement of `SessionStore` (`IsStore`) |
| `cs_logins` | 2 tasks, 2 challenges, 2 sessions | concurrent logins, logouts and deactivations: the last session is live, a superseded one is revoked |
| `tk_refresh` | 1 family of 3 pairs, 2 requests, the first pair's keys expire | an exchanged token stays spent, no ended session is revived |
| `is_limits` | 2 verifications, device and browser, limits of 1 and 2, 1 failure, crash or dropped request; fairness | limits under interleaving, a lockout ends |
| `us_flush` | 1 key with a quota of 1, 2 requests at once, 1 flusher with a parser as documented, 2 hours, 1 failure | nothing lost, nothing doubled, the quota is overshot by what runs at once, no forgotten hash |
| `at_judge` | 2 attestations of every platform, configurations from empty to full, each single check failing | who is accepted passed, the genuine are not refused, keys and idle times |
| `br_checks` | 2 requests of a client and a guest, 3 configurations, lost answers, crashes, dropped requests | bindings, counters and baseline |
| `ap_cache` | 1 request, 2 overlapping operations, 3 versions, 2 hours, 1 crash | stale answers and views only for the named reasons; refinement of `BoundedStaleness` |
| `da_tokens` | 2 logins, limit 2, 4 tokens, 1 failure, crash or dropped request; fairness | tokens work once, the lock is bounded and ends |

Beside these there are configurations for single questions. Six show a promise
of a doc, comment or answer that the code does not keep (section 6), and `us_parse` a
module promise that its key parser breaks:

| configuration | module | refuted |
|---|---|---|
| `im_lost` | `MCInstantMessage` | `AcceptedIsReturned`: a recipient that polls for ever gets every message |
| `im_zombie` | `MCInstantMessage` | `HandedIsDeleted`: a handed-out message's row goes |
| `cs_deactivate` | `MCClientSession` | `DeactivatedIsRevoked`: no session of a deactivated client works |
| `tk_theft` | `MCTokenService` | `TheftEndsFamily`: after a detected reuse no token of the family works |
| `us_exact` | `MCUsageMetrics` | `ExactlyOnce`: counts reach PostgreSQL exactly once |
| `us_parse` | `MCUsageMetrics` | `HoursAreFlushed`: every past hour reaches PostgreSQL, with the parser as it is |
| `da_verify` | `MCDeveloperAccounts` | `VerificationPossible`: an unverified account can be verified |

The others pass, and ask more of the same components:

| configuration | shows |
|---|---|
| `im_refused` | `RefusedLeavesNoTrace`: a refused send stores and queues nothing; `RowsLeaveOnlyHanded`: rows leave the table for handed-out messages only |
| `im_recipient` | `OnlyRecipient`: a fetch hands out its caller's messages only |
| `cs_challenge`, `cs_ends` | `ChallengeOnce`, and `IsStore` with logins and deactivations of two sessions; every request ends |
| `tk_exchange`, `tk_ends` | `ExchangedOnce`, `UsedIsNotFresh`, `ParentIsUsed`; every rotation is recorded or known to have failed |
| `is_ends` | every verification ends |
| `at_revoked` | `RevokedIsRefused`: a device revoked before its request is not accepted |
| `br_changes` | `ChangesWithinMax` |
| `us_counts` | two requests and two flushers on one key: `NothingDoubled`, `QuotaHolds`, `UntimedIsKnown` |

Why the bounds are enough. Interference is pairwise: each hazard listed in
`PROJECT.json` needs two tasks on one message, session, token, counter or key,
plus the background tasks, which are always there. A third message is needed to
fill a channel while a batch is written, a third pair for two exchanges of one
token, a limit of two for an increment that is neither the first nor the last,
two hours for a hash that is past, three versions of a row (a creation and two
changes) for a trigger that meets the flag of another, and four tokens for one that is replaced twice. `tk_refresh` lets only
the keys of the first pair expire (`Aging`), the one that is exchanged;
`tk_exchange` lets all of them. One failure in a behaviour, of any kind, is
enough to put every action on its error path; the proofs below hold for any
number. `ap_cache` follows behaviours with the third version only while no hour
has passed and no crash has happened (`MCBound`, a state constraint: what two
overlapping changes do to flag and view happens within seconds); with two
versions it follows both.

`CHECK_DEADLOCK FALSE` is given where a behaviour may end: all messages sent,
all pairs minted and expired, the last hour over, or an identity locked, whose
requests are refused without a trace.

## 4. Fairness

Tokio runs every task that is ready, and the background loops tick for ever:
weak fairness of each task's next step (`TaskNext`, `RevokeNext`, `Increment`,
`Flush`, the steps of a login), of the flusher and of the deleter, and of the
restart of a server that the platform restarts (`UsageMetrics`). Keys with a
TTL end: weak fairness of the ends that a liveness property needs, and of no
others. No fairness is assumed of requests arriving, of failures, of crashes or
of shutdowns. The only exception is `PollingSpec` of `im_lost`, which lets the
recipient fetch again and again, the behaviour most favourable to the promise
that it refutes.

## 5. Proofs

Each proof module holds for every value of the constants, from the assumptions
that the component names (`ASSUME` in its module), and along one inductive
invariant: the properties are seldom inductive by themselves. Each action has
one step in the proof, and under it one per conjunct it can disturb. Each also
proves its type invariant, with what types alone cannot say of the locals of a
task (`Ties`, `Holds`, `TodoInv`).

| module | theorems | what the invariant adds, and why |
|---|---|---|
| `InstantMessageProofs` | `OnlyDeliveredAreDeleted`, `RowsAreKept`, `DeliveryIsCountedOnce`, `AcceptedIsNeverLost`, `DeliveriesAreBilled`, `RequestsAreAddressed`, `RefusedIsNowhere`, `ServiceIsLedger`, `ServiceKeepsPromises` | `DeliveryInv`: the deleter's channel and buffer and the ids of every fetch under way hold delivered messages only, and one task alone saw a delivered flag set. `StoreInv`: where a message is while a handler, an emergency write or the flusher holds it in a local variable. `BillInv`, `FlagInv`: which attempts at an increment were made for a flag that one fetch owns. `AddressInv`: what caches, inboxes and locals hold for whom. `TraceInv`: a message whose send has not come to the cache is nowhere. `GotInv`, `EmergInv`: what a fetch is about to return was handed to it, and an emergency write is of a message whose sender waits or was told that it failed |
| `IntegrityServiceProofs` | `FailuresBounded`, `PassesBounded`, `CountersTimed` | `PendingInv` bounds the failures counted together with those that may still come; `PassInv` keeps passes, and the first count whose comparison waits for its EXPIRE, below the counter; `TimedInv`: one task alone is about to time a counter, and only one without a TTL, since INCR answers 1 once in an hour |
| `UsageMetricsProofs` | `CountsAreKept`, `CountsAreSingle`, `QuotaKept`, `UntimedAreKnown` | `SeenIsAll`, `CreditIsAll`: what a flusher has read, or committed, is all that its hash holds; `SeenIsNew`, `OneHasIt`: no other flusher holds or credited it; `CountedAhead`: the months still to be counted by requests that were let through, so the set of requests has to be finite |
| `ApplicationsProofs` | `StaleIsExplained`, `ViewIsExplained`, `Refinement` | `Tied`: a cached row was current when it was stored, no entry is older than its time to live, and a request holds what was current that long ago. `Unseen`: a version that a request read and has not cached yet |
| `DeveloperAccountsProofs` | `TokensAreSpent`, `FailuresAreBounded` | `Live`: the tokens of the row are not dead while they are valid, and were generated apart; `Counted`: a refusal that the counter lacks is of a login under way, let in below the limit |
| `ClientSessionProofs` | `StaleIsExplained`, `LastWorks`, `FormerIsRevoked`, `ChallengesAreSpent`, `ServiceIsStore`, `ServiceKeepsPromises` | `Ties` between tasks, rows and revocations; for the windows nothing more. `Replacing`: what a login read is still what the row holds, `Condemned`: it is revoked before the new session is stored, `Secret`: nobody knows that session before; `Foreseen`: who is about to end the last session, with the revocations still to be written. They hold until a call fails (`Sound`), as the properties do. `StoreInv` holds whatever fails: of `Secret` what no failure disturbs (`Fresh`), a request is served with a session that was handed out, and whoever is being deactivated asked for it |
| `TokenServiceProofs` | `ExchangedAreSpent`, `DoomedStayOver`, `ParentsAreUsed`, `UsedAreNotFresh`, `ExchangedAtMostOnce` | `Ties` between tasks, rotations and lineage; `Recorded`: an exchange is in PostgreSQL, on its way there, or known to have failed. Marks in Redis may expire, so the invariant cannot rest on them; for `DoomedStayOver` that nothing but a task which held the session before brings it back. `Chain`: a rotation has marked its parent's row before it writes its own; `Spending`: a token whose rotation has come to PostgreSQL was marked in Redis before, and marks do not become fresh again; `Once`: a second exchange needs a request that read the key before the first marked it |
| `VerifierProofs`, of `Attestation` | `AcceptedHavePassed`, `KeysAreRecent`, `IdleStays`, `RevokedAreRefused`, `GenuineAreNotRefused` | `Times`: a request lasts less than an hour; `KeysAge`: when the keys that were read, stored or cached were replaced; `Rows`: what the row still says of a device whose request read it; `PassedStages`: a request past an await had no miss before it, and a stage without a miss has passed each hard check (`HardPassed`). Points are sums over sets of checks, so that `GenuineAreNotRefused` needs that a sum over a larger set is no smaller; this is proved with a smallest counterexample, since induction over data is out of reach |
| `VerifierProofs`, of `BrowserIntegrity` | `BaselineStaysBelow`, `CountersFall`, `ChangesAreLimited`, `MovesAreAllowed` | `BrowserInv`: what a request between two commands has read was there when it read it, and is bounded by the peak, the maximum or the limit it was compared with |

Three theorems are implementation proofs. `Refinement`: the cache of `Applications`
implements `BoundedStaleness`, under the mapping that reads a request's answer
and the history of the row off its variables. Initial states map to initial
states, and each step maps to a change, an answer or a stutter; TLC checks the
same statement as `AnswersAreRecent` in `ap_cache`. `ServiceIsLedger`: messages
implement `MessageLedger`. Each step of a handler or worker maps to one step of
the ledger (the batch of the flusher to a stutter, a failed SQL call or a crash
to an accident that may cost anything kept and leave any sender without an
answer) or to a stutter; it needs all of the invariant, since that a failed
batch or a crash costs nothing else, and that what is let go was delivered, is
not seen from one step. `ServiceIsStore`: sessions implement `SessionStore`. An
answer of Redis maps to the moment at which a process begins to trust; the
SETEX of a revocation to the end of a session; entries that expire, are
invalidated or are lost in a crash to a process that no longer trusts some;
everything of the pub/sub channel to stutters. It needs that a new session is
not revoked by anything before its client receives it (`Fresh`), also after
failures. In both modules `ServiceKeepsPromises` then takes over what the
abstract specification promises, proved about that specification alone.

What the environment may do is in the theorems as it is in the models: any
number of requests, tasks, servers and failures, any limits, any sizes of
channels and batches.

Only model-checked:

* everything under fairness (`RequestsEnd`, `AcceptedIsKept`,
  `StaleEntriesEnd`, `LockoutEnds`, `LockEnds` and the `_ends` configurations): liveness is out of the prover's reach;
* that the promises of section 3 are broken.

Every safety invariant and action property of the runs is a theorem.

`GenuineIsNotRefused` names when a genuine device is refused all the same: an
iOS configuration that does not accept untrusted devices, since none is ever
trusted; an iOS configuration without bundle ids, which is the default one and
refuses every device; an IoT row that is inactive, revoked or idle too long. It
speaks of a `MinVersion` whose parts are below 100 and of versions without
negative parts: the code packs three parts into one number, two digits for
each, and with others a newer version may have the smaller code.

`StuckOnlyByFailure` and `CountersFall` name when a browser's counter keeps no
expiry: its EXPIRE is still to come, or it did not take effect because it
failed, because the answer of the INCR was lost, or because its server died or
dropped the request in between.

## 6. Findings

`PROJECT.json` lists them with their lines. Seven have configurations (section
3). The others were met while reading. Several keep a whole path from running
with the schema of the migrations or the types of the code:

* `app_auth` cannot decode its row (BIGINT into `i32`), so that every route
  behind it fails for a key that exists; an answer from the cache carries an
  empty `app_meta`, and logins and registrations of clients then fail.
* `Application` decodes `app_meta` with field names other than those stored,
  and an update with an integrity configuration calls a function that no
  migration defines.
* A client's registration inserts ten values into sixteen columns, and a login
  that re-attests calls `jsonb_set` with a `TEXT` path.
* Every Android attestation is invalid before it is looked at, and every
  browser's headers are empty: nothing fills the fields that validation asks
  for. The iOS configuration that is made by default lists no bundle ids, and
  then refuses every device.
* The update of an application sets fields with a statement that puts a comma
  between a column and its value, which PostgreSQL refuses. `Update` in
  `Applications` is broader: it shows what the operation does once its
  statement is accepted.
* The logout of a developer fails in its extractor.
* The flusher's parser understands no key that is written, and the limit per
  minute reads a hash that nothing writes.

The modules model the code beyond these points as it is written; what they show
holds once those statements are accepted. The extractor and the refused
registration are modelled as they are: dead. The flusher's parser is a
constant, dead in `us_parse` and as its documentation describes it in the other
runs of `UsageMetrics`; in the code as it is, counts stay in Redis until they
expire.

## 7. Not modelled

* Nothing reaches them: circuit breakers, the rate limiter, client tokens,
  proofs of delivery, the WebSocket handler, the dead-letter queue,
  `revoke_access_token`, the local-only `SessionVerifier`, `batch_update`,
  `delete` and `deactivate_deep` of applications, the mail queue, and
  `register_client_identity` of browsers. A model of code that no call runs has
  no environment to be checked in.
* Pure functions, queries or output: cryptography, billing tables, mails,
  logging, dashboards, field validators of configurations, ETags.
* Parts of modelled components: the estimated cost and byte sizes of usage
  metrics, sets above one SSCAN page and the end of a month; key rotation and
  token expiry, which only shorten what a session may do; the overflow of the
  iOS version code.

Several components stay "partly": each note in `PROJECT.json` names what is
left out of them.

## 8. What could come next

The algorithms of code that nothing calls yet, when something does: the
sliding-window rate limiter and the circuit breaker.
