----------------------------- MODULE Attestation -----------------------------
(***************************************************************************)
(* How a device's attestation is judged                                    *)
(* (src/vaultless-core/src/models/app_model/integrity: service.rs,         *)
(* android_offline.rs, ios.rs, ios_version.rs, iot.rs, dto.rs).            *)
(*                                                                         *)
(* A configuration is the set of its settings. The checks of a platform    *)
(* are a table: what each looks at, the points it adds and whether a miss  *)
(* ends the verification. The points needed are those of the settings      *)
(* (calculate_trust_score). A device is what it shows to each check.       *)
(*                                                                         *)
(* A step is what a request does between two awaits: Android waits for     *)
(* Google's keys, which a server caches; IoT reads and updates the row of  *)
(* the device; iOS is one step. What a refused or failed request adds to   *)
(* the lockout is in IntegrityService, and browsers in BrowserIntegrity.   *)
(***************************************************************************)
EXTENDS Integers, Sequences, FiniteSets, FiniteSetsExt

CONSTANTS
    Requests,    \* attestations under way at once
    Attempts,    \* what each request may send in each hour, to which configuration
    MinVersion,  \* the iOS version the setting min_version asks for
    KeysTtl,     \* hours the keys of Google are cached (JWKS_CACHE_TTL_HOURS)
    MaxIdle,     \* hours a device may be idle (max_device_idle_seconds)
    DbAhead,     \* hours by which PostgreSQL's clock is ahead of the server's
    MaxHour,     \* bound: the last hour
    MaxKeys      \* bound: the last generation of Google's keys

(***************************************************************************)
(* calculate_trust_score: the points that each setting makes necessary.    *)
(***************************************************************************)
AndroidWeights ==
    [packages |-> 15, certificates |-> 15, min_version |-> 15, reject_untrusted |-> 15,
     reject_unrecognized |-> 8, reject_unlicensed |-> 7, age_60 |-> 10, age_300 |-> 5,
     days_7 |-> 10, days_30 |-> 5, cloud |-> 5]
IosWeights ==
    [bundles |-> 20, team |-> 20, certificates |-> 25, min_version |-> 15,
     reject_untrusted |-> 10, accept_untrusted |-> 0, days_7 |-> 10, days_30 |-> 5]
IotWeights ==
    [authorities |-> 8, expiry |-> 6, no_expiry |-> 0, not_future |-> 6, no_not_future |-> 0,
     cn |-> 5, no_cn |-> 0, san |-> 8, models |-> 4, revisions |-> 4, manufacturers |-> 4,
     firmware |-> 10, elements |-> 15, idle |-> 10, challenge |-> 15, no_challenge |-> 0,
     strict |-> 5]
Weights == [android |-> AndroidWeights, ios |-> IosWeights, iot |-> IotWeights]

Platforms == DOMAIN Weights
Settings(p) == DOMAIN Weights[p]

\* Settings of the application, for every platform.
General == {"unauthenticated", "disabled"}

\* Values of one option: at most one is set. An option of IoT that is null, as it may be,
\* is neither: it is checked as if it were true, and makes no points necessary.
Exclusive == {{"age_60", "age_300"}, {"days_7", "days_30"},
              {"reject_untrusted", "accept_untrusted"}, {"challenge", "no_challenge"},
              {"expiry", "no_expiry"}, {"not_future", "no_not_future"}, {"cn", "no_cn"}}

Configurations(p) ==
    {cfg \in SUBSET (Settings(p) \cup General) : \A e \in Exclusive : Cardinality(e \cap cfg) <= 1}

Capped(n) == IF n > 100 THEN 100 ELSE n
Required(p, cfg) == Capped(MapThenSumSet(LAMBDA s : Weights[p][s], cfg \ General))

(***************************************************************************)
(* The checks in their order. A check is made when the settings "only" are *)
(* set and those of "except" are not. A hard check ends the verification.  *)
(***************************************************************************)
Check(name, gain, only, except) ==
    [name |-> name, gain |-> gain, only |-> only, except |-> except, hard |-> TRUE]
Always(name, gain) == Check(name, gain, {}, {})
If(setting, name, gain) == Check(name, gain, {setting}, {})
Unless(setting, name, gain) == Check(name, gain, {}, {setting})
Soft(check) == [check EXCEPT !.hard = FALSE]

\* verify_android_attestation_offline, from the header and from the signature on.
\* request.validate() asks for a package name and a certificate hash in AndroidData.
AndroidHeader == <<Always("filled", 0), Always("header", 20)>>
AndroidClaims ==
    <<Always("signature", 20), Always("fresh", 15),
      Soft(If("packages", "package", 15)), Soft(If("certificates", "certificate", 15)),
      Soft(Always("recognized", 10)), Soft(Always("device", 15)),
      Soft(If("reject_unlicensed", "licensed", 10)),
      Soft(Unless("reject_unlicensed", "claims", 10))>>

\* verify_ios_attestation.
IosChecks ==
    <<If("min_version", "recent", 20), Unless("min_version", "version", 10),
      Always("base64", 10), Always("leaf", 20), Always("chain", 20),
      If("certificates", "certificate", 10), Always("bundle", 10), If("team", "team", 10)>>

\* verify_iot_certificate: the certificate, the row, the revocation, the rest.
IotCertificate ==
    <<Always("base64", 5), Always("x509", 5), If("authorities", "issuer", 10),
      Unless("no_expiry", "valid_now", 10), Unless("no_not_future", "begun", 5),
      If("san", "san", 10), Always("subject", 5)>>
IotRecord == <<Always("active", 10)>>
IotRevocation == <<Always("unrevoked", 10)>>
IotDevice ==
    <<Unless("no_cn", "cn", 5), If("elements", "element", 10), If("manufacturers", "manufacturer", 5),
      If("models", "model", 5), If("revisions", "revision", 5), If("firmware", "firmware", 10),
      If("idle", "seen", 5), Unless("no_challenge", "challenge", 20)>>

ChecksOf ==
    [android |-> AndroidHeader \o AndroidClaims,
     ios     |-> IosChecks,
     iot     |-> IotCertificate \o IotRecord \o IotRevocation \o IotDevice]

CheckNames(p) == {ChecksOf[p][i].name : i \in DOMAIN ChecksOf[p]}

ASSUME BoundsAssumption ==
    /\ KeysTtl \in Nat \ {0} /\ MaxIdle \in Nat /\ DbAhead \in Nat
    /\ MaxHour \in Nat /\ MaxKeys \in Nat \ {0}

(***************************************************************************)
(* IOSVersionInfo: major.minor.patch as one number (i32).                  *)
(***************************************************************************)
VersionCode(v) == v[1] * 10000 + v[2] * 100 + v[3]
I32(n) == n >= 0 - 2147483647 - 1 /\ n <= 2147483647
\* A part may be negative; the code has to fit (large parts overflow, which is left out).
Versions == {v \in Int \X Int \X Int : \A n \in {v[1], v[2], v[3], VersionCode(v)} : I32(n)}
MeetsMinimum(v) == VersionCode(v) >= VersionCode(MinVersion)

ASSUME MinVersionAssumption == MinVersion \in Versions /\ MinVersion \in Nat \X Nat \X Nat

\* Each part before the one after it: the order that a version number means.
NotOlder(v, w) ==
    \/ v[1] > w[1]
    \/ v[1] = w[1] /\ v[2] > w[2]
    \/ v[1] = w[1] /\ v[2] = w[2] /\ v[3] >= w[3]

(***************************************************************************)
(* What a device shows: "good", "bad", or "absent" when it cannot be read. *)
(* "staged" is Play's UNRECOGNIZED_VERSION. The bundle is looked up in the *)
(* configured list, which may be empty; the version is compared.           *)
(***************************************************************************)
Shown == {"good", "bad", "absent", "staged"}

Passes(a, name) ==
    CASE name = "recent" -> a.shows.recent = "good" /\ MeetsMinimum(a.version)
      [] name = "bundle" -> a.shows.bundle = "good" /\ "bundles" \in a.cfg
      [] name = "recognized" ->
            \/ a.shows.recognized = "good"
            \/ a.shows.recognized = "staged" /\ "reject_unrecognized" \notin a.cfg
      [] OTHER -> a.shows[name] = "good"

MadeIfSet(check, cfg) ==   \* mutant: an unset require_challenge_signature is taken as false
    /\ check.only \subseteq cfg /\ check.except \cap cfg = {}
    /\ check.name = "challenge" => "challenge" \in cfg
Made(check, cfg) == check.only \subseteq cfg /\ check.except \cap cfg = {}

Missed(a, checks) ==
    {i \in DOMAIN checks : Made(checks[i], a.cfg) /\ checks[i].hard /\ ~Passes(a, checks[i].name)}

\* A refusal is a result (of which device_trusted is false), an error is none. What
\* cannot be read is an error, but for the version and the SAN that are required.
Refused == {"fresh", "certificate", "bundle", "issuer", "valid_now", "begun", "cn", "element",
            "manufacturer", "model", "revision", "firmware", "seen", "challenge"}

Outcome(a, checks) ==
    IF Missed(a, checks) = {} THEN "valid"
    ELSE LET first == checks[Min(Missed(a, checks))].name IN
         IF first \in {"recent", "san"} \/ (first \in Refused /\ a.shows[first] # "absent")
         THEN "refused" ELSE "error"

Score(a, unseen) ==
    LET checks == ChecksOf[a.p]
        Passed == {i \in DOMAIN checks : Made(checks[i], a.cfg) /\ Passes(a, checks[i].name)
                                            /\ checks[i].name \notin unseen}
    IN  Capped(MapThenSumSet(LAMBDA i : checks[i].gain, Passed))

\* device_trusted of a valid result.
Trusted(a) ==
    CASE a.p = "android" -> Passes(a, "device")
      [] a.p = "ios" -> "accept_untrusted" \in a.cfg
      [] a.p = "iot" -> TRUE

ReachesMore(score, required) == score > required   \* mutant: the score itself is not enough
Reaches(score, required) == score >= required

\* verify_integrity on a valid result.
Verdict(a, unseen) ==
    IF Reaches(Score(a, unseen), Required(a.p, a.cfg)) /\ Trusted(a) THEN "accepted" ELSE "refused"

-------------------------------------------------------------------------------
VARIABLES
    now,        \* the hour
    google,     \* the generation of keys that Google signs with
    cache,      \* the keys of GOOGLE_JWKS_CACHE and when they were stored
    device,     \* the row of the IoT device and of its revocation
    req,        \* what each request does
    \* history
    rotated     \* when Google began to sign with each generation

vars == <<now, google, cache, device, req, rotated>>

Never == -1
NoKeys == 0
Hours == 0..MaxHour
Generations == 1..MaxKeys
\* A response of Google's holds the keys of a generation and of the one before.
Published(keys) == {keys - 1, keys}

AllAttempts == UNION {Attempts[r][h] : r \in Requests, h \in Hours}
ASSUME AttemptsAssumption ==
    \A a \in AllAttempts :
        /\ a.p \in Platforms /\ a.cfg \in Configurations(a.p)
        /\ a.p = "ios" => a.version \in Versions
        /\ DOMAIN a.shows = CheckNames(a.p) /\ \A c \in DOMAIN a.shows : a.shows[c] \in Shown
        \* these are looked up in the row of the device
        /\ \A c \in {"active", "unrevoked", "seen"} \cap CheckNames(a.p) : a.shows[c] = "good"

Idle == [at |-> "idle"]
Ended(v) == [at |-> "end", verdict |-> v]

TypeOK ==
    /\ now \in Hours /\ google \in Generations
    /\ cache \in [keys : {NoKeys} \cup Generations, at : Hours]
    /\ device \in [status : {"active", "inactive"}, revoked : BOOLEAN,
                   seen : {Never} \cup 0..(MaxHour + DbAhead)]
    /\ \A r \in Requests :
          \/ req[r] = Idle
          \/ req[r] \in {Ended(v) : v \in {"accepted", "refused", "error"}}
          \/ /\ req[r].at \in {"begin", "fetch", "store", "claims",
                               "record", "revocation", "device", "seen"}
             /\ req[r].a \in Attempts[r][req[r].since] /\ req[r].since \in Hours
             /\ req[r].keys \in {NoKeys} \cup Generations /\ req[r].kid \in Generations
             /\ req[r].seen \in {Never} \cup 0..(MaxHour + DbAhead) /\ req[r].doomed \in BOOLEAN
    /\ rotated \in [Generations -> {Never} \cup Hours]

Init ==
    /\ now = 0 /\ google = 1 /\ rotated = [g \in Generations |-> IF g = 1 THEN 0 ELSE Never]
    /\ cache = [keys |-> NoKeys, at |-> 0]
    /\ device = [status |-> "active", revoked |-> FALSE, seen |-> Never]
    /\ req = [r \in Requests |-> Idle]

End(r, v) == req' = [req EXCEPT ![r] = Ended(v)]
Goto(r, at) == req' = [req EXCEPT ![r].at = at]
Judge(r, checks, next) ==
    LET o == Outcome(req[r].a, checks) IN IF o = "valid" THEN Goto(r, next) ELSE End(r, o)

Done(r) == req[r].at \in {"idle", "end"}

\* An Android token is signed with the keys of the moment.
Begin(r) ==
    /\ Done(r)
    /\ \E a \in Attempts[r][now] :
          req' = [req EXCEPT ![r] =
              [at |-> "begin", a |-> a, since |-> now, keys |-> NoKeys, kid |-> google, seen |-> Never,
               doomed |-> a.p = "iot" /\ (device.status # "active" \/ device.revoked)]]
    /\ UNCHANGED <<now, google, cache, device, rotated>>

Valid(a) == a.p = "android" => a.shows.filled = "good"

Invalid(r) ==
    /\ req[r].at = "begin" /\ ~Valid(req[r].a) /\ End(r, "error")
    /\ UNCHANGED <<now, google, cache, device, rotated>>

\* The application may switch a platform off, or the verification.
Bypass(r) ==
    /\ req[r].at = "begin" /\ Valid(req[r].a)
    /\ \/ "disabled" \in req[r].a.cfg /\ End(r, "error")
       \/ req[r].a.cfg \cap General = {"unauthenticated"} /\ End(r, "accepted")
    /\ UNCHANGED <<now, google, cache, device, rotated>>

Enters(r, p) ==
    req[r].at = "begin" /\ Valid(req[r].a) /\ req[r].a.p = p /\ req[r].a.cfg \cap General = {}

(***************************************************************************)
(* Android. The cache is read under a lock; the fetch is not under one.    *)
(***************************************************************************)
FreshForEver == cache.keys # NoKeys   \* mutant: the age of the keys is not looked at
Fresh == cache.keys # NoKeys /\ now - cache.at < KeysTtl

ReadKeys(r) ==
    /\ Enters(r, "android")
    /\ \/ Outcome(req[r].a, AndroidHeader) # "valid" /\ Judge(r, AndroidHeader, "claims")
       \/ /\ Outcome(req[r].a, AndroidHeader) = "valid"
          /\ IF Fresh THEN req' = [req EXCEPT ![r].keys = cache.keys, ![r].at = "claims"]
             ELSE Goto(r, "fetch")
    /\ UNCHANGED <<now, google, cache, device, rotated>>

Fetch(r) ==
    /\ req[r].at = "fetch"
    /\ \/ req' = [req EXCEPT ![r].keys = google, ![r].at = "store"]
       \/ End(r, "error")
    /\ UNCHANGED <<now, google, cache, device, rotated>>

StoreAhead(r) ==   \* mutant: the keys are stored as fetched in the next hour
    /\ req[r].at = "store" /\ Goto(r, "claims")
    /\ cache' = [keys |-> req[r].keys, at |-> now + 1]
    /\ UNCHANGED <<now, google, device, rotated>>

Store(r) ==
    /\ req[r].at = "store" /\ Goto(r, "claims")
    /\ cache' = [keys |-> req[r].keys, at |-> now]
    /\ UNCHANGED <<now, google, device, rotated>>

Claims(r) ==
    /\ req[r].at = "claims"
    /\ IF req[r].kid \notin Published(req[r].keys) THEN End(r, "error")
       ELSE LET o == Outcome(req[r].a, AndroidClaims) IN
            End(r, IF o = "valid" THEN Verdict(req[r].a, {}) ELSE o)
    /\ UNCHANGED <<now, google, cache, device, rotated>>

Ios(r) ==
    /\ Enters(r, "ios")
    /\ LET o == Outcome(req[r].a, IosChecks) IN
       End(r, IF o = "valid" THEN Verdict(req[r].a, {}) ELSE o)
    /\ UNCHANGED <<now, google, cache, device, rotated>>

(***************************************************************************)
(* IoT. Each query may fail. last_seen is read with the row and compared   *)
(* after the query of the revocations; a negative idle time is a huge u64. *)
(***************************************************************************)
Certificate(r) ==
    /\ Enters(r, "iot") /\ Judge(r, IotCertificate, "record")
    /\ UNCHANGED <<now, google, cache, device, rotated>>

Record(r) ==
    /\ req[r].at = "record"
    /\ \/ device.status = "active" /\ req' = [req EXCEPT ![r].seen = device.seen, ![r].at = "revocation"]
       \/ device.status # "active" /\ End(r, "refused")
       \/ End(r, "error")
    /\ UNCHANGED <<now, google, cache, device, rotated>>

RevocationSkipped(r) ==   \* mutant: the certificate's revocation is not looked up
    /\ req[r].at = "revocation" /\ Goto(r, "device")
    /\ UNCHANGED <<now, google, cache, device, rotated>>

Revocation(r) ==
    /\ req[r].at = "revocation"
    /\ \/ ~device.revoked /\ Goto(r, "device")
       \/ device.revoked /\ End(r, "refused")
       \/ End(r, "error")
    /\ UNCHANGED <<now, google, cache, device, rotated>>

NeverTooLong(r) ==   \* mutant: the limit of the idle time is not looked at
    /\ "idle" \in req[r].a.cfg /\ req[r].seen # Never
    /\ now - req[r].seen < 0

IdleTooLong(r) ==
    /\ "idle" \in req[r].a.cfg /\ req[r].seen # Never
    /\ LET idle == now - req[r].seen IN idle < 0 \/ idle > MaxIdle

\* An idle time that is too long ends the verification before the challenge.
DeviceChecks(r) ==
    /\ req[r].at = "device"
    /\ LET o == Outcome(req[r].a, IotDevice)
           before == Outcome(req[r].a, SubSeq(IotDevice, 1, Len(IotDevice) - 2)) IN
       IF before = "valid" /\ IdleTooLong(r) THEN End(r, "refused")
       ELSE IF o = "valid" THEN Goto(r, "seen") ELSE End(r, o)
    /\ UNCHANGED <<now, google, cache, device, rotated>>

\* last_seen is written before the score is compared; a device never seen has no idle points.
Seen(r) ==
    /\ req[r].at = "seen"
    /\ \/ /\ device' = [device EXCEPT !.seen = now + DbAhead]
          /\ End(r, Verdict(req[r].a, IF req[r].seen = Never THEN {"seen"} ELSE {}))
       \/ End(r, "error") /\ UNCHANGED device
    /\ UNCHANGED <<now, google, cache, rotated>>

(***************************************************************************)
(* The surroundings. A request lasts less than an hour.                    *)
(***************************************************************************)
HourEnds ==
    /\ now < MaxHour /\ now' = now + 1
    /\ \A r \in {q \in Requests : ~Done(q)} : req[r].since = now
    /\ UNCHANGED <<google, cache, device, req, rotated>>

RotateKeys ==
    /\ google < MaxKeys /\ google' = google + 1
    /\ rotated' = [rotated EXCEPT ![google + 1] = now]
    /\ UNCHANGED <<now, cache, device, req>>

Deactivate ==
    /\ device.status = "active" /\ ~device.revoked /\ device' = [device EXCEPT !.status = "inactive"]
    /\ UNCHANGED <<now, google, cache, req, rotated>>

Revoke ==
    /\ device.status = "active" /\ ~device.revoked /\ device' = [device EXCEPT !.revoked = TRUE]
    /\ UNCHANGED <<now, google, cache, req, rotated>>

Verify(r) ==
    \/ Invalid(r) \/ Bypass(r) \/ ReadKeys(r) \/ Fetch(r) \/ Store(r) \/ Claims(r) \/ Ios(r)
    \/ Certificate(r) \/ Record(r) \/ Revocation(r) \/ DeviceChecks(r) \/ Seen(r)

Next ==
    \/ \E r \in Requests : Begin(r) \/ Verify(r)
    \/ HourEnds \/ RotateKeys \/ Deactivate \/ Revoke

Spec == Init /\ [][Next]_vars

-------------------------------------------------------------------------------
(***************************************************************************)
(* Properties.                                                             *)
(***************************************************************************)

\* What an accepted device must have passed, by the settings that ask for it.
Demands ==
    [android |-> {"header", "signature", "fresh", "device"},
     ios     |-> {"base64", "leaf", "chain", "bundle"},
     iot     |-> {"base64", "x509", "subject"}]
DemandedBy ==
    [android |-> [packages |-> {}],   \* only adds points
     ios     |-> [certificates |-> {"certificate"}, team |-> {"team"}],
     iot     |-> [authorities |-> {"issuer"}, san |-> {"san"}, models |-> {"model"},
                  revisions |-> {"revision"}, manufacturers |-> {"manufacturer"},
                  firmware |-> {"firmware"}, elements |-> {"element"}]]
\* What an IoT device must have passed unless the configuration declines it.
Declining ==
    [no_challenge |-> "challenge", no_expiry |-> "valid_now", no_not_future |-> "begun",
     no_cn |-> "cn"]

Ends(r, v) == ~Done(r) /\ req'[r] = Ended(v)
Checked(r) == "unauthenticated" \notin req[r].a.cfg

(***************************************************************************)
(* An accepted iOS or IoT device has passed every check its configuration  *)
(* asks for, whatever its score; an IoT device's challenge, dates and name *)
(* are asked for unless they are declined, and a minimum iOS version by    *)
(* the order of version numbers, as long as their parts have two digits.   *)
(* An accepted Android device has a signed, recent token and is trusted;   *)
(* lists and licences only add points.                                     *)
(***************************************************************************)
AcceptedPassed ==
    [][\A r \in Requests : Ends(r, "accepted") /\ Checked(r) =>
        LET a == req[r].a
            demanded == Demands[a.p] \cup
                UNION {DemandedBy[a.p][s] : s \in a.cfg \cap DOMAIN DemandedBy[a.p]}
        IN  /\ \A c \in demanded : a.shows[c] = "good"
            /\ a.p = "iot" => \A s \in DOMAIN Declining \ a.cfg : a.shows[Declining[s]] = "good"
            /\ a.p = "ios" /\ "min_version" \in a.cfg
                    /\ a.version[2] \in 0..99 /\ a.version[3] \in 0..99
                  => NotOlder(a.version, MinVersion)
            /\ "disabled" \notin a.cfg]_vars

(***************************************************************************)
(* A device that was inactive or revoked when its request came is not      *)
(* accepted, however the reads of the row, of the revocations and the      *)
(* update of last_seen of several requests are ordered.                    *)
(***************************************************************************)
RevokedIsRefused ==
    [][\A r \in Requests :
          Ends(r, "accepted") /\ Checked(r) /\ req[r].a.p = "iot" => ~req[r].doomed]_vars

\* A device that passes all that it can be asked, of a version no older than a minimum
\* whose parts have two digits (with more, the codes are in another order than versions).
\* No part of its own is negative.
Genuine(a) ==
    /\ \A c \in DOMAIN a.shows : a.shows[c] = "good"
    /\ a.p = "ios" => /\ a.version \in Nat \X Nat \X Nat /\ NotOlder(a.version, MinVersion)
                      /\ MinVersion[2] < 100 /\ MinVersion[3] < 100

(***************************************************************************)
(* No configuration asks for a score that a genuine device does not reach. *)
(* It is refused only by an iOS configuration that does not accept         *)
(* untrusted devices (none is ever trusted) or that lists no bundle ids,   *)
(* as the default one does (no device is of a listed bundle then), or for  *)
(* the state of its row: inactive, revoked, idle too long or, PostgreSQL's *)
(* clock being ahead, seen in the future. Failed queries and fetches, and  *)
(* keys that Google has replaced, are errors and no refusals.              *)
(***************************************************************************)
GenuineIsNotRefused ==
    [][\A r \in Requests :
          Ends(r, "refused") /\ Genuine(req[r].a) =>
              \/ req[r].a.p = "ios" /\ ~({"accept_untrusted", "bundles"} \subseteq req[r].a.cfg)
              \/ req[r].a.p = "iot" /\ (device.status # "active" \/ device.revoked)
              \/ req[r].a.p = "iot" /\ "idle" \in req[r].a.cfg
                    /\ req[r].seen \notin (now - MaxIdle)..now]_vars

(***************************************************************************)
(* The keys that an Android token is checked with were Google's at most    *)
(* the cache's hours ago, and the one that a request lasts: a slow fetch   *)
(* that stores older keys over newer ones does not make them older.        *)
(***************************************************************************)
KeysWithinTtl ==
    \A r \in Requests : req[r].at = "claims" /\ req[r].keys < google =>
        now - rotated[req[r].keys + 1] <= KeysTtl + 1

(***************************************************************************)
(* A device silent for longer than max_device_idle_seconds stays out: only *)
(* an attestation writes last_seen, and only one that began in time or     *)
(* under a configuration without the limit does.                           *)
(***************************************************************************)
IdleStaysOut ==
    [][\A r \in Requests :
          req[r].at = "seen" /\ device'.seen # device.seen /\ "idle" \in req[r].a.cfg
            /\ device.seen # Never => now - device.seen <= MaxIdle + 1]_vars
===============================================================================
