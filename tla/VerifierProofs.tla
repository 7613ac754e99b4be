---------------------------- MODULE VerifierProofs ----------------------------
(***************************************************************************)
(* The proofs about the verifiers. What Attestation promises across the    *)
(* awaits of a request holds for any number of requests, hours and         *)
(* generations of keys. None of it is inductive: each follows from what a  *)
(* request has read earlier and from what cannot have happened since       *)
(* (Times, KeysAge, Rows). What BrowserIntegrity promises holds for any    *)
(* clients, origins, configurations and requests that interleave           *)
(* (BrowserInv). The two share no state.                                   *)
(***************************************************************************)
EXTENDS Attestation, BrowserIntegrity, FiniteSetTheorems, WellFoundedInduction, TLAPS

Steps == {"begin", "fetch", "store", "claims", "record", "revocation", "device", "seen"}
Instants == {Never} \cup 0..(MaxHour + DbAhead)
Under == [at : Steps, a : AllAttempts, since : Hours, keys : {NoKeys} \cup Generations,
          kid : Generations, seen : Instants, doomed : BOOLEAN]
Ends3 == {Ended(v) : v \in {"accepted", "refused", "error"}}

Types ==
    /\ now \in Hours /\ google \in Generations
    /\ cache \in [keys : {NoKeys} \cup Generations, at : Hours]
    /\ device \in [status : {"active", "inactive"}, revoked : BOOLEAN, seen : Instants]
    /\ req \in [Requests -> {Idle} \cup Ends3 \cup Under]
    /\ \A r \in Requests : req[r] \in Under => req[r].a \in Attempts[r][req[r].since]
    /\ rotated \in [Generations -> {Never} \cup Hours]

\* A request lasts less than an hour; the cache and last_seen are not ahead of their clocks.
Times ==
    /\ \A r \in Requests : req[r] \in Under => req[r].since <= now /\ now <= req[r].since + 1
    /\ cache.at <= now
    /\ device.seen <= now + DbAhead

\* When keys that were read, stored or cached were replaced.
KeysAge ==
    /\ cache.keys <= google
    /\ cache.keys # NoKeys /\ cache.keys < google => cache.at - 1 <= rotated[cache.keys + 1]
    /\ \A r \in Requests : req[r] \in Under /\ req[r].at \in {"store", "claims"} =>
          /\ req[r].a.p = "android"
          /\ req[r].keys # NoKeys /\ req[r].keys <= google
          /\ req[r].keys < google =>
                IF req[r].at = "store" THEN req[r].since <= rotated[req[r].keys + 1]
                ELSE req[r].since - KeysTtl <= rotated[req[r].keys + 1]

\* What the row still says of a device whose request read it.
Rows ==
    \A r \in Requests : req[r] \in Under =>
       /\ req[r].at = "fetch" => req[r].a.p = "android"
       /\ req[r].at \in {"record", "revocation", "device", "seen"} => req[r].a.p = "iot"
       /\ req[r].doomed => device.status # "active" \/ device.revoked
       /\ req[r].doomed /\ req[r].at = "revocation" => device.revoked
       /\ req[r].doomed => req[r].at \notin {"device", "seen"}
       /\ req[r].at \in {"revocation", "device", "seen"} =>
             IF req[r].seen = Never THEN device.seen = Never \/ req[r].since <= device.seen
             ELSE req[r].seen <= device.seen
       /\ req[r].at = "seen" /\ "idle" \in req[r].a.cfg /\ req[r].seen # Never =>
             req[r].since - req[r].seen <= MaxIdle

IInv == Types /\ Times /\ KeysAge /\ Rows

-------------------------------------------------------------------------------
(***************************************************************************)
(* The operators of the checks.                                            *)
(***************************************************************************)
LEMMA OutcomeIs ==
    ASSUME NEW a, NEW checks
    PROVE  /\ Outcome(a, checks) \in {"valid", "refused", "error"}
           /\ Outcome(a, checks) = "valid" <=> Missed(a, checks) = {}
BY DEF Outcome

LEMMA VerdictIs ==
    ASSUME NEW a, NEW unseen
    PROVE  Verdict(a, unseen) \in {"accepted", "refused"}
BY DEF Verdict

\* The checks before the idle time are among all the checks of the device.
LEMMA PrefixIsValid ==
    ASSUME NEW a, Outcome(a, IotDevice) = "valid"
    PROVE  Outcome(a, SubSeq(IotDevice, 1, Len(IotDevice) - 2)) = "valid"
<1> DEFINE S == SubSeq(IotDevice, 1, Len(IotDevice) - 2)
<1>1. Len(IotDevice) = 8 /\ DOMAIN IotDevice = 1..8
  BY DEF IotDevice
<1>2. DOMAIN S = 1..6 /\ \A i \in 1..6 : S[i] = IotDevice[i]
  BY <1>1 DEF IotDevice
<1>3. Missed(a, S) \subseteq Missed(a, IotDevice)
  BY <1>1, <1>2 DEF Missed
<1>4. QED
  BY <1>3, OutcomeIs

-------------------------------------------------------------------------------
(***************************************************************************)
(* What a step does to the requests.                                       *)
(***************************************************************************)
LEMMA UnderIsNotDone ==
    ASSUME Types, NEW r \in Requests
    PROVE  /\ req[r] \in Under <=> ~Done(r)
           /\ req[r] \in Under <=> req[r].at \in Steps
BY DEF Types, Done, Under, Steps, Ends3, Ended, Idle

LEMMA EndTypes ==
    ASSUME Types, NEW r \in Requests, NEW v \in {"accepted", "refused", "error"}, End(r, v)
    PROVE  /\ req' \in [Requests -> {Idle} \cup Ends3 \cup Under]
           /\ req'[r] = Ended(v) /\ req'[r] \notin Under
           /\ \A q \in Requests \ {r} : req'[q] = req[q]
BY DEF Types, End, Ends3, Ended, Under, Steps

LEMMA GotoTypes ==
    ASSUME Types, NEW r \in Requests, req[r] \in Under, NEW at \in Steps, Goto(r, at)
    PROVE  /\ req' \in [Requests -> {Idle} \cup Ends3 \cup Under]
           /\ req'[r] \in Under /\ req'[r].at = at
           /\ \A f \in {"a", "since", "keys", "kid", "seen", "doomed"} : req'[r][f] = req[r][f]
           /\ \A q \in Requests \ {r} : req'[q] = req[q]
<1>1. req' = [req EXCEPT ![r] = [req[r] EXCEPT !.at = at]]
  BY DEF Goto
<1>2. [req[r] EXCEPT !.at = at] \in Under
  BY DEF Under
<1>3. req' \in [Requests -> {Idle} \cup Ends3 \cup Under] /\ req'[r] = [req[r] EXCEPT !.at = at]
  BY <1>1, <1>2 DEF Types
<1>4. QED
  BY <1>1, <1>2, <1>3 DEF Types, Under

LEMMA JudgeIs ==
    ASSUME NEW r \in Requests, NEW checks, NEW next, Judge(r, checks, next)
    PROVE  \/ Outcome(req[r].a, checks) = "valid" /\ Goto(r, next)
           \/ \E v \in {"accepted", "refused", "error"} : v # "accepted" /\ End(r, v)
BY OutcomeIs DEF Judge

\* A request that ends disturbs nothing.
LEMMA EndKeeps ==
    ASSUME IInv, NEW r \in Requests, NEW v \in {"accepted", "refused", "error"}, End(r, v),
           UNCHANGED <<now, google, cache, device, rotated>>
    PROVE  IInv'
<1>1. /\ req' \in [Requests -> {Idle} \cup Ends3 \cup Under]
      /\ req'[r] \notin Under
      /\ \A q \in Requests \ {r} : req'[q] = req[q]
  BY EndTypes DEF IInv
<1>2. Types'
  BY <1>1 DEF IInv, Types
<1>3. Times'
  BY <1>1 DEF IInv, Times
<1>4. KeysAge'
  BY <1>1 DEF IInv, KeysAge
<1>5. Rows'
  BY <1>1 DEF IInv, Rows
<1>6. QED
  BY <1>2, <1>3, <1>4, <1>5 DEF IInv

\* A request that goes on needs only what KeysAge and Rows say of its next step.
LEMMA GotoKeeps ==
    ASSUME IInv, NEW r \in Requests, req[r] \in Under, NEW at \in Steps, Goto(r, at),
           UNCHANGED <<now, google, device, rotated>>,
           \/ UNCHANGED cache
           \/ cache' = [keys |-> req[r].keys, at |-> now] /\ req[r].at = "store",
           at \in {"store", "claims"} => req[r].at = "store",
           at = "claims" => req[r].at = "store",
           at = "fetch" => req[r].a.p = "android",
           at \in {"record", "revocation", "device", "seen"} => req[r].a.p = "iot",
           at = "revocation" => FALSE,
           at \in {"device", "seen"} => req[r].at \in {"revocation", "device"} /\ ~req[r].doomed,
           at = "seen" => req[r].at = "device" /\ ~IdleTooLong(r)
    PROVE  IInv'
<1>1. /\ req' \in [Requests -> {Idle} \cup Ends3 \cup Under]
      /\ req'[r] \in Under /\ req'[r].at = at
      /\ req'[r].a = req[r].a /\ req'[r].since = req[r].since /\ req'[r].keys = req[r].keys
      /\ req'[r].seen = req[r].seen /\ req'[r].doomed = req[r].doomed
      /\ \A q \in Requests \ {r} : req'[q] = req[q]
  BY GotoTypes DEF IInv
<1>2. /\ now \in Int /\ req[r].since \in Int /\ req[r].seen \in Int /\ req[r].keys \in Int
      /\ MaxIdle \in Int /\ KeysTtl \in Nat /\ google \in Int
      /\ \A g \in Generations : rotated[g] \in Int
  BY BoundsAssumption DEF IInv, Types, Under, Hours, Generations, Instants, NoKeys, Never
<1>3. Types'
  BY <1>1 DEF IInv, Types, Under
<1>4. Times'
  BY <1>1, <1>2 DEF IInv, Times
<1>5. KeysAge'
  <2>1. req[r].at = "store" => req[r].keys # NoKeys /\ req[r].keys <= google
            /\ (req[r].keys < google => /\ req[r].keys + 1 \in Generations
                                        /\ req[r].since <= rotated[req[r].keys + 1])
    BY <1>2, BoundsAssumption DEF IInv, KeysAge, Types, Under, Generations, NoKeys
  <2>2. cache'.keys <= google /\
        (cache'.keys # NoKeys /\ cache'.keys < google => cache'.at - 1 <= rotated[cache'.keys + 1])
    BY <1>2, <2>1 DEF IInv, KeysAge, Times
  <2>3. at \in {"store", "claims"} =>
          /\ req[r].a.p = "android"
          /\ req[r].keys # NoKeys /\ req[r].keys <= google
          /\ req[r].keys < google =>
                IF at = "store" THEN req[r].since <= rotated[req[r].keys + 1]
                ELSE req[r].since - KeysTtl <= rotated[req[r].keys + 1]
    BY <1>2, <2>1 DEF IInv, KeysAge
  <2>4. QED
    BY <1>1, <2>2, <2>3 DEF IInv, KeysAge
<1>6. Rows'
  <2>1. at = "seen" /\ "idle" \in req[r].a.cfg /\ req[r].seen # Never =>
           req[r].since - req[r].seen <= MaxIdle
    BY <1>2 DEF IInv, Times, IdleTooLong
  <2>2. QED
    BY <1>1, <2>1 DEF IInv, Rows
<1>7. QED
  BY <1>3, <1>4, <1>5, <1>6 DEF IInv

\* What a request stores in itself when it reads the cache, Google or the row.
LEMMA ReadTypes ==
    ASSUME Types, NEW r \in Requests, NEW new \in Under, req' = [req EXCEPT ![r] = new]
    PROVE  /\ req' \in [Requests -> {Idle} \cup Ends3 \cup Under]
           /\ req'[r] = new
           /\ \A q \in Requests \ {r} : req'[q] = req[q]
BY DEF Types

-------------------------------------------------------------------------------
(***************************************************************************)
(* Every step keeps the invariant.                                         *)
(***************************************************************************)
LEMMA InitInv == Init => IInv
<1> SUFFICES ASSUME Init PROVE IInv
  OBVIOUS
<1>1. 0 \in Hours /\ 1 \in Generations /\ Idle \notin Under /\ Idle.at = "idle" /\ Never \in Instants
  BY BoundsAssumption DEF Hours, Generations, Idle, Under, Steps, Instants
<1>2. \A r \in Requests : req[r] \notin Under
  BY <1>1 DEF Init
<1>3. Types
  BY <1>1, <1>2 DEF Init, Types, Under
<1>4. Times /\ KeysAge /\ Rows
  BY <1>2, BoundsAssumption DEF Init, Times, KeysAge, Rows, Never, NoKeys
<1>5. QED
  BY <1>3, <1>4 DEF IInv

LEMMA BeginInv == ASSUME IInv, NEW r \in Requests, Begin(r) PROVE IInv'
<1>1. PICK a \in Attempts[r][now] :
        req' = [req EXCEPT ![r] =
            [at |-> "begin", a |-> a, since |-> now, keys |-> NoKeys, kid |-> google, seen |-> Never,
             doomed |-> a.p = "iot" /\ (device.status # "active" \/ device.revoked)]]
  BY DEF Begin
<1> DEFINE new == [at |-> "begin", a |-> a, since |-> now, keys |-> NoKeys, kid |-> google,
                   seen |-> Never,
                   doomed |-> a.p = "iot" /\ (device.status # "active" \/ device.revoked)]
<1>2. now \in Hours /\ google \in Generations /\ a \in AllAttempts
  BY DEF IInv, Types, AllAttempts
<1>3. new \in Under
  BY <1>2 DEF Under, Steps, Instants
<1>4. /\ req'[r] = new
      /\ \A q \in Requests \ {r} : req'[q] = req[q]
      /\ req' \in [Requests -> {Idle} \cup Ends3 \cup Under]
  BY <1>1, <1>3 DEF IInv, Types
<1> UNCHANGED <<now, google, cache, device, rotated>>
  BY DEF Begin
<1>5. new.at = "begin" /\ new.a = a /\ new.since = now
      /\ (new.doomed => device.status # "active" \/ device.revoked)
  OBVIOUS
<1> HIDE DEF new
<1>6. Types'
  BY <1>4, <1>5 DEF IInv, Types
<1>7. Times'
  BY <1>2, <1>4, <1>5 DEF IInv, Times, Hours
<1>8. KeysAge'
  BY <1>4, <1>5 DEF IInv, KeysAge
<1>9. Rows'
  BY <1>4, <1>5 DEF IInv, Rows
<1>10. QED
  BY <1>6, <1>7, <1>8, <1>9 DEF IInv

LEMMA ReadKeysInv == ASSUME IInv, NEW r \in Requests, ReadKeys(r) PROVE IInv'
<1> UNCHANGED <<now, google, cache, device, rotated>>
  BY DEF ReadKeys
<1>1. req[r] \in Under /\ req[r].at = "begin" /\ req[r].a.p = "android"
  BY UnderIsNotDone DEF IInv, ReadKeys, Enters, Steps
<1>2. CASE Judge(r, AndroidHeader, "claims") /\ Outcome(req[r].a, AndroidHeader) # "valid"
  BY <1>2, JudgeIs, EndKeeps
<1>3. CASE ~Fresh /\ Goto(r, "fetch")
  BY <1>1, <1>3, GotoKeeps DEF Steps
<1>4. CASE Fresh /\ req' = [req EXCEPT ![r].keys = cache.keys, ![r].at = "claims"]
  <2>1. /\ cache.keys \in {NoKeys} \cup Generations /\ req[r].seen \in Instants
        /\ req \in [Requests -> {Idle} \cup Ends3 \cup Under]
    BY <1>1 DEF IInv, Types, Under
  <2> DEFINE new == [req[r] EXCEPT !.keys = cache.keys, !.at = "claims"]
  <2>2. new \in Under /\ req' = [req EXCEPT ![r] = new]
    BY <1>1, <1>4, <2>1 DEF Under, Steps
  <2>3. /\ req' \in [Requests -> {Idle} \cup Ends3 \cup Under]
        /\ req'[r] \in Under /\ req'[r].at = "claims" /\ req'[r].keys = cache.keys
        /\ req'[r].a = req[r].a /\ req'[r].since = req[r].since /\ req'[r].doomed = req[r].doomed
        /\ \A q \in Requests \ {r} : req'[q] = req[q]
    <3>1. /\ req' \in [Requests -> {Idle} \cup Ends3 \cup Under] /\ req'[r] = new
          /\ \A q \in Requests \ {r} : req'[q] = req[q]
      BY <2>2, ReadTypes DEF IInv
    <3>2. QED
      BY <1>1, <2>2, <3>1 DEF Under
  <2>4. Types'
    BY <2>3, <1>1 DEF IInv, Types
  <2>5. Times'
    BY <2>3, <1>1 DEF IInv, Times
  <2>6. KeysAge'
    <3>1. /\ cache.keys # NoKeys /\ now - cache.at < KeysTtl
          /\ now \in Int /\ cache.at \in Int /\ req[r].since \in Int /\ KeysTtl \in Int
      BY <1>1, <1>4, BoundsAssumption DEF Fresh, IInv, Types, Under, Hours
    <3>2. cache.keys < google => /\ cache.keys + 1 \in Generations
                                 /\ rotated[cache.keys + 1] \in Int
      BY <3>1, <2>1, BoundsAssumption DEF IInv, Types, Generations, NoKeys, Never, Hours
    <3>3. req[r].since <= now
      BY <1>1 DEF IInv, Times
    <3>4. cache.keys < google => req[r].since - KeysTtl <= rotated[cache.keys + 1]
      BY <3>1, <3>2, <3>3 DEF IInv, KeysAge
    <3>5. QED
      BY <1>1, <2>3, <3>1, <3>4 DEF IInv, KeysAge
  <2>7. Rows'
    BY <1>1, <2>3 DEF IInv, Rows
  <2>8. QED
    BY <2>4, <2>5, <2>6, <2>7 DEF IInv
<1>5. QED
  BY <1>2, <1>3, <1>4 DEF ReadKeys

LEMMA FetchInv == ASSUME IInv, NEW r \in Requests, Fetch(r) PROVE IInv'
<1> UNCHANGED <<now, google, cache, device, rotated>>
  BY DEF Fetch
<1>1. req[r] \in Under /\ req[r].at = "fetch"
  BY UnderIsNotDone DEF IInv, Fetch, Steps
<1>2. CASE End(r, "error")
  BY <1>2, EndKeeps
<1>3. CASE req' = [req EXCEPT ![r].keys = google, ![r].at = "store"]
  <2>1. /\ google \in {NoKeys} \cup Generations /\ google # NoKeys /\ google \in Int
        /\ req[r].seen \in Instants /\ req \in [Requests -> {Idle} \cup Ends3 \cup Under]
    BY <1>1, BoundsAssumption DEF IInv, Types, Under, Generations, NoKeys
  <2> DEFINE new == [req[r] EXCEPT !.keys = google, !.at = "store"]
  <2>2. new \in Under /\ req' = [req EXCEPT ![r] = new]
    BY <1>1, <1>3, <2>1 DEF Under, Steps
  <2>3. /\ req' \in [Requests -> {Idle} \cup Ends3 \cup Under]
        /\ req'[r] \in Under /\ req'[r].at = "store" /\ req'[r].keys = google
        /\ req'[r].a = req[r].a /\ req'[r].since = req[r].since /\ req'[r].doomed = req[r].doomed
        /\ \A q \in Requests \ {r} : req'[q] = req[q]
    <3>1. /\ req' \in [Requests -> {Idle} \cup Ends3 \cup Under] /\ req'[r] = new
          /\ \A q \in Requests \ {r} : req'[q] = req[q]
      BY <2>2, ReadTypes DEF IInv
    <3>2. QED
      BY <1>1, <2>2, <3>1 DEF Under
  <2>4. Types'
    BY <2>3, <1>1 DEF IInv, Types
  <2>5. Times'
    BY <2>3, <1>1 DEF IInv, Times
  <2>6. KeysAge'
    BY <1>1, <2>1, <2>3 DEF IInv, KeysAge, Rows
  <2>7. Rows'
    BY <1>1, <2>3 DEF IInv, Rows
  <2>8. QED
    BY <2>4, <2>5, <2>6, <2>7 DEF IInv
<1>4. QED
  BY <1>2, <1>3 DEF Fetch

LEMMA StoreInv == ASSUME IInv, NEW r \in Requests, Store(r) PROVE IInv'
<1>1. req[r] \in Under /\ req[r].at = "store"
  BY UnderIsNotDone DEF IInv, Store, Steps
<1>2. QED
  BY <1>1, GotoKeeps DEF Store, Steps

LEMMA ClaimsInv == ASSUME IInv, NEW r \in Requests, Claims(r) PROVE IInv'
<1>1. \E v \in {"accepted", "refused", "error"} : End(r, v)
  BY OutcomeIs, VerdictIs DEF Claims
<1>2. QED
  BY <1>1, EndKeeps DEF Claims

LEMMA IosInv == ASSUME IInv, NEW r \in Requests, Ios(r) PROVE IInv'
<1>1. \E v \in {"accepted", "refused", "error"} : End(r, v)
  BY OutcomeIs, VerdictIs DEF Ios
<1>2. QED
  BY <1>1, EndKeeps DEF Ios

LEMMA BeforeInv == ASSUME IInv, NEW r \in Requests, Invalid(r) \/ Bypass(r) PROVE IInv'
BY EndKeeps DEF Invalid, Bypass

LEMMA CertificateInv == ASSUME IInv, NEW r \in Requests, Certificate(r) PROVE IInv'
<1> UNCHANGED <<now, google, cache, device, rotated>>
  BY DEF Certificate
<1>1. req[r] \in Under /\ req[r].at = "begin" /\ req[r].a.p = "iot"
  BY UnderIsNotDone DEF IInv, Certificate, Enters, Steps
<1>2. CASE Goto(r, "record")
  BY <1>1, <1>2, GotoKeeps DEF Steps
<1>3. QED
  BY <1>2, JudgeIs, EndKeeps DEF Certificate

LEMMA RecordInv == ASSUME IInv, NEW r \in Requests, Record(r) PROVE IInv'
<1> UNCHANGED <<now, google, cache, device, rotated>>
  BY DEF Record
<1>1. req[r] \in Under /\ req[r].at = "record"
  BY UnderIsNotDone DEF IInv, Record, Steps
<1>2. CASE End(r, "refused") \/ End(r, "error")
  BY <1>2, EndKeeps
<1>3. CASE /\ device.status = "active"
           /\ req' = [req EXCEPT ![r].seen = device.seen, ![r].at = "revocation"]
  <2>1. /\ device.seen \in Instants /\ req[r].keys \in {NoKeys} \cup Generations
        /\ req \in [Requests -> {Idle} \cup Ends3 \cup Under]
    BY <1>1 DEF IInv, Types, Under
  <2> DEFINE new == [req[r] EXCEPT !.seen = device.seen, !.at = "revocation"]
  <2>2. new \in Under /\ req' = [req EXCEPT ![r] = new]
    BY <1>1, <1>3, <2>1 DEF Under, Steps
  <2>3. /\ req' \in [Requests -> {Idle} \cup Ends3 \cup Under]
        /\ req'[r] \in Under /\ req'[r].at = "revocation" /\ req'[r].seen = device.seen
        /\ req'[r].a = req[r].a /\ req'[r].since = req[r].since /\ req'[r].doomed = req[r].doomed
        /\ \A q \in Requests \ {r} : req'[q] = req[q]
    <3>1. /\ req' \in [Requests -> {Idle} \cup Ends3 \cup Under] /\ req'[r] = new
          /\ \A q \in Requests \ {r} : req'[q] = req[q]
      BY <2>2, ReadTypes DEF IInv
    <3>2. QED
      BY <1>1, <2>2, <3>1 DEF Under
  <2>4. Types'
    BY <2>3, <1>1 DEF IInv, Types
  <2>5. Times'
    BY <2>3, <1>1 DEF IInv, Times
  <2>6. KeysAge'
    BY <1>1, <2>3 DEF IInv, KeysAge
  <2>7. Rows'
    <3>1. device.seen \in Int
      BY <2>1, BoundsAssumption DEF Instants, Never
    <3>2. QED
      BY <1>1, <1>3, <2>3, <3>1 DEF IInv, Rows
  <2>8. QED
    BY <2>4, <2>5, <2>6, <2>7 DEF IInv
<1>4. QED
  BY <1>2, <1>3 DEF Record

LEMMA RevocationInv == ASSUME IInv, NEW r \in Requests, Revocation(r) PROVE IInv'
<1> UNCHANGED <<now, google, cache, device, rotated>>
  BY DEF Revocation
<1>1. req[r] \in Under /\ req[r].at = "revocation" /\ req[r].a.p = "iot"
  BY UnderIsNotDone DEF IInv, Rows, Revocation, Steps
<1>2. CASE ~device.revoked /\ Goto(r, "device")
  <2>1. ~req[r].doomed
    BY <1>1, <1>2 DEF IInv, Rows
  <2>2. QED
    BY <1>1, <1>2, <2>1, GotoKeeps DEF Steps
<1>3. QED
  BY <1>2, EndKeeps DEF Revocation

\* A device whose checks all pass has not been idle for too long.
LEMMA DeviceChecksInv == ASSUME IInv, NEW r \in Requests, DeviceChecks(r) PROVE IInv'
<1> UNCHANGED <<now, google, cache, device, rotated>>
  BY DEF DeviceChecks
<1>1. /\ req[r] \in Under /\ req[r].at = "device"
      /\ req[r].a.p = "iot" /\ ~req[r].doomed
  BY UnderIsNotDone DEF IInv, Rows, DeviceChecks, Steps
<1>2. CASE Goto(r, "seen") /\ ~IdleTooLong(r)
  BY <1>1, <1>2, GotoKeeps DEF Steps
<1>3. \/ Goto(r, "seen") /\ ~IdleTooLong(r)
      \/ \E v \in {"accepted", "refused", "error"} : End(r, v)
  BY PrefixIsValid, OutcomeIs DEF DeviceChecks
<1>4. QED
  BY <1>2, <1>3, EndKeeps

LEMMA SeenInv == ASSUME IInv, NEW r \in Requests, Seen(r) PROVE IInv'
<1>1. req[r] \in Under /\ req[r].at = "seen"
  BY UnderIsNotDone DEF IInv, Seen, Steps
<1>2. CASE End(r, "error") /\ UNCHANGED device
  BY <1>2, EndKeeps DEF Seen
<1>3. CASE /\ device' = [device EXCEPT !.seen = now + DbAhead]
           /\ End(r, Verdict(req[r].a, IF req[r].seen = Never THEN {"seen"} ELSE {}))
  <2> UNCHANGED <<now, google, cache, rotated>>
    BY DEF Seen
  <2>1. /\ req' \in [Requests -> {Idle} \cup Ends3 \cup Under]
        /\ req'[r] \notin Under
        /\ \A q \in Requests \ {r} : req'[q] = req[q]
    BY <1>3, VerdictIs, EndTypes DEF IInv
  <2>2. /\ now \in Int /\ DbAhead \in Nat /\ now + DbAhead \in Instants
        /\ now + DbAhead \in Nat /\ device.seen \in Int
    BY BoundsAssumption DEF IInv, Types, Hours, Instants, Never
  <2>3. /\ device'.status = device.status /\ device'.revoked = device.revoked
        /\ device'.seen = now + DbAhead
        /\ device' \in [status : {"active", "inactive"}, revoked : BOOLEAN, seen : Instants]
    BY <1>3, <2>2 DEF IInv, Types
  <2>4. Types'
    BY <2>1, <2>3 DEF IInv, Types
  <2>5. Times'
    BY <2>1, <2>2, <2>3 DEF IInv, Times
  <2>6. KeysAge'
    BY <2>1 DEF IInv, KeysAge
  <2>7. Rows'
    <3> SUFFICES ASSUME NEW q \in Requests, req'[q] \in Under
                 PROVE  /\ req[q].at = "fetch" => req[q].a.p = "android"
                        /\ req[q].at \in {"record", "revocation", "device", "seen"} => req[q].a.p = "iot"
                        /\ req[q].doomed => device.status # "active" \/ device.revoked
                        /\ req[q].doomed /\ req[q].at = "revocation" => device.revoked
                        /\ req[q].doomed => req[q].at \notin {"device", "seen"}
                        /\ req[q].at \in {"revocation", "device", "seen"} =>
                              IF req[q].seen = Never THEN req[q].since <= now + DbAhead
                              ELSE req[q].seen <= now + DbAhead
                        /\ req[q].at = "seen" /\ "idle" \in req[q].a.cfg /\ req[q].seen # Never =>
                              req[q].since - req[q].seen <= MaxIdle
      BY <2>1, <2>3 DEF Rows
    <3>1. q # r /\ req[q] \in Under /\ req[q].since \in Int /\ req[q].seen \in Int
      BY <2>1, BoundsAssumption DEF Under, Hours, Instants, Never
    <3>2. req[q].since <= now + DbAhead /\ device.seen <= now + DbAhead
      BY <2>2, <3>1 DEF IInv, Times
    <3>3. QED
      BY <2>2, <3>1, <3>2 DEF IInv, Rows
  <2>8. QED
    BY <2>4, <2>5, <2>6, <2>7 DEF IInv
<1>4. QED
  BY <1>2, <1>3 DEF Seen

LEMMA HourEndsInv == ASSUME IInv, HourEnds PROVE IInv'
<1> UNCHANGED <<google, cache, device, req, rotated>>
  BY DEF HourEnds
<1>1. /\ now \in Int /\ now' = now + 1 /\ now' \in Hours
      /\ cache.at \in Int /\ device.seen \in Int /\ DbAhead \in Int
  BY BoundsAssumption DEF HourEnds, IInv, Types, Hours, Instants, Never
<1>2. \A r \in Requests : req[r] \in Under => req[r].since = now
  BY UnderIsNotDone DEF HourEnds, IInv
<1>3. Types'
  BY <1>1 DEF IInv, Types
<1>4. Times'
  BY <1>1, <1>2 DEF IInv, Times
<1>5. KeysAge' /\ Rows'
  BY DEF IInv, KeysAge, Rows
<1>6. QED
  BY <1>3, <1>4, <1>5 DEF IInv

LEMMA RotateKeysInv == ASSUME IInv, RotateKeys PROVE IInv'
<1> UNCHANGED <<now, cache, device, req>>
  BY DEF RotateKeys
<1>1. /\ google \in Int /\ google >= 1 /\ google' = google + 1 /\ google' \in Generations
      /\ now \in Hours /\ now \in Int /\ cache.at \in Int /\ KeysTtl \in Nat
      /\ cache.keys \in {NoKeys} \cup Generations
      /\ \A k \in {NoKeys} \cup Generations : k \in Int
  BY BoundsAssumption DEF RotateKeys, IInv, Types, Hours, Generations, NoKeys
<1>2. /\ rotated' \in [Generations -> {Never} \cup Hours]
      /\ rotated'[google + 1] = now
      /\ \A g \in Generations : g # google + 1 => rotated'[g] = rotated[g]
  BY <1>1 DEF RotateKeys, IInv, Types
<1>3. Types'
  BY <1>1, <1>2 DEF IInv, Types
<1>4. Times' /\ Rows'
  BY DEF IInv, Times, Rows
<1>5. KeysAge'
  <2>1. \A k \in Generations : k < google => k + 1 \in Generations /\ k + 1 # google + 1
    BY <1>1, BoundsAssumption DEF IInv, Types, Generations
  <2>2. /\ cache.keys <= google + 1
        /\ cache.keys # NoKeys /\ cache.keys < google + 1 => cache.at - 1 <= rotated'[cache.keys + 1]
    BY <1>1, <1>2, <2>1 DEF IInv, KeysAge, Times
  <2>3. ASSUME NEW r \in Requests, req[r] \in Under, req[r].at \in {"store", "claims"},
               req[r].keys < google + 1
        PROVE  IF req[r].at = "store" THEN req[r].since <= rotated'[req[r].keys + 1]
               ELSE req[r].since - KeysTtl <= rotated'[req[r].keys + 1]
    <3>1. /\ req[r].since \in Int /\ req[r].since <= now
          /\ req[r].keys \in Generations /\ req[r].keys <= google /\ req[r].keys \in Int
      BY <1>1, <2>3 DEF IInv, Times, KeysAge, Under, Hours
    <3>2. CASE req[r].keys = google
      BY <1>1, <1>2, <3>1, <3>2
    <3>3. CASE req[r].keys < google
      BY <1>2, <2>1, <2>3, <3>1, <3>3 DEF IInv, KeysAge
    <3>4. QED
      BY <1>1, <3>1, <3>2, <3>3
  <2>4. \A r \in Requests : req[r] \in Under /\ req[r].at \in {"store", "claims"} =>
           req[r].a.p = "android" /\ req[r].keys # NoKeys /\ req[r].keys <= google + 1
    BY <1>1 DEF IInv, KeysAge, Under
  <2>5. QED
    BY <1>1, <2>2, <2>3, <2>4 DEF KeysAge
<1>6. QED
  BY <1>3, <1>4, <1>5 DEF IInv

LEMMA DeviceEndsInv == ASSUME IInv, Deactivate \/ Revoke PROVE IInv'
<1> UNCHANGED <<now, google, cache, req, rotated>>
  BY DEF Deactivate, Revoke
<1>1. /\ device.status = "active" /\ ~device.revoked
      /\ device'.status # "active" \/ device'.revoked
      /\ device'.seen = device.seen
      /\ device' \in [status : {"active", "inactive"}, revoked : BOOLEAN, seen : Instants]
  BY DEF Deactivate, Revoke, IInv, Types
<1>2. Types'
  BY <1>1 DEF IInv, Types
<1>3. Times' /\ KeysAge'
  BY <1>1 DEF IInv, Times, KeysAge
<1>4. Rows'
  BY <1>1 DEF IInv, Rows
<1>5. QED
  BY <1>2, <1>3, <1>4 DEF IInv

LEMMA NextInv == ASSUME IInv, [Next]_vars PROVE IInv'
<1>1. ASSUME NEW r \in Requests, Begin(r) \/ Verify(r) PROVE IInv'
  BY <1>1, BeginInv, BeforeInv, ReadKeysInv, FetchInv, StoreInv, ClaimsInv, IosInv, CertificateInv,
     RecordInv, RevocationInv, DeviceChecksInv, SeenInv DEF Verify
<1>2. CASE UNCHANGED vars
  BY <1>2 DEF vars, IInv, Types, Times, KeysAge, Rows
<1>3. QED
  BY <1>1, <1>2, HourEndsInv, RotateKeysInv, DeviceEndsInv DEF Next

LEMMA Invariance == Spec => []IInv
<1>1. Init => IInv
  BY InitInv
<1>2. IInv /\ [Next]_vars => IInv'
  BY NextInv
<1>3. QED
  BY <1>1, <1>2, PTL DEF Spec

(***************************************************************************)
(* Which steps end a request, and how.                                     *)
(***************************************************************************)
\* A step that ends a request is that request's own.
LEMMA OnlyItsOwnEnds ==
    ASSUME IInv, Next, NEW r \in Requests, NEW v \in {"accepted", "refused", "error"}, Ends(r, v)
    PROVE  Verify(r)
<1>1. ~Done(r) /\ req'[r] = Ended(v) /\ req'[r] # req[r]
  BY DEF Ends, Done, Ended
<1>2. ASSUME NEW q \in Requests, q # r, Begin(q) \/ Verify(q) PROVE req'[r] = req[r]
  BY <1>2 DEF IInv, Types, Begin, Verify, Invalid, Bypass, ReadKeys, Fetch, Store, Claims, Ios,
     Certificate, Record, Revocation, DeviceChecks, Seen, Judge, End, Goto
<1>3. ~Begin(r)
  BY <1>1 DEF Begin
<1>4. ~HourEnds /\ ~RotateKeys /\ ~Deactivate /\ ~Revoke
  BY <1>1 DEF HourEnds, RotateKeys, Deactivate, Revoke
<1>5. QED
  BY <1>1, <1>2, <1>3, <1>4 DEF Next

\* A checked request is accepted by its last step only.
LEMMA AcceptedBy ==
    ASSUME IInv, NEW r \in Requests, Verify(r), Ends(r, "accepted"), Checked(r)
    PROVE  \/ Claims(r) /\ Outcome(req[r].a, AndroidClaims) = "valid"
                /\ Verdict(req[r].a, {}) = "accepted"
           \/ Ios(r) /\ Outcome(req[r].a, IosChecks) = "valid"
                /\ Verdict(req[r].a, {}) = "accepted"
           \/ Seen(r)
<1>1. /\ req'[r] = Ended("accepted") /\ req[r] \in Under /\ req \in [Requests -> {Idle} \cup Ends3 \cup Under]
  BY UnderIsNotDone DEF Ends, IInv, Types
<1>2. ASSUME NEW v, End(r, v) PROVE v = "accepted"
  BY <1>1, <1>2 DEF End, Ended
<1>3. ASSUME NEW at, req'[r].at = at PROVE at = "end"
  BY <1>1, <1>3 DEF Ended
<1>4. ASSUME NEW at, Goto(r, at) PROVE at = "end"
  BY <1>1, <1>3, <1>4 DEF Goto, Under
<1>5. ~Invalid(r) /\ ~Bypass(r)
  BY <1>2 DEF Invalid, Bypass, Checked
<1>6. ASSUME NEW checks, NEW next, Judge(r, checks, next) PROVE next = "end"
  BY <1>2, <1>4, <1>6, OutcomeIs DEF Judge
<1>7. ~ReadKeys(r) /\ ~Fetch(r) /\ ~Store(r)
  BY <1>1, <1>2, <1>3, <1>4, <1>6 DEF ReadKeys, Fetch, Store, Under
<1>8. ~Certificate(r) /\ ~Record(r) /\ ~Revocation(r)
  BY <1>1, <1>2, <1>3, <1>4, <1>6 DEF Certificate, Record, Revocation, Under
<1>9. ~DeviceChecks(r)
  BY <1>2, <1>4, OutcomeIs DEF DeviceChecks
<1>10. CASE Claims(r)
  BY <1>2, <1>10, OutcomeIs DEF Claims
<1>11. CASE Ios(r)
  BY <1>2, <1>11, OutcomeIs DEF Ios
<1>12. QED
  BY <1>5, <1>7, <1>8, <1>9, <1>10, <1>11 DEF Verify

-------------------------------------------------------------------------------
(***************************************************************************)
(* What the stages that a request has passed say of its device.            *)
(***************************************************************************)
PassedStages ==
    \A r \in Requests : req[r] \in Under =>
       /\ req[r].at # "begin" => "disabled" \notin req[r].a.cfg
       /\ req[r].at \in {"fetch", "store", "claims"} =>
             Outcome(req[r].a, AndroidHeader) = "valid"
       /\ req[r].at \in {"record", "revocation", "device", "seen"} =>
             Outcome(req[r].a, IotCertificate) = "valid"
       /\ req[r].at = "seen" => Outcome(req[r].a, IotDevice) = "valid"

LEMMA NotDisabled == ASSUME NEW cfg, cfg \cap General = {} PROVE "disabled" \notin cfg
BY DEF General

\* A request that is refused, or accepted, has no stage to speak of.
LEMMA EndStages ==
    ASSUME IInv, PassedStages, NEW r \in Requests, NEW v \in {"accepted", "refused", "error"}, End(r, v)
    PROVE  PassedStages'
BY EndTypes DEF IInv, PassedStages

LEMMA GotoStages ==
    ASSUME IInv, PassedStages, NEW r \in Requests, req[r] \in Under, NEW at \in Steps, Goto(r, at),
           at # "begin" => "disabled" \notin req[r].a.cfg,
           at \in {"fetch", "store", "claims"} => Outcome(req[r].a, AndroidHeader) = "valid",
           at \in {"record", "revocation", "device", "seen"} =>
              Outcome(req[r].a, IotCertificate) = "valid",
           at = "seen" => Outcome(req[r].a, IotDevice) = "valid"
    PROVE  PassedStages'
<1>1. /\ req'[r].at = at /\ req'[r].a = req[r].a
      /\ \A q \in Requests \ {r} : req'[q] = req[q]
  BY GotoTypes DEF IInv
<1>2. QED
  BY <1>1 DEF PassedStages

LEMMA ReadStages ==
    ASSUME IInv, PassedStages, NEW r \in Requests, NEW new \in Under,
           req' = [req EXCEPT ![r] = new], req[r] \in Under, new.a = req[r].a,
           new.at # "begin" => "disabled" \notin req[r].a.cfg,
           new.at \in {"fetch", "store", "claims"} => Outcome(req[r].a, AndroidHeader) = "valid",
           new.at \in {"record", "revocation", "device"} =>
              Outcome(req[r].a, IotCertificate) = "valid",
           new.at # "seen"
    PROVE  PassedStages'
<1>1. req'[r] = new /\ \A q \in Requests \ {r} : req'[q] = req[q]
  BY ReadTypes DEF IInv
<1>2. QED
  BY <1>1 DEF PassedStages

LEMMA StagesOfOthers ==
    ASSUME IInv, PassedStages, NEW r \in Requests,
           Begin(r) \/ Invalid(r) \/ Bypass(r) \/ Claims(r) \/ Ios(r) \/ Seen(r)
    PROVE  PassedStages'
<1>1. CASE Begin(r)
  <2>1. PICK a, doomed : req' = [req EXCEPT ![r] =
            [at |-> "begin", a |-> a, since |-> now, keys |-> NoKeys, kid |-> google, seen |-> Never,
             doomed |-> doomed]]
    BY <1>1 DEF Begin
  <2>2. req'[r].at = "begin" /\ \A q \in Requests \ {r} : req'[q] = req[q]
    BY <2>1 DEF IInv, Types
  <2>3. QED
    BY <2>2 DEF PassedStages
<1>2. CASE \E v \in {"accepted", "refused", "error"} : End(r, v)
  BY <1>2, EndStages
<1>3. QED
  BY <1>1, <1>2, OutcomeIs, VerdictIs DEF Invalid, Bypass, Claims, Ios, Seen

LEMMA StagesOfAndroid ==
    ASSUME IInv, PassedStages, NEW r \in Requests, ReadKeys(r) \/ Fetch(r) \/ Store(r)
    PROVE  PassedStages'
<1>1. req[r] \in Under
  BY UnderIsNotDone DEF IInv, ReadKeys, Enters, Fetch, Store, Steps
<1>2. CASE ReadKeys(r)
  <2>1. req[r].at = "begin" /\ "disabled" \notin req[r].a.cfg
    BY <1>2, NotDisabled DEF ReadKeys, Enters
  <2>2. CASE Outcome(req[r].a, AndroidHeader) # "valid"
    BY <1>2, <2>2, JudgeIs, EndStages DEF ReadKeys
  <2>3. CASE Outcome(req[r].a, AndroidHeader) = "valid" /\ ~Fresh
    BY <1>1, <1>2, <2>1, <2>3, GotoStages DEF ReadKeys, Steps
  <2>4. CASE Outcome(req[r].a, AndroidHeader) = "valid" /\ Fresh
    <3> DEFINE new == [req[r] EXCEPT !.keys = cache.keys, !.at = "claims"]
    <3>1. req' = [req EXCEPT ![r] = new]
      BY <1>1, <1>2, <2>4 DEF ReadKeys, IInv, Types
    <3>2. new \in Under /\ new.a = req[r].a /\ new.at = "claims"
      BY <1>1 DEF IInv, Types, Under, Steps
    <3>3. QED
      BY <1>1, <2>1, <2>4, <3>1, <3>2, ReadStages
  <2>5. QED
    BY <2>2, <2>3, <2>4
<1>3. CASE Fetch(r)
  <2>1. CASE End(r, "error")
    BY <2>1, EndStages
  <2>2. CASE req' = [req EXCEPT ![r].keys = google, ![r].at = "store"]
    <3> DEFINE new == [req[r] EXCEPT !.keys = google, !.at = "store"]
    <3>1. req' = [req EXCEPT ![r] = new]
      BY <1>1, <2>2 DEF IInv, Types
    <3>2. new \in Under /\ new.a = req[r].a /\ new.at = "store"
      BY <1>1 DEF IInv, Types, Under, Steps
    <3>3. "disabled" \notin req[r].a.cfg /\ Outcome(req[r].a, AndroidHeader) = "valid"
      BY <1>1, <1>3 DEF Fetch, PassedStages
    <3>4. QED
      BY <1>1, <3>1, <3>2, <3>3, ReadStages
  <2>3. QED
    BY <1>3, <2>1, <2>2 DEF Fetch
<1>4. CASE Store(r)
  BY <1>1, <1>4, GotoStages DEF Store, PassedStages, Steps
<1>5. QED
  BY <1>2, <1>3, <1>4

LEMMA StagesOfIot ==
    ASSUME IInv, PassedStages, NEW r \in Requests,
           Certificate(r) \/ Record(r) \/ Revocation(r) \/ DeviceChecks(r)
    PROVE  PassedStages'
<1>1. req[r] \in Under
  BY UnderIsNotDone DEF IInv, Certificate, Enters, Record, Revocation, DeviceChecks, Steps
<1>2. CASE Certificate(r)
  <2>1. "disabled" \notin req[r].a.cfg
    BY <1>2, NotDisabled DEF Certificate, Enters
  <2>2. CASE Outcome(req[r].a, IotCertificate) = "valid" /\ Goto(r, "record")
    BY <1>1, <2>1, <2>2, GotoStages DEF Steps
  <2>3. QED
    BY <1>2, <2>2, JudgeIs, EndStages DEF Certificate
<1>3. CASE Record(r)
  <2>1. CASE End(r, "refused") \/ End(r, "error")
    BY <2>1, EndStages
  <2>2. CASE req' = [req EXCEPT ![r].seen = device.seen, ![r].at = "revocation"]
    <3> DEFINE new == [req[r] EXCEPT !.seen = device.seen, !.at = "revocation"]
    <3>1. req' = [req EXCEPT ![r] = new]
      BY <1>1, <2>2 DEF IInv, Types
    <3>2. new \in Under /\ new.a = req[r].a /\ new.at = "revocation"
      BY <1>1 DEF IInv, Types, Under, Steps
    <3>3. "disabled" \notin req[r].a.cfg /\ Outcome(req[r].a, IotCertificate) = "valid"
      BY <1>1, <1>3 DEF Record, PassedStages
    <3>4. QED
      BY <1>1, <3>1, <3>2, <3>3, ReadStages
  <2>3. QED
    BY <1>3, <2>1, <2>2 DEF Record
<1>4. CASE Revocation(r)
  <2>1. "disabled" \notin req[r].a.cfg /\ Outcome(req[r].a, IotCertificate) = "valid"
    BY <1>1, <1>4 DEF Revocation, PassedStages
  <2>2. CASE Goto(r, "device")
    BY <1>1, <2>1, <2>2, GotoStages DEF Steps
  <2>3. QED
    BY <1>4, <2>2, EndStages DEF Revocation
<1>5. CASE DeviceChecks(r)
  <2>1. "disabled" \notin req[r].a.cfg /\ Outcome(req[r].a, IotCertificate) = "valid"
    BY <1>1, <1>5 DEF DeviceChecks, PassedStages
  <2>2. CASE Outcome(req[r].a, IotDevice) = "valid" /\ Goto(r, "seen")
    BY <1>1, <2>1, <2>2, GotoStages DEF Steps
  <2>3. CASE \E v \in {"accepted", "refused", "error"} : End(r, v)
    BY <2>3, EndStages
  <2>4. QED
    BY <1>5, <2>2, <2>3, OutcomeIs DEF DeviceChecks
<1>6. QED
  BY <1>2, <1>3, <1>4, <1>5

LEMMA StagesHold == Spec => [](IInv /\ PassedStages)
<1>1. Init => IInv /\ PassedStages
  BY InitInv, UnderIsNotDone DEF Init, PassedStages, IInv, Done, Idle
<1>2. IInv /\ PassedStages /\ [Next]_vars => (IInv /\ PassedStages)'
  <2> SUFFICES ASSUME IInv, PassedStages, [Next]_vars PROVE PassedStages'
    BY NextInv
  <2>1. ASSUME NEW r \in Requests, Begin(r) \/ Verify(r) PROVE PassedStages'
    BY <2>1, StagesOfOthers, StagesOfAndroid, StagesOfIot DEF Verify
  <2>2. CASE UNCHANGED req
    BY <2>2 DEF PassedStages
  <2>3. QED
    BY <2>1, <2>2 DEF Next, vars, HourEnds, RotateKeys, Deactivate, Revoke
<1>3. QED
  BY <1>1, <1>2, PTL DEF Spec

(***************************************************************************)
(* The tables: a valid outcome has passed every hard check that was made.  *)
(***************************************************************************)
LEMMA HardPassed ==
    ASSUME NEW a, NEW checks, Outcome(a, checks) = "valid", NEW i \in DOMAIN checks,
           checks[i].hard, Made(checks[i], a.cfg)
    PROVE  Passes(a, checks[i].name)
BY OutcomeIs DEF Missed

LEMMA AndroidPassed ==
    ASSUME NEW a, Outcome(a, AndroidHeader) = "valid", Outcome(a, AndroidClaims) = "valid"
    PROVE  a.shows["header"] = "good" /\ a.shows["signature"] = "good" /\ a.shows["fresh"] = "good"
<1>1. /\ 2 \in DOMAIN AndroidHeader /\ AndroidHeader[2] = Always("header", 20)
      /\ 1 \in DOMAIN AndroidClaims /\ AndroidClaims[1] = Always("signature", 20)
      /\ 2 \in DOMAIN AndroidClaims /\ AndroidClaims[2] = Always("fresh", 15)
  BY DEF AndroidHeader, AndroidClaims
<1>2. ASSUME NEW name, NEW gain
      PROVE  /\ Always(name, gain).hard /\ Always(name, gain).name = name
             /\ Made(Always(name, gain), a.cfg)
  BY DEF Always, Check, Made
<1>3. Passes(a, "header") /\ Passes(a, "signature") /\ Passes(a, "fresh")
  BY <1>1, <1>2, HardPassed
<1>4. QED
  BY <1>3 DEF Passes

LEMMA IosPassed ==
    ASSUME NEW a, Outcome(a, IosChecks) = "valid"
    PROVE  /\ \A c \in {"base64", "leaf", "chain", "bundle"} : a.shows[c] = "good"
           /\ "certificates" \in a.cfg => a.shows["certificate"] = "good"
           /\ "team" \in a.cfg => a.shows["team"] = "good"
           /\ "min_version" \in a.cfg => MeetsMinimum(a.version)
<1>1. /\ DOMAIN IosChecks = 1..8
      /\ IosChecks[1] = If("min_version", "recent", 20)
      /\ IosChecks[3] = Always("base64", 10) /\ IosChecks[4] = Always("leaf", 20)
      /\ IosChecks[5] = Always("chain", 20) /\ IosChecks[6] = If("certificates", "certificate", 10)
      /\ IosChecks[7] = Always("bundle", 10) /\ IosChecks[8] = If("team", "team", 10)
  BY DEF IosChecks
<1>2. ASSUME NEW name, NEW gain
      PROVE  /\ Always(name, gain).hard /\ Always(name, gain).name = name
             /\ Made(Always(name, gain), a.cfg)
  BY DEF Always, Check, Made
<1>3. ASSUME NEW setting, NEW name, NEW gain, setting \in a.cfg
      PROVE  /\ If(setting, name, gain).hard /\ If(setting, name, gain).name = name
             /\ Made(If(setting, name, gain), a.cfg)
  BY <1>3 DEF If, Check, Made
<1>4. Passes(a, "base64") /\ Passes(a, "leaf") /\ Passes(a, "chain") /\ Passes(a, "bundle")
  BY <1>1, <1>2, HardPassed
<1>5. /\ "certificates" \in a.cfg => Passes(a, "certificate")
      /\ "team" \in a.cfg => Passes(a, "team")
      /\ "min_version" \in a.cfg => Passes(a, "recent")
  BY <1>1, <1>3, HardPassed
<1>6. QED
  BY <1>4, <1>5 DEF Passes

LEMMA IotPassed ==
    ASSUME NEW a, Outcome(a, IotCertificate) = "valid", Outcome(a, IotDevice) = "valid"
    PROVE  /\ \A c \in {"base64", "x509", "subject"} : a.shows[c] = "good"
           /\ \A s \in DOMAIN DemandedBy.iot : s \in a.cfg =>
                 \A c \in DemandedBy.iot[s] : a.shows[c] = "good"
           /\ \A s \in DOMAIN Declining \ a.cfg : a.shows[Declining[s]] = "good"
<1>1. /\ DOMAIN IotCertificate = 1..7 /\ DOMAIN IotDevice = 1..8
      /\ IotCertificate[1] = Always("base64", 5) /\ IotCertificate[2] = Always("x509", 5)
      /\ IotCertificate[3] = If("authorities", "issuer", 10)
      /\ IotCertificate[4] = Unless("no_expiry", "valid_now", 10)
      /\ IotCertificate[5] = Unless("no_not_future", "begun", 5)
      /\ IotCertificate[6] = If("san", "san", 10) /\ IotCertificate[7] = Always("subject", 5)
      /\ IotDevice[1] = Unless("no_cn", "cn", 5) /\ IotDevice[2] = If("elements", "element", 10)
      /\ IotDevice[3] = If("manufacturers", "manufacturer", 5)
      /\ IotDevice[4] = If("models", "model", 5) /\ IotDevice[5] = If("revisions", "revision", 5)
      /\ IotDevice[6] = If("firmware", "firmware", 10)
      /\ IotDevice[8] = Unless("no_challenge", "challenge", 20)
  BY DEF IotCertificate, IotDevice
<1>2. ASSUME NEW name, NEW gain
      PROVE  /\ Always(name, gain).hard /\ Always(name, gain).name = name
             /\ Made(Always(name, gain), a.cfg)
  BY DEF Always, Check, Made
<1>3. ASSUME NEW setting, NEW name, NEW gain, setting \in a.cfg
      PROVE  /\ If(setting, name, gain).hard /\ If(setting, name, gain).name = name
             /\ Made(If(setting, name, gain), a.cfg)
  BY <1>3 DEF If, Check, Made
<1>4. ASSUME NEW setting, NEW name, NEW gain, setting \notin a.cfg
      PROVE  /\ Unless(setting, name, gain).hard /\ Unless(setting, name, gain).name = name
             /\ Made(Unless(setting, name, gain), a.cfg)
  BY <1>4 DEF Unless, Check, Made
<1>5. Passes(a, "base64") /\ Passes(a, "x509") /\ Passes(a, "subject")
  BY <1>1, <1>2, HardPassed
<1>6. /\ "authorities" \in a.cfg => Passes(a, "issuer")
      /\ "san" \in a.cfg => Passes(a, "san")
  BY <1>1, <1>3, HardPassed
<1>7. /\ "elements" \in a.cfg => Passes(a, "element")
      /\ "manufacturers" \in a.cfg => Passes(a, "manufacturer")
      /\ "models" \in a.cfg => Passes(a, "model")
      /\ "revisions" \in a.cfg => Passes(a, "revision")
      /\ "firmware" \in a.cfg => Passes(a, "firmware")
  BY <1>1, <1>3, HardPassed
<1>8. /\ "no_challenge" \notin a.cfg => Passes(a, "challenge")
      /\ "no_expiry" \notin a.cfg => Passes(a, "valid_now")
      /\ "no_not_future" \notin a.cfg => Passes(a, "begun")
      /\ "no_cn" \notin a.cfg => Passes(a, "cn")
  BY <1>1, <1>4, HardPassed
<1>9. \A c \in {"base64", "x509", "subject"} : a.shows[c] = "good"
  BY <1>5 DEF Passes
<1>10. \A s \in DOMAIN DemandedBy.iot : s \in a.cfg =>
          \A c \in DemandedBy.iot[s] : a.shows[c] = "good"
  BY <1>6, <1>7 DEF Passes, DemandedBy
<1>11. \A s \in DOMAIN Declining \ a.cfg : a.shows[Declining[s]] = "good"
  BY <1>8 DEF Passes, Declining
<1>12. QED
  BY <1>9, <1>10, <1>11

LEMMA TwoDigits ==
    \A a \in Int : \A b, c, x, y, z \in Nat :
        b < 100 /\ c < 100 /\ a * 10000 + b * 100 + c >= x * 10000 + y * 100 + z
        => a > x \/ (a = x /\ b > y) \/ (a = x /\ b = y /\ c >= z)
OBVIOUS

\* The code of a version orders versions as long as their parts have two digits.
LEMMA CodeOrders ==
    ASSUME NEW v \in Versions, v[2] \in 0..99, v[3] \in 0..99, MeetsMinimum(v)
    PROVE  NotOlder(v, MinVersion)
<1>1. /\ v[1] \in Int /\ v[2] \in Nat /\ v[3] \in Nat /\ v[2] < 100 /\ v[3] < 100
      /\ MinVersion[1] \in Nat /\ MinVersion[2] \in Nat /\ MinVersion[3] \in Nat
  <2>1. v \in Int \X Int \X Int
    BY DEF Versions
  <2>2. QED
    BY <2>1, MinVersionAssumption
<1>2. v[1] * 10000 + v[2] * 100 + v[3]
        >= MinVersion[1] * 10000 + MinVersion[2] * 100 + MinVersion[3]
  BY DEF MeetsMinimum, VersionCode
<1>3. \/ v[1] > MinVersion[1] \/ (v[1] = MinVersion[1] /\ v[2] > MinVersion[2])
      \/ (v[1] = MinVersion[1] /\ v[2] = MinVersion[2] /\ v[3] >= MinVersion[3])
  <2>1. ASSUME NEW a \in Int, NEW b \in Nat, NEW c \in Nat, b < 100, c < 100,
               a * 10000 + b * 100 + c
                 >= MinVersion[1] * 10000 + MinVersion[2] * 100 + MinVersion[3]
        PROVE  \/ a > MinVersion[1] \/ (a = MinVersion[1] /\ b > MinVersion[2])
               \/ (a = MinVersion[1] /\ b = MinVersion[2] /\ c >= MinVersion[3])
    BY ONLY <1>1, <2>1, TwoDigits
  <2>2. QED
    BY ONLY <1>1, <1>2, <2>1
<1>4. QED
  BY <1>3 DEF NotOlder

-------------------------------------------------------------------------------
(***************************************************************************)
(* Sums. MapThenSumSet adds up the points of a set by a recursive function *)
(* on its subsets: for a finite set there is one such function, and the    *)
(* order in which it takes the elements does not matter. The inductions    *)
(* are over the subsets of a finite set, by the least counterexample.      *)
(***************************************************************************)
\* Of some subsets of a finite set, one has no other within it.
LEMMA LeastSubset ==
    ASSUME NEW D, IsFiniteSet(D), NEW B, B \subseteq SUBSET D, B # {}
    PROVE  \E b \in B : \A c \in B : c \subseteq b => c = b
<1>1. IsWellFoundedOn(StrictSubsetOrdering(D), SUBSET D)
    BY FS_StrictSubsetOrderingWellFounded, FS_FiniteSubsetsOfFinite
<1>2. PICK b \in B : \A c \in B : <<c, b>> \notin StrictSubsetOrdering(D)
    BY <1>1, WFMin
<1>3. \A c \in B : <<c, b>> \in (SUBSET D) \X (SUBSET D)
    OBVIOUS
<1> QED
    BY <1>2, <1>3 DEF StrictSubsetOrdering

Pick(s) == CHOOSE x \in s : TRUE

\* g is the function by which MapThenSumSet adds up w, for the sets of S.
Adds(g, w, S) == g = [s \in S |-> IF s = {} THEN 0 ELSE w[Pick(s)] + g[s \ {Pick(s)}]]

LEMMA PickIs == ASSUME NEW s, s # {} PROVE Pick(s) \in s
BY DEF Pick

LEMMA AddsIs ==
    ASSUME NEW g, NEW w, NEW D, Adds(g, w, SUBSET D), NEW s, s \subseteq D
    PROVE  /\ s = {} => g[s] = 0
           /\ s # {} => g[s] = w[Pick(s)] + g[s \ {Pick(s)}]
<1>1. s \in SUBSET D
    OBVIOUS
<1> QED
    BY <1>1 DEF Adds

\* Such a function is the only one.
LEMMA AddsAgree ==
    \A w, D, g, E, h :
        IsFiniteSet(D) /\ Adds(g, w, SUBSET D) /\ E \subseteq D /\ Adds(h, w, SUBSET E) => g[E] = h[E]
<1> SUFFICES ASSUME NEW w, NEW D, NEW g, NEW E, NEW h, IsFiniteSet(D), Adds(g, w, SUBSET D),
                    E \subseteq D, Adds(h, w, SUBSET E)
             PROVE  g[E] = h[E]
    OBVIOUS
<1> DEFINE B == {t \in SUBSET D : t \subseteq E /\ g[t] # h[t]}
<1> SUFFICES ASSUME B # {} PROVE FALSE
    OBVIOUS
<1>1. PICK t \in B : \A c \in B : c \subseteq t => c = t
    <2>1. B \subseteq SUBSET D
        OBVIOUS
    <2> HIDE DEF B
    <2> QED
        BY <2>1, LeastSubset
<1>2. t \subseteq D /\ t \subseteq E /\ g[t] # h[t] /\ t # {}
    BY <1>1, AddsIs
<1>3. g[t \ {Pick(t)}] = h[t \ {Pick(t)}]
    BY <1>1, <1>2, PickIs
<1> QED
    BY <1>2, <1>3, AddsIs

LEMMA AddsExists == ASSUME NEW w, NEW D, IsFiniteSet(D) PROVE \E g : Adds(g, w, SUBSET D)
<1> DEFINE B == {t \in SUBSET D : ~ \E g : Adds(g, w, SUBSET t)}
           Of(s) == CHOOSE g : Adds(g, w, SUBSET s)
<1> SUFFICES ASSUME B # {} PROVE FALSE
    OBVIOUS
<1>1. PICK t \in B : \A c \in B : c \subseteq t => c = t
    <2>1. B \subseteq SUBSET D
        OBVIOUS
    <2> HIDE DEF B
    <2> QED
        BY <2>1, LeastSubset
<1>2. t \subseteq D /\ IsFiniteSet(t) /\ ~ \E g : Adds(g, w, SUBSET t)
    BY <1>1, FS_Subset
<1>3. \A s \in SUBSET t : s # t => Adds(Of(s), w, SUBSET s) /\ IsFiniteSet(s)
    BY <1>1, <1>2, FS_Subset
<1> HIDE DEF Of
<1> DEFINE Less(s) == s \ {Pick(s)}
           g == [s \in SUBSET t |-> IF s = {} THEN 0 ELSE w[Pick(s)] + Of(Less(s))[Less(s)]]
<1>4. \A s \in SUBSET t : s # {} => Less(s) \in SUBSET t /\ Less(s) # t /\ Less(s) \subseteq s
    BY PickIs
<1>5. ASSUME NEW s \in SUBSET t, s # t PROVE g[s] = Of(s)[s]
    <2>1. CASE s = {}
        BY <1>3, <1>5, <2>1, AddsIs
    <2>2. CASE s # {}
        <3> DEFINE u == Less(s)
        <3>1. u \in SUBSET t /\ u # t /\ u \subseteq s
            BY <1>4, <2>2
        <3>2. Adds(Of(s), w, SUBSET s) /\ IsFiniteSet(s) /\ Adds(Of(u), w, SUBSET u) /\ IsFiniteSet(u)
            BY <1>3, <1>5, <3>1
        <3>3. Of(s)[u] = Of(u)[u]
            <4> DEFINE G == Of(s)
                       H == Of(u)
            <4>1. Adds(G, w, SUBSET s) /\ Adds(H, w, SUBSET u)
                BY <3>2
            <4> HIDE DEF G, H, u
            <4>2. G[u] = H[u]
                <5>1. IsFiniteSet(s) /\ u \subseteq s
                    BY <3>1, <3>2
                <5> QED
                    BY ONLY <4>1, <5>1, AddsAgree
            <4> QED
                BY <4>2 DEF G, H
        <3>4. Of(s)[s] = w[Pick(s)] + Of(s)[u]
            BY <2>2, <3>2, AddsIs
        <3> QED
            BY <2>2, <3>3, <3>4
    <2> QED
        BY <2>1, <2>2
<1>6. \A s \in SUBSET t : s # {} => g[Less(s)] = Of(Less(s))[Less(s)]
    BY <1>4, <1>5
<1>7. g = [s \in SUBSET t |-> IF s = {} THEN 0 ELSE w[Pick(s)] + g[s \ {Pick(s)}]]
    <2> DEFINE f == [s \in SUBSET t |-> IF s = {} THEN 0 ELSE w[Pick(s)] + g[s \ {Pick(s)}]]
    <2>1. \A s \in SUBSET t : g[s] = f[s]
        BY <1>6
    <2> QED
        BY <2>1
<1>8. Adds(g, w, SUBSET t)
    BY <1>7 DEF Adds
<1> QED
    BY <1>2, <1>8

LEMMA AddsInt ==
    ASSUME NEW w, NEW D, IsFiniteSet(D), \A x \in D : w[x] \in Int, NEW g, Adds(g, w, SUBSET D)
    PROVE  \A s \in SUBSET D : g[s] \in Int
<1> DEFINE B == {t \in SUBSET D : g[t] \notin Int}
<1> SUFFICES ASSUME B # {} PROVE FALSE
    OBVIOUS
<1>1. PICK t \in B : \A c \in B : c \subseteq t => c = t
    <2>1. B \subseteq SUBSET D
        OBVIOUS
    <2> HIDE DEF B
    <2> QED
        BY <2>1, LeastSubset
<1>2. t \subseteq D /\ g[t] \notin Int /\ t # {}
    <2>1. t \subseteq D /\ g[t] \notin Int
        BY <1>1
    <2> QED
        <3>1. g[{}] = 0
            BY AddsIs
        <3> QED
            BY <2>1, <3>1
<1>3. g[t \ {Pick(t)}] \in Int /\ w[Pick(t)] \in Int
    BY <1>1, <1>2, PickIs
<1>4. g[t] = w[Pick(t)] + g[t \ {Pick(t)}]
    BY <1>2, AddsIs
<1> QED
    BY <1>2, <1>3, <1>4

\* The order of the elements does not matter.
LEMMA AnyOrder ==
    ASSUME NEW w, NEW D, IsFiniteSet(D), \A x \in D : w[x] \in Int, NEW g, Adds(g, w, SUBSET D)
    PROVE  \A s \in SUBSET D : \A y \in s : g[s] = w[y] + g[s \ {y}]
<1> DEFINE B == {t \in SUBSET D : \E y \in t : g[t] # w[y] + g[t \ {y}]}
<1> SUFFICES ASSUME B # {} PROVE FALSE
    OBVIOUS
<1>1. PICK t \in B : \A c \in B : c \subseteq t => c = t
    <2>1. B \subseteq SUBSET D
        OBVIOUS
    <2> HIDE DEF B
    <2> QED
        BY <2>1, LeastSubset
<1>2. PICK y \in t : g[t] # w[y] + g[t \ {y}]
    BY <1>1
<1> DEFINE p == Pick(t)
<1>3. t \subseteq D /\ p \in t /\ g[t] = w[p] + g[t \ {p}]
    BY <1>1, <1>2, AddsIs, PickIs
<1> HIDE DEF p
<1>4. p # y
    BY <1>2, <1>3
<1>5. t \ {p} \notin B /\ t \ {y} \notin B /\ t \ {p} \in SUBSET D /\ t \ {y} \in SUBSET D
    BY <1>1, <1>2, <1>3
<1>6. g[t \ {p}] = w[y] + g[(t \ {p}) \ {y}]
    BY <1>2, <1>4, <1>5
<1>7. g[t \ {y}] = w[p] + g[(t \ {y}) \ {p}]
    BY <1>3, <1>4, <1>5
<1>8. (t \ {p}) \ {y} = (t \ {y}) \ {p} /\ (t \ {p}) \ {y} \in SUBSET D
    BY <1>3
<1>9. w[p] \in Int /\ w[y] \in Int /\ g[(t \ {p}) \ {y}] \in Int
    BY <1>2, <1>3, <1>8, AddsInt
<1> DEFINE q == g[(t \ {p}) \ {y}]
<1>10. /\ g[t] = w[p] + (w[y] + q) /\ g[t \ {y}] = w[p] + q
       /\ g[t] # w[y] + g[t \ {y}]
    BY <1>2, <1>3, <1>6, <1>7, <1>8
<1>11. w[p] + (w[y] + q) = w[y] + (w[p] + q)
    BY <1>9
<1> QED
    BY <1>10, <1>11

\* The points that the elements of S have in w, and those of one of them.
Points(w, S) == MapThenSumSet(LAMBDA x : w[x], S)
In(w, S, d) == IF d \in S THEN w[d] ELSE 0

LEMMA PointsAre ==
    ASSUME NEW w, NEW D, IsFiniteSet(D)
    PROVE  \E g : Adds(g, w, SUBSET D) /\ \A S \in SUBSET D : Points(w, S) = g[S]
<1>1. PICK g : Adds(g, w, SUBSET D)
    BY AddsExists
<1>2. ASSUME NEW S \in SUBSET D PROVE Points(w, S) = g[S]
    <2> DEFINE h == CHOOSE f : Adds(f, w, SUBSET S)
    <2>1. Points(w, S) = h[S]
        BY DEF Points, MapThenSumSet, MapThenFoldSet, Adds, Pick
    <2>2. IsFiniteSet(S)
        BY FS_Subset
    <2>3. Adds(h, w, SUBSET S)
        BY <2>2, AddsExists
    <2> HIDE DEF h
    <2>4. h[S] = g[S]
        BY <1>1, <2>3, AddsAgree
    <2> QED
        BY <2>1, <2>4
<1> QED
    BY <1>1, <1>2

\* The elements of the finite set D have points.
HavePoints(D, w) == IsFiniteSet(D) /\ \A x \in D : w[x] \in Int

LEMMA PointsWithout ==
    \A w, D, S, d : HavePoints(D, w) /\ S \in SUBSET D =>
        /\ S \ {d} \in SUBSET D
        /\ Points(w, S) \in Int /\ Points(w, S \ {d}) \in Int /\ In(w, S, d) \in Int
        /\ Points(w, S) = Points(w, S \ {d}) + In(w, S, d)
<1> SUFFICES ASSUME NEW w, NEW D, NEW S, NEW d, HavePoints(D, w), S \in SUBSET D
             PROVE  /\ S \ {d} \in SUBSET D
                    /\ Points(w, S) \in Int /\ Points(w, S \ {d}) \in Int /\ In(w, S, d) \in Int
                    /\ Points(w, S) = Points(w, S \ {d}) + In(w, S, d)
    OBVIOUS
<1>1. PICK g : Adds(g, w, SUBSET D) /\ \A T \in SUBSET D : Points(w, T) = g[T]
    BY PointsAre DEF HavePoints
<1>2. S \ {d} \in SUBSET D
    OBVIOUS
<1>3. g[S] \in Int /\ g[S \ {d}] \in Int /\ In(w, S, d) \in Int
    <2>1. g[S] \in Int /\ g[S \ {d}] \in Int
        BY <1>1, <1>2, AddsInt DEF HavePoints
    <2>2. d \in S => w[d] \in Int
        BY DEF HavePoints
    <2> QED
        BY <2>1, <2>2 DEF In
<1>4. CASE d \in S
    <2>1. g[S] = w[d] + g[S \ {d}]
        BY <1>1, <1>4, AnyOrder DEF HavePoints
    <2>2. Points(w, S) = w[d] + Points(w, S \ {d}) /\ In(w, S, d) = w[d]
        BY <1>1, <1>2, <1>4, <2>1 DEF In
    <2> QED
        BY <1>1, <1>2, <1>3, <2>2
<1>5. CASE d \notin S
    <2>1. S \ {d} = S /\ In(w, S, d) = 0
        BY <1>5 DEF In
    <2> DEFINE n == Points(w, S)
    <2>2. Points(w, S \ {d}) = n /\ n \in Int
        BY <1>1, <1>3, <2>1
    <2> HIDE DEF n
    <2>3. n = n + 0
        BY <2>2
    <2> QED
        BY <1>2, <2>1, <2>2, <2>3 DEF n
<1> QED
    BY <1>4, <1>5

LEMMA NoPoints == ASSUME NEW w PROVE Points(w, {}) = 0
<1>1. IsFiniteSet({})
    BY FS_EmptySet
<1>2. PICK g : Adds(g, w, SUBSET {}) /\ \A T \in SUBSET {} : Points(w, T) = g[T]
    BY <1>1, PointsAre
<1>3. g[{}] = 0
    BY <1>2, AddsIs
<1> QED
    BY <1>2, <1>3

\* Four elements at once.
LEMMA PointsWithoutFour ==
    ASSUME NEW w, NEW D, HavePoints(D, w), NEW S \in SUBSET D,
           NEW a, NEW b, NEW c, NEW d, a \notin {b, c, d}, b \notin {c, d}, c # d
    PROVE  /\ S \ {a, b, c, d} \in SUBSET D
           /\ Points(w, S) = Points(w, S \ {a, b, c, d})
                               + (In(w, S, a) + In(w, S, b) + In(w, S, c) + In(w, S, d))
<1> DEFINE T == S \ {a}
           U == T \ {b}
           V == U \ {c}
           W == V \ {d}
<1>1. /\ T \in SUBSET D /\ Points(w, S) = Points(w, T) + In(w, S, a)
      /\ Points(w, S) \in Int /\ Points(w, T) \in Int /\ In(w, S, a) \in Int
    BY PointsWithout
<1>2. /\ U \in SUBSET D /\ Points(w, T) = Points(w, U) + In(w, T, b)
      /\ Points(w, U) \in Int /\ In(w, T, b) \in Int
    <2>1. HavePoints(D, w) /\ T \in SUBSET D
        BY <1>1
    <2> HIDE DEF T
    <2> QED
        BY ONLY <2>1, PointsWithout
<1>3. /\ V \in SUBSET D /\ Points(w, U) = Points(w, V) + In(w, U, c)
      /\ Points(w, V) \in Int /\ In(w, U, c) \in Int
    <2>1. HavePoints(D, w) /\ U \in SUBSET D
        BY <1>2
    <2> HIDE DEF U
    <2> QED
        BY ONLY <2>1, PointsWithout
<1>4. /\ W \in SUBSET D /\ Points(w, V) = Points(w, W) + In(w, V, d)
      /\ Points(w, W) \in Int /\ In(w, V, d) \in Int
    <2>1. HavePoints(D, w) /\ V \in SUBSET D
        BY <1>3
    <2> HIDE DEF V
    <2> QED
        BY ONLY <2>1, PointsWithout
<1>5. W = S \ {a, b, c, d}
    OBVIOUS
<1>6. In(w, T, b) = In(w, S, b) /\ In(w, U, c) = In(w, S, c) /\ In(w, V, d) = In(w, S, d)
    BY DEF In
<1> HIDE DEF T, U, V, W
<1>7. Points(w, S) = Points(w, W) + (In(w, S, a) + In(w, S, b) + In(w, S, c) + In(w, S, d))
    BY <1>1, <1>2, <1>3, <1>4, <1>6
<1> QED
    BY <1>4, <1>5, <1>7

LEMMA FourAreFinite == \A a, b, c, d : IsFiniteSet({a, b, c, d})
<1> SUFFICES ASSUME NEW a, NEW b, NEW c, NEW d PROVE IsFiniteSet({a, b, c, d})
    OBVIOUS
<1>1. IsFiniteSet({a}) /\ IsFiniteSet({b}) /\ IsFiniteSet({c}) /\ IsFiniteSet({d})
    BY FS_Singleton
<1>2. IsFiniteSet({a} \cup {b}) /\ IsFiniteSet({c} \cup {d})
    BY <1>1, FS_Union
<1>3. IsFiniteSet(({a} \cup {b}) \cup ({c} \cup {d}))
    BY <1>2, FS_Union
<1>4. ({a} \cup {b}) \cup ({c} \cup {d}) = {a, b, c, d}
    OBVIOUS
<1> QED
    BY <1>3, <1>4

-------------------------------------------------------------------------------
-------------------------------------------------------------------------------
(***************************************************************************)
(* Scores. A genuine device scores what its configuration asks for.        *)
(***************************************************************************)
\* The values of one option are not both set.
LEMMA NotBoth ==
    ASSUME NEW p, NEW cfg \in Configurations(p), NEW x, NEW y, x # y, {x, y} \in Exclusive
    PROVE  ~(x \in cfg /\ y \in cfg)
<1> SUFFICES ASSUME x \in cfg, y \in cfg PROVE FALSE
    OBVIOUS
<1>1. {x, y} \cap cfg = {x, y} /\ {x, y} = {x} \cup {y} /\ {x} \cap {y} = {}
    OBVIOUS
<1>2. IsFiniteSet({x}) /\ Cardinality({x}) = 1 /\ IsFiniteSet({y}) /\ Cardinality({y}) = 1
    BY FS_Singleton
<1>3. Cardinality({x} \cup {y}) = 1 + 1 - Cardinality({})
    BY <1>1, <1>2, FS_Union
<1>4. Cardinality({x, y} \cap cfg) = 2
    BY <1>1, <1>3, FS_EmptySet
<1>5. Cardinality({x, y} \cap cfg) <= 1
    BY DEF Configurations
<1> QED
    BY <1>4, <1>5

LEMMA RequiredIs ==
    ASSUME NEW p, NEW cfg
    PROVE  Required(p, cfg) = Capped(Points(Weights[p], cfg \ General))
BY DEF Required, Points

\* What the settings of Android ask for, beyond the lists of packages and certificates.
LEMMA AndroidNeeds ==
    ASSUME NEW cfg \in Configurations("android")
    PROVE  /\ Points(AndroidWeights, cfg \ General) \in Int
           /\ Points(AndroidWeights, cfg \ General)
              <= 70 + In(AndroidWeights, cfg, "packages") + In(AndroidWeights, cfg, "certificates")
<1> DEFINE w == AndroidWeights
           D == DOMAIN w
           S == cfg \ General
           A == {"packages", "certificates", "min_version", "reject_untrusted"}
           B == {"reject_unrecognized", "reject_unlicensed", "age_60", "age_300"}
           C == {"days_7", "days_30", "cloud", "packages"}
           T == S \ A
           U == T \ B
           V == U \ C
<1>1. D = A \cup B \cup C
    BY DEF AndroidWeights
<1>2. HavePoints(D, w)
    <2>1. IsFiniteSet(A) /\ IsFiniteSet(B) /\ IsFiniteSet(C)
        BY FourAreFinite
    <2>2. IsFiniteSet(D)
        <3>1. IsFiniteSet(A \cup B)
            BY <2>1, FS_Union
        <3>2. IsFiniteSet((A \cup B) \cup C)
            BY <2>1, <3>1, FS_Union
        <3> QED
            BY <1>1, <3>2
    <2>3. \A x \in D : w[x] \in Int
        BY <1>1 DEF AndroidWeights
    <2> QED
        BY <2>2, <2>3 DEF HavePoints
<1>3. S \in SUBSET D
    BY DEF Configurations, Settings, Weights
<1>4. ~("age_60" \in cfg /\ "age_300" \in cfg) /\ ~("days_7" \in cfg /\ "days_30" \in cfg)
    <2>1. {"age_60", "age_300"} \in Exclusive /\ {"days_7", "days_30"} \in Exclusive
        BY DEF Exclusive
    <2> QED
        BY <2>1, NotBoth
<1> HIDE DEF D, S
<1>5. /\ T \in SUBSET D
      /\ Points(w, S) = Points(w, T) + (In(w, S, "packages") + In(w, S, "certificates")
                                          + In(w, S, "min_version") + In(w, S, "reject_untrusted"))
    BY <1>2, <1>3, PointsWithoutFour
<1> HIDE DEF T
<1>6. /\ U \in SUBSET D
      /\ Points(w, T) = Points(w, U) + (In(w, T, "reject_unrecognized") + In(w, T, "reject_unlicensed")
                                          + In(w, T, "age_60") + In(w, T, "age_300"))
    BY <1>2, <1>5, PointsWithoutFour
<1> HIDE DEF U
<1>7. /\ V \in SUBSET D
      /\ Points(w, U) = Points(w, V) + (In(w, U, "days_7") + In(w, U, "days_30")
                                          + In(w, U, "cloud") + In(w, U, "packages"))
    BY <1>2, <1>6, PointsWithoutFour
<1>8. Points(w, V) = 0
    <2>1. V = {}
        BY <1>1, <1>3 DEF T, U
    <2> QED
        BY <2>1, NoPoints
<1>9. /\ In(w, U, "packages") = 0
      /\ \A x \in B : In(w, T, x) = In(w, cfg, x)
      /\ \A x \in C \ {"packages"} : In(w, U, x) = In(w, cfg, x)
      /\ \A x \in A : In(w, S, x) = In(w, cfg, x)
    BY DEF S, T, U, In, General
<1> DEFINE n(x) == In(w, cfg, x)
<1>10. /\ n("packages") \in 0..15 /\ n("certificates") \in 0..15
       /\ n("min_version") \in 0..15 /\ n("reject_untrusted") \in 0..15
       /\ n("reject_unrecognized") \in 0..8 /\ n("reject_unlicensed") \in 0..7
       /\ n("age_60") \in {0, 10} /\ n("age_300") \in {0, 5}
       /\ n("days_7") \in {0, 10} /\ n("days_30") \in {0, 5} /\ n("cloud") \in 0..5
    BY DEF In, AndroidWeights
<1>11. n("age_60") + n("age_300") <= 10 /\ n("days_7") + n("days_30") <= 10
    BY <1>4 DEF In, AndroidWeights
<1>12. Points(w, S) = (0 + (n("days_7") + n("days_30") + n("cloud") + 0)
            + (n("reject_unrecognized") + n("reject_unlicensed") + n("age_60") + n("age_300")))
            + (n("packages") + n("certificates") + n("min_version") + n("reject_untrusted"))
    BY <1>5, <1>6, <1>7, <1>8, <1>9
<1> HIDE DEF n
<1> DEFINE x == n("days_7") + n("days_30") + n("cloud") + 0
           y == n("reject_unrecognized") + n("reject_unlicensed") + n("age_60") + n("age_300")
           z == n("packages") + n("certificates") + n("min_version") + n("reject_untrusted")
<1>13. x \in Int /\ x <= 15
    BY <1>10, <1>11
<1>14. y \in Int /\ y <= 25
    BY <1>10, <1>11
<1>15. z \in Int /\ z <= n("packages") + n("certificates") + 30
    BY <1>10
<1>16. Points(w, S) = (0 + x + y) + z
    BY <1>12
<1> HIDE DEF x, y, z
<1>17. Points(w, S) \in Int /\ Points(w, S) <= 70 + n("packages") + n("certificates")
    BY <1>10, <1>13, <1>14, <1>15, <1>16
<1> QED
    BY <1>17 DEF S, n

\* What the checks of a sequence add up to.
Gains(checks) == [i \in DOMAIN checks |-> checks[i].gain]

LEMMA GainsAre ==
    ASSUME NEW checks, NEW S \in SUBSET DOMAIN checks, IsFiniteSet(S)
    PROVE  MapThenSumSet(LAMBDA i : checks[i].gain, S) = Points(Gains(checks), S)
<1> DEFINE Once(f) == [s \in SUBSET S |-> IF s = {} THEN 0 ELSE checks[Pick(s)].gain + f[s \ {Pick(s)}]]
           h == CHOOSE f : f = Once(f)
<1>1. MapThenSumSet(LAMBDA i : checks[i].gain, S) = h[S]
    BY DEF MapThenSumSet, MapThenFoldSet, Pick
<1>2. ASSUME NEW f PROVE Adds(f, Gains(checks), SUBSET S) <=> f = Once(f)
    <2> DEFINE k == [s \in SUBSET S |-> IF s = {} THEN 0
                                        ELSE Gains(checks)[Pick(s)] + f[s \ {Pick(s)}]]
    <2>1. \A s \in SUBSET S : k[s] = Once(f)[s]
        BY PickIs DEF Gains
    <2>2. k = Once(f)
        BY <2>1
    <2> QED
        BY <2>2 DEF Adds
<1>3. PICK g : Adds(g, Gains(checks), SUBSET S)
             /\ \A T \in SUBSET S : Points(Gains(checks), T) = g[T]
    BY PointsAre
<1>4. h = Once(h)
    <2>1. g = Once(g)
        BY <1>2, <1>3
    <2> QED
        BY <2>1
<1> HIDE DEF h
<1>5. Adds(h, Gains(checks), SUBSET S)
    BY <1>2, <1>4
<1>6. h[S] = g[S]
    <2>1. S \subseteq S
        OBVIOUS
    <2> QED
        BY <1>3, <1>5, <2>1, AddsAgree
<1> QED
    BY <1>1, <1>3, <1>6

LEMMA AndroidTable ==
    LET c == ChecksOf["android"]
    IN  /\ DOMAIN c = 1..10
        /\ c[1] = Always("filled", 0) /\ c[2] = Always("header", 20)
        /\ c[3] = Always("signature", 20) /\ c[4] = Always("fresh", 15)
        /\ c[5] = Soft(If("packages", "package", 15))
        /\ c[6] = Soft(If("certificates", "certificate", 15))
        /\ c[7] = Soft(Always("recognized", 10)) /\ c[8] = Soft(Always("device", 15))
        /\ c[9] = Soft(If("reject_unlicensed", "licensed", 10))
        /\ c[10] = Soft(Unless("reject_unlicensed", "claims", 10))
BY DEF ChecksOf, AndroidHeader, AndroidClaims

LEMMA IotTable ==
    LET c == ChecksOf["iot"]
    IN  /\ DOMAIN c = 1..17
        /\ c[1] = Always("base64", 5) /\ c[2] = Always("x509", 5)
        /\ c[3] = If("authorities", "issuer", 10) /\ c[4] = Unless("no_expiry", "valid_now", 10)
        /\ c[5] = Unless("no_not_future", "begun", 5) /\ c[6] = If("san", "san", 10)
        /\ c[7] = Always("subject", 5)
        /\ c[8] = Always("active", 10) /\ c[9] = Always("unrevoked", 10)
        /\ c[10] = Unless("no_cn", "cn", 5) /\ c[11] = If("elements", "element", 10)
        /\ c[12] = If("manufacturers", "manufacturer", 5) /\ c[13] = If("models", "model", 5)
        /\ c[14] = If("revisions", "revision", 5) /\ c[15] = If("firmware", "firmware", 10)
        /\ c[16] = If("idle", "seen", 5) /\ c[17] = Unless("no_challenge", "challenge", 20)
BY DEF ChecksOf, IotCertificate, IotRecord, IotRevocation, IotDevice

LEMMA IosTable ==
    LET c == ChecksOf["ios"]
    IN  /\ DOMAIN c = 1..8
        /\ c[1] = If("min_version", "recent", 20) /\ c[2] = Unless("min_version", "version", 10)
        /\ c[3] = Always("base64", 10) /\ c[4] = Always("leaf", 20) /\ c[5] = Always("chain", 20)
        /\ c[6] = If("certificates", "certificate", 10) /\ c[7] = Always("bundle", 10)
        /\ c[8] = If("team", "team", 10)
BY DEF ChecksOf, IosChecks

\* What the kinds of checks are.
LEMMA KindsOfChecks ==
    ASSUME NEW setting, NEW name, NEW gain, NEW cfg
    PROVE  /\ Made(Always(name, gain), cfg)
           /\ Made(If(setting, name, gain), cfg) <=> setting \in cfg
           /\ Made(Unless(setting, name, gain), cfg) <=> setting \notin cfg
           /\ \A k \in {Always(name, gain), If(setting, name, gain), Unless(setting, name, gain)} :
                 /\ k.name = name /\ k.gain = gain
                 /\ Soft(k).name = name /\ Soft(k).gain = gain
                 /\ Made(Soft(k), cfg) <=> Made(k, cfg)
<1>1. /\ Made(Always(name, gain), cfg)
      /\ Made(If(setting, name, gain), cfg) <=> setting \in cfg
      /\ Made(Unless(setting, name, gain), cfg) <=> setting \notin cfg
    BY DEF Always, If, Unless, Check, Made
<1>2. ASSUME NEW k \in {Always(name, gain), If(setting, name, gain), Unless(setting, name, gain)}
      PROVE  /\ k.name = name /\ k.gain = gain
             /\ Soft(k).name = name /\ Soft(k).gain = gain
             /\ Made(Soft(k), cfg) <=> Made(k, cfg)
    BY DEF Always, If, Unless, Check, Made, Soft
<1> QED
    BY <1>1, <1>2

LEMMA VersionOrders ==
    ASSUME NEW v \in Nat \X Nat \X Nat, NotOlder(v, MinVersion),
           MinVersion[2] < 100, MinVersion[3] < 100
    PROVE  MeetsMinimum(v)
<1>1. /\ v[1] \in Nat /\ v[2] \in Nat /\ v[3] \in Nat
      /\ MinVersion[1] \in Nat /\ MinVersion[2] \in Nat /\ MinVersion[3] \in Nat
    BY MinVersionAssumption
<1>2. \A a, b, c, x, y, z \in Nat :
        /\ y < 100 /\ z < 100
        /\ a > x \/ (a = x /\ b > y) \/ (a = x /\ b = y /\ c >= z)
        => a * 10000 + b * 100 + c >= x * 10000 + y * 100 + z
    OBVIOUS
<1> QED
    BY <1>1, <1>2 DEF NotOlder, MeetsMinimum, VersionCode

\* A genuine device whose bundle a configuration can know.
Listed(a) == Genuine(a) /\ (a.p = "ios" => "bundles" \in a.cfg)

LEMMA GenuinePasses ==
    ASSUME NEW a \in AllAttempts, Listed(a), NEW i \in DOMAIN ChecksOf[a.p]
    PROVE  Passes(a, ChecksOf[a.p][i].name)
<1> DEFINE name == ChecksOf[a.p][i].name
<1>1. name \in CheckNames(a.p) /\ a.shows[name] = "good"
    BY AttemptsAssumption DEF CheckNames, Genuine, Listed
<1>2. a.p \in {"android", "ios", "iot"}
    BY AttemptsAssumption DEF Platforms, Weights
<1>3. a.p = "android" => name \notin {"recent", "bundle"}
    <2> SUFFICES ASSUME a.p = "android" PROVE name \notin {"recent", "bundle"}
        OBVIOUS
    <2>1. i \in 1..10
        BY AndroidTable
    <2> QED
        BY <2>1, AndroidTable DEF Always, If, Unless, Soft, Check
<1>4. a.p = "iot" => name \notin {"recent", "bundle"}
    <2> SUFFICES ASSUME a.p = "iot" PROVE name \notin {"recent", "bundle"}
        OBVIOUS
    <2>1. i \in 1..17
        BY IotTable
    <2> QED
        BY <2>1, IotTable DEF Always, If, Unless, Check
<1>5. a.p = "ios" => MeetsMinimum(a.version) /\ "bundles" \in a.cfg
    BY VersionOrders DEF Genuine, Listed
<1> HIDE DEF name
<1> QED
    BY <1>1, <1>2, <1>3, <1>4, <1>5 DEF Passes, name

LEMMA UpToIsFinite == \A n \in Nat : IsFiniteSet(1..n)
<1> SUFFICES ASSUME NEW n \in Nat PROVE IsFiniteSet(1..n)
    OBVIOUS
<1>1. 1 \in Int /\ n \in Int
    OBVIOUS
<1> QED
    BY ONLY <1>1, FS_Interval

\* The checks whose points count.
PassedBy(a, unseen) ==
    {i \in DOMAIN ChecksOf[a.p] : /\ Made(ChecksOf[a.p][i], a.cfg) /\ Passes(a, ChecksOf[a.p][i].name)
                                  /\ ChecksOf[a.p][i].name \notin unseen}

LEMMA ScoreIs ==
    ASSUME NEW a, NEW unseen, IsFiniteSet(DOMAIN ChecksOf[a.p])
    PROVE  Score(a, unseen) = Capped(Points(Gains(ChecksOf[a.p]), PassedBy(a, unseen)))
<1> DEFINE checks == ChecksOf[a.p]
           P == PassedBy(a, unseen)
<1>1. P \in SUBSET DOMAIN checks /\ IsFiniteSet(P)
    BY FS_Subset DEF PassedBy
<1>2. Score(a, unseen) = Capped(MapThenSumSet(LAMBDA i : checks[i].gain, P))
    BY DEF Score, PassedBy
<1> HIDE DEF checks, P
<1>3. MapThenSumSet(LAMBDA i : checks[i].gain, P) = Points(Gains(checks), P)
    BY <1>1, GainsAre
<1> QED
    BY <1>2, <1>3 DEF checks, P

\* What a genuine device scores: every check that is made counts.
LEMMA GenuineCounts ==
    ASSUME NEW a \in AllAttempts, Listed(a), NEW unseen, NEW i \in DOMAIN ChecksOf[a.p]
    PROVE  i \in PassedBy(a, unseen)
             <=> Made(ChecksOf[a.p][i], a.cfg) /\ ChecksOf[a.p][i].name \notin unseen
BY GenuinePasses DEF PassedBy

LEMMA AndroidScores ==
    ASSUME NEW a \in AllAttempts, Listed(a), a.p = "android"
    PROVE  LET points == Points(Gains(ChecksOf["android"]), PassedBy(a, {}))
           IN  points = 90 + In(AndroidWeights, a.cfg, "packages")
                           + In(AndroidWeights, a.cfg, "certificates")
<1> DEFINE c == ChecksOf["android"]
           w == Gains(c)
           P == PassedBy(a, {})
           D == 1..10
<1>1. \A i \in D : i \in P <=> Made(c[i], a.cfg)
    BY GenuineCounts, AndroidTable
<1>2. /\ {1, 2, 3, 4, 7, 8} \subseteq P
      /\ 5 \in P <=> "packages" \in a.cfg
      /\ 6 \in P <=> "certificates" \in a.cfg
      /\ 9 \in P <=> 10 \notin P
    BY <1>1, AndroidTable DEF Made, Always, If, Unless, Soft, Check
<1>3. /\ w[1] = 0 /\ w[2] = 20 /\ w[3] = 20 /\ w[4] = 15 /\ w[5] = 15
      /\ w[6] = 15 /\ w[7] = 10 /\ w[8] = 15 /\ w[9] = 10 /\ w[10] = 10
    BY AndroidTable DEF Gains, Always, If, Unless, Soft, Check
<1>4. HavePoints(D, w) /\ P \in SUBSET D
    <2>1. IsFiniteSet(D)
        BY UpToIsFinite
    <2>2. \A i \in D : w[i] \in Int
        BY <1>3
    <2>3. P \in SUBSET D
        BY AndroidTable DEF PassedBy
    <2> QED
        BY <2>1, <2>2, <2>3 DEF HavePoints
<1> DEFINE T == P \ {1, 2, 3, 4}
           U == T \ {5, 6, 7, 8}
           V == U \ {9, 10, 1, 2}
<1> HIDE DEF c, w, P, D
<1>5. /\ T \in SUBSET D
      /\ Points(w, P) = Points(w, T) + (In(w, P, 1) + In(w, P, 2) + In(w, P, 3) + In(w, P, 4))
    BY <1>4, PointsWithoutFour
<1> HIDE DEF T
<1>6. /\ U \in SUBSET D
      /\ Points(w, T) = Points(w, U) + (In(w, T, 5) + In(w, T, 6) + In(w, T, 7) + In(w, T, 8))
    BY <1>4, <1>5, PointsWithoutFour
<1> HIDE DEF U
<1>7. Points(w, U) = Points(w, V) + (In(w, U, 9) + In(w, U, 10) + In(w, U, 1) + In(w, U, 2))
    BY <1>4, <1>6, PointsWithoutFour
<1>8. Points(w, V) = 0
    <2>1. V = {}
        BY <1>4 DEF T, U, D
    <2> QED
        BY <2>1, NoPoints
<1> DEFINE p == IF "packages" \in a.cfg THEN 15 ELSE 0
           q == IF "certificates" \in a.cfg THEN 15 ELSE 0
<1>9. /\ In(w, P, 1) = 0 /\ In(w, P, 2) = 20 /\ In(w, P, 3) = 20 /\ In(w, P, 4) = 15
      /\ In(w, T, 5) = p /\ In(w, T, 6) = q /\ In(w, T, 7) = 10 /\ In(w, T, 8) = 15
      /\ In(w, U, 9) + In(w, U, 10) = 10 /\ In(w, U, 1) = 0 /\ In(w, U, 2) = 0
      /\ In(w, U, 9) \in Int /\ In(w, U, 10) \in Int
    BY <1>2, <1>3 DEF In, T, U
<1>10. p = In(AndroidWeights, a.cfg, "packages") /\ q = In(AndroidWeights, a.cfg, "certificates")
    BY DEF In, AndroidWeights
<1>11. p \in Int /\ q \in Int
    OBVIOUS
<1> HIDE DEF p, q
<1>12. Points(w, P) = 90 + p + q
    BY <1>5, <1>6, <1>7, <1>8, <1>9, <1>11
<1> QED
    BY <1>10, <1>12 DEF w, c, P

LEMMA AndroidReaches ==
    ASSUME NEW a \in AllAttempts, Listed(a), a.p = "android"
    PROVE  Reaches(Score(a, {}), Required(a.p, a.cfg))
<1> DEFINE score == Points(Gains(ChecksOf["android"]), PassedBy(a, {}))
           needed == Points(AndroidWeights, a.cfg \ General)
           n == In(AndroidWeights, a.cfg, "packages") + In(AndroidWeights, a.cfg, "certificates")
<1>1. score = 90 + n /\ needed \in Int /\ needed <= 70 + n /\ n \in Int
    <2>1. a.cfg \in Configurations("android")
        BY AttemptsAssumption
    <2>2. In(AndroidWeights, a.cfg, "packages") \in Int /\ In(AndroidWeights, a.cfg, "certificates") \in Int
        BY DEF In, AndroidWeights
    <2> QED
        BY <2>1, <2>2, AndroidScores, AndroidNeeds
<1>2. Score(a, {}) = Capped(score)
    <2>1. DOMAIN ChecksOf["android"] = 1..10 /\ IsFiniteSet(1..10)
        BY AndroidTable, UpToIsFinite
    <2> QED
        BY <2>1, ScoreIs
<1>3. Required(a.p, a.cfg) = Capped(needed)
    <2>1. Weights["android"] = AndroidWeights
        BY DEF Weights
    <2> QED
        BY <2>1, RequiredIs
<1> HIDE DEF score, needed, n
<1> QED
    BY <1>1, <1>2, <1>3 DEF Reaches, Capped

\* What the settings of iOS ask for, and what a genuine device scores.
LEMMA IosNeeds ==
    ASSUME NEW cfg \in Configurations("ios")
    PROVE  /\ Points(IosWeights, cfg \ General) \in Int
           /\ Points(IosWeights, cfg \ General)
              <= 40 + (In(IosWeights, cfg, "team") + In(IosWeights, cfg, "certificates")
                         + In(IosWeights, cfg, "min_version"))
<1> DEFINE w == IosWeights
           D == DOMAIN w
           S == cfg \ General
           A == {"bundles", "team", "certificates", "min_version"}
           B == {"reject_untrusted", "accept_untrusted", "days_7", "days_30"}
           T == S \ A
           U == T \ B
<1>1. D = A \cup B
    BY DEF IosWeights
<1>2. HavePoints(D, w)
    <2>1. IsFiniteSet(A) /\ IsFiniteSet(B)
        BY FourAreFinite
    <2>2. IsFiniteSet(A \cup B)
        BY <2>1, FS_Union
    <2>3. \A x \in D : w[x] \in Int
        BY <1>1 DEF IosWeights
    <2> QED
        BY <1>1, <2>2, <2>3 DEF HavePoints
<1>3. S \in SUBSET D
    BY DEF Configurations, Settings, Weights
<1>4. ~("days_7" \in cfg /\ "days_30" \in cfg)
    <2>1. {"days_7", "days_30"} \in Exclusive
        BY DEF Exclusive
    <2> QED
        BY <2>1, NotBoth
<1> HIDE DEF D, S
<1>5. /\ T \in SUBSET D
      /\ Points(w, S) = Points(w, T) + (In(w, S, "bundles") + In(w, S, "team")
                                          + In(w, S, "certificates") + In(w, S, "min_version"))
    BY <1>2, <1>3, PointsWithoutFour
<1> HIDE DEF T
<1>6. Points(w, T) = Points(w, U) + (In(w, T, "reject_untrusted") + In(w, T, "accept_untrusted")
                                       + In(w, T, "days_7") + In(w, T, "days_30"))
    BY <1>2, <1>5, PointsWithoutFour
<1>7. Points(w, U) = 0
    <2>1. U = {}
        BY <1>1, <1>3 DEF T
    <2> QED
        BY <2>1, NoPoints
<1> DEFINE n(x) == In(w, cfg, x)
<1>8. (\A x \in A : In(w, S, x) = n(x)) /\ (\A x \in B : In(w, T, x) = n(x))
    BY DEF S, T, In, General
<1>9. /\ n("bundles") \in 0..20 /\ n("team") \in 0..20
      /\ n("certificates") \in 0..25 /\ n("min_version") \in 0..15
      /\ n("reject_untrusted") \in 0..10 /\ n("accept_untrusted") = 0
      /\ n("days_7") + n("days_30") <= 10 /\ n("days_7") \in 0..10 /\ n("days_30") \in 0..5
    BY <1>4 DEF In, IosWeights
<1>10. Points(w, S) = (0 + (n("reject_untrusted") + n("accept_untrusted") + n("days_7") + n("days_30")))
                        + (n("bundles") + n("team") + n("certificates") + n("min_version"))
    BY <1>5, <1>6, <1>7, <1>8
<1> HIDE DEF n
<1> DEFINE x == n("reject_untrusted") + n("accept_untrusted") + n("days_7") + n("days_30")
           y == n("team") + n("certificates") + n("min_version")
<1>11. x \in Int /\ x <= 20
    BY <1>9
<1>12. y \in Int /\ n("bundles") + n("team") + n("certificates") + n("min_version") = n("bundles") + y
    <2>1. n("bundles") \in Int /\ n("team") \in Int /\ n("certificates") \in Int /\ n("min_version") \in Int
        BY <1>9
    <2> QED
        BY <2>1
<1>13. Points(w, S) = (0 + x) + (n("bundles") + y)
    BY <1>10, <1>12
<1> HIDE DEF x, y
<1>14. Points(w, S) \in Int /\ Points(w, S) <= 40 + y
    BY <1>9, <1>11, <1>12, <1>13
<1> QED
    BY <1>14 DEF S, n, y

LEMMA IosScores ==
    ASSUME NEW a \in AllAttempts, Listed(a), a.p = "ios"
    PROVE  Points(Gains(ChecksOf["ios"]), PassedBy(a, {}))
             = 70 + (IF "min_version" \in a.cfg THEN 10 ELSE 0)
                  + (IF "certificates" \in a.cfg THEN 10 ELSE 0)
                  + (IF "team" \in a.cfg THEN 10 ELSE 0)
<1> DEFINE c == ChecksOf["ios"]
           w == Gains(c)
           P == PassedBy(a, {})
           D == 1..8
<1>1. \A i \in D : i \in P <=> Made(c[i], a.cfg)
    BY GenuineCounts, IosTable
<1>2. /\ {3, 4, 5, 7} \subseteq P
      /\ 1 \in P <=> "min_version" \in a.cfg
      /\ 2 \in P <=> "min_version" \notin a.cfg
      /\ 6 \in P <=> "certificates" \in a.cfg
      /\ 8 \in P <=> "team" \in a.cfg
    BY <1>1, IosTable DEF Made, Always, If, Unless, Check
<1>3. /\ w[1] = 20 /\ w[2] = 10 /\ w[3] = 10 /\ w[4] = 20 /\ w[5] = 20
      /\ w[6] = 10 /\ w[7] = 10 /\ w[8] = 10
    BY IosTable DEF Gains, Always, If, Unless, Check
<1>4. HavePoints(D, w) /\ P \in SUBSET D
    <2>1. IsFiniteSet(D)
        BY UpToIsFinite
    <2>2. \A i \in D : w[i] \in Int
        BY <1>3
    <2>3. P \in SUBSET D
        BY IosTable DEF PassedBy
    <2> QED
        BY <2>1, <2>2, <2>3 DEF HavePoints
<1> DEFINE T == P \ {1, 2, 3, 4}
           U == T \ {5, 6, 7, 8}
<1> HIDE DEF c, w, P, D
<1>5. /\ T \in SUBSET D
      /\ Points(w, P) = Points(w, T) + (In(w, P, 1) + In(w, P, 2) + In(w, P, 3) + In(w, P, 4))
    BY <1>4, PointsWithoutFour
<1> HIDE DEF T
<1>6. Points(w, T) = Points(w, U) + (In(w, T, 5) + In(w, T, 6) + In(w, T, 7) + In(w, T, 8))
    BY <1>4, <1>5, PointsWithoutFour
<1>7. Points(w, U) = 0
    <2>1. U = {}
        BY <1>4 DEF T, D
    <2> QED
        BY <2>1, NoPoints
<1> DEFINE m == IF "min_version" \in a.cfg THEN 10 ELSE 0
           q == IF "certificates" \in a.cfg THEN 10 ELSE 0
           t == IF "team" \in a.cfg THEN 10 ELSE 0
<1>8. /\ In(w, P, 1) + In(w, P, 2) = 10 + m /\ In(w, P, 1) \in Int /\ In(w, P, 2) \in Int
      /\ In(w, P, 3) = 10 /\ In(w, P, 4) = 20
      /\ In(w, T, 5) = 20 /\ In(w, T, 6) = q /\ In(w, T, 7) = 10 /\ In(w, T, 8) = t
    BY <1>2, <1>3 DEF In, T
<1>9. m \in Int /\ q \in Int /\ t \in Int
    OBVIOUS
<1> HIDE DEF m, q, t
<1>10. Points(w, P) = 70 + m + q + t
    BY <1>5, <1>6, <1>7, <1>8, <1>9
<1> QED
    BY <1>10 DEF w, c, P, m, q, t

LEMMA IosReaches ==
    ASSUME NEW a \in AllAttempts, Listed(a), a.p = "ios"
    PROVE  Reaches(Score(a, {}), Required(a.p, a.cfg))
<1> DEFINE score == Points(Gains(ChecksOf["ios"]), PassedBy(a, {}))
           needed == Points(IosWeights, a.cfg \ General)
           one(s) == IF s \in a.cfg THEN 1 ELSE 0
<1>1. needed \in Int /\ needed <= 40 + (20 * one("team") + 25 * one("certificates") + 15 * one("min_version"))
    <2>1. a.cfg \in Configurations("ios")
        BY AttemptsAssumption
    <2>2. /\ In(IosWeights, a.cfg, "team") = 20 * one("team")
          /\ In(IosWeights, a.cfg, "certificates") = 25 * one("certificates")
          /\ In(IosWeights, a.cfg, "min_version") = 15 * one("min_version")
        BY DEF In, IosWeights
    <2> HIDE DEF one
    <2> QED
        BY <2>1, <2>2, IosNeeds
<1>2. score = 70 + 10 * one("min_version") + 10 * one("certificates") + 10 * one("team")
    BY IosScores
<1>3. \A s : one(s) \in {0, 1}
    OBVIOUS
<1>4. Score(a, {}) = Capped(score)
    <2>1. DOMAIN ChecksOf["ios"] = 1..8 /\ IsFiniteSet(1..8)
        BY IosTable, UpToIsFinite
    <2> QED
        BY <2>1, ScoreIs
<1>5. Required(a.p, a.cfg) = Capped(needed)
    <2>1. Weights["ios"] = IosWeights
        BY DEF Weights
    <2> QED
        BY <2>1, RequiredIs
<1> HIDE DEF score, needed, one
<1>6. Capped(score) >= Capped(needed)
    <2>1. one("team") \in {0, 1} /\ one("certificates") \in {0, 1} /\ one("min_version") \in {0, 1}
        BY <1>3
    <2> QED
        BY <1>1, <1>2, <2>1 DEF Capped
<1> QED
    BY <1>4, <1>5, <1>6 DEF Reaches

\* What the settings of IoT ask for, and what a genuine device scores at least. The points
\* of four of the checks made before the row is read, and of six of those made after.
Before(cfg) ==
    In(IotWeights, cfg, "authorities") + In(IotWeights, cfg, "expiry")
      + In(IotWeights, cfg, "not_future") + In(IotWeights, cfg, "san")
After(cfg) ==
    In(IotWeights, cfg, "cn") + In(IotWeights, cfg, "elements") + In(IotWeights, cfg, "manufacturers")
      + In(IotWeights, cfg, "models") + In(IotWeights, cfg, "revisions") + In(IotWeights, cfg, "firmware")

LEMMA BeforeAfterInt == \A cfg : Before(cfg) \in Int /\ After(cfg) \in Int
<1> SUFFICES ASSUME NEW cfg PROVE Before(cfg) \in Int /\ After(cfg) \in Int
    OBVIOUS
<1>1. \A s \in {"authorities", "expiry", "not_future", "san", "cn", "elements", "manufacturers",
                "models", "revisions", "firmware"} : In(IotWeights, cfg, s) \in Int
    BY DEF In, IotWeights
<1> QED
    BY <1>1 DEF Before, After

LEMMA IotNeeds ==
    ASSUME NEW cfg \in Configurations("iot")
    PROVE  /\ Points(IotWeights, cfg \ General) \in Int
           /\ Points(IotWeights, cfg \ General)
              <= 15 + (Before(cfg) + After(cfg) + In(IotWeights, cfg, "challenge"))
<1> DEFINE w == IotWeights
           D == DOMAIN w
           S == cfg \ General
           A == {"authorities", "expiry", "not_future", "san"}
           B == {"cn", "elements", "manufacturers", "models"}
           C == {"revisions", "firmware", "idle", "challenge"}
           E == {"no_challenge", "no_expiry", "no_not_future", "no_cn"}
           T == S \ A
           U == T \ B
           V == U \ C
           W == V \ E
           X == W \ {"strict"}
<1>1. D = ((A \cup B) \cup (C \cup E)) \cup {"strict"}
    BY DEF IotWeights
<1>2. HavePoints(D, w)
    <2>1. IsFiniteSet(A) /\ IsFiniteSet(B) /\ IsFiniteSet(C) /\ IsFiniteSet(E)
        BY FourAreFinite
    <2>2. IsFiniteSet(A \cup B) /\ IsFiniteSet(C \cup E)
        BY <2>1, FS_Union
    <2>3. IsFiniteSet(D)
        <3>1. IsFiniteSet((A \cup B) \cup (C \cup E)) /\ IsFiniteSet({"strict"})
            BY <2>2, FS_Union, FS_Singleton
        <3>2. IsFiniteSet(((A \cup B) \cup (C \cup E)) \cup {"strict"})
            BY <3>1, FS_Union
        <3> QED
            BY <1>1, <3>2
    <2>4. \A x \in D : w[x] \in Int
        BY <1>1 DEF IotWeights
    <2> QED
        BY <2>3, <2>4 DEF HavePoints
<1>3. S \in SUBSET D
    BY DEF Configurations, Settings, Weights
<1> HIDE DEF D, S
<1>4. /\ T \in SUBSET D
      /\ Points(w, S) = Points(w, T) + (In(w, S, "authorities") + In(w, S, "expiry")
                                          + In(w, S, "not_future") + In(w, S, "san"))
    BY <1>2, <1>3, PointsWithoutFour
<1> HIDE DEF T
<1>5. /\ U \in SUBSET D
      /\ Points(w, T) = Points(w, U) + (In(w, T, "cn") + In(w, T, "elements")
                                          + In(w, T, "manufacturers") + In(w, T, "models"))
    BY <1>2, <1>4, PointsWithoutFour
<1> HIDE DEF U
<1>6. /\ V \in SUBSET D
      /\ Points(w, U) = Points(w, V) + (In(w, U, "revisions") + In(w, U, "firmware")
                                          + In(w, U, "idle") + In(w, U, "challenge"))
    BY <1>2, <1>5, PointsWithoutFour
<1> HIDE DEF V
<1>7. /\ W \in SUBSET D
      /\ Points(w, V) = Points(w, W) + (In(w, V, "no_challenge") + In(w, V, "no_expiry")
                                          + In(w, V, "no_not_future") + In(w, V, "no_cn"))
    BY <1>2, <1>6, PointsWithoutFour
<1> HIDE DEF W
<1>8. Points(w, W) = In(w, W, "strict")
    <2>1. HavePoints(D, w) /\ W \in SUBSET D
        BY <1>2, <1>7
    <2>2. /\ Points(w, W) = Points(w, X) + In(w, W, "strict")
          /\ In(w, W, "strict") \in Int
        BY ONLY <2>1, PointsWithout
    <2>3. X = {}
        BY <1>1, <1>3 DEF T, U, V, W
    <2>4. Points(w, X) = 0
        BY <2>3, NoPoints
    <2> QED
        BY <2>2, <2>4
<1> DEFINE n(x) == In(w, cfg, x)
<1>9. /\ \A x \in A : In(w, S, x) = n(x)
      /\ \A x \in B : In(w, T, x) = n(x)
      /\ \A x \in C : In(w, U, x) = n(x)
      /\ \A x \in E : In(w, V, x) = 0
      /\ In(w, W, "strict") = n("strict")
    <2>1. \A x \in A : In(w, S, x) = n(x)
        BY DEF S, In, General
    <2>2. \A x \in B : In(w, T, x) = n(x)
        BY DEF S, T, In, General
    <2>3. \A x \in C : In(w, U, x) = n(x)
        BY DEF S, T, U, In, General
    <2>4. In(w, W, "strict") = n("strict")
        BY DEF S, T, U, V, W, In, General
    <2>5. \A x \in E : In(w, V, x) = 0
        BY DEF In, IotWeights
    <2> QED
        BY <2>1, <2>2, <2>3, <2>4, <2>5
<1>10. /\ \A x \in A : n(x) \in Int
       /\ \A x \in B : n(x) \in Int
       /\ n("revisions") \in Int /\ n("firmware") \in Int /\ n("challenge") \in Int
       /\ n("idle") \in 0..10 /\ n("strict") \in 0..5
    BY DEF In, IotWeights
<1> DEFINE x == n("authorities") + n("expiry") + n("not_future") + n("san")
           y == n("cn") + n("elements") + n("manufacturers") + n("models")
           z == n("revisions") + n("firmware")
<1>11. Before(cfg) = x /\ After(cfg) = y + z /\ x \in Int /\ y \in Int /\ z \in Int
    <2>1. After(cfg) = n("cn") + n("elements") + n("manufacturers") + n("models")
                          + n("revisions") + n("firmware")
        BY DEF After
    <2> HIDE DEF n
    <2> QED
        BY <1>10, <2>1 DEF Before, n
<1>12. /\ Points(w, S) = Points(w, T) + x /\ Points(w, T) = Points(w, U) + y
       /\ Points(w, U) = Points(w, V) + (n("revisions") + n("firmware") + n("idle") + n("challenge"))
       /\ Points(w, V) = n("strict") + (0 + 0 + 0 + 0)
    BY <1>4, <1>5, <1>6, <1>7, <1>8, <1>9
<1> HIDE DEF n
<1>13. Points(w, V) = n("strict") /\ Points(w, U) = n("strict") + z + n("idle") + n("challenge")
    BY <1>10, <1>12
<1> HIDE DEF x, y, z
<1>14. Points(w, S) = n("strict") + n("idle") + (x + (y + z) + n("challenge"))
    BY <1>10, <1>11, <1>12, <1>13
<1>15. Points(w, S) \in Int /\ Points(w, S) <= 15 + (x + (y + z) + n("challenge"))
    BY <1>10, <1>11, <1>14
<1> QED
    BY <1>11, <1>15 DEF S, n

LEMMA IotScores ==
    ASSUME NEW a \in AllAttempts, Listed(a), a.p = "iot", NEW unseen \in {{}, {"seen"}}
    PROVE  /\ Points(Gains(ChecksOf["iot"]), PassedBy(a, unseen)) \in Int
           /\ Points(Gains(ChecksOf["iot"]), PassedBy(a, unseen))
                >= 29 + (Before(a.cfg) + After(a.cfg) + (IF "no_challenge" \in a.cfg THEN 0 ELSE 20))
<1> DEFINE c == ChecksOf["iot"]
           w == Gains(c)
           P == PassedBy(a, unseen)
           D == 1..17
<1>1. \A i \in D \ {16} : i \in P <=> Made(c[i], a.cfg)
    <2>1. \A i \in D \ {16} : c[i].name # "seen"
        BY IotTable DEF Always, If, Unless, Check
    <2>2. \A i \in D : i \in P <=> Made(c[i], a.cfg) /\ c[i].name \notin unseen
        BY GenuineCounts, IotTable
    <2> QED
        BY <2>1, <2>2
<1>2. /\ {1, 2, 7, 8, 9} \subseteq P
      /\ 3 \in P <=> "authorities" \in a.cfg
      /\ 4 \in P <=> "no_expiry" \notin a.cfg
      /\ 5 \in P <=> "no_not_future" \notin a.cfg
      /\ 6 \in P <=> "san" \in a.cfg
      /\ 10 \in P <=> "no_cn" \notin a.cfg
      /\ 11 \in P <=> "elements" \in a.cfg
      /\ 12 \in P <=> "manufacturers" \in a.cfg
      /\ 13 \in P <=> "models" \in a.cfg
      /\ 14 \in P <=> "revisions" \in a.cfg
      /\ 15 \in P <=> "firmware" \in a.cfg
      /\ 17 \in P <=> "no_challenge" \notin a.cfg
    BY <1>1, IotTable DEF Made, Always, If, Unless, Check
<1>0. /\ ~("expiry" \in a.cfg /\ "no_expiry" \in a.cfg)
      /\ ~("not_future" \in a.cfg /\ "no_not_future" \in a.cfg)
      /\ ~("cn" \in a.cfg /\ "no_cn" \in a.cfg)
    <2>1. a.cfg \in Configurations("iot")
        BY AttemptsAssumption
    <2>2. /\ {"expiry", "no_expiry"} \in Exclusive /\ {"not_future", "no_not_future"} \in Exclusive
          /\ {"cn", "no_cn"} \in Exclusive
        BY DEF Exclusive
    <2> QED
        BY <2>1, <2>2, NotBoth
<1>3. /\ w[1] = 5 /\ w[2] = 5 /\ w[3] = 10 /\ w[4] = 10 /\ w[5] = 5 /\ w[6] = 10 /\ w[7] = 5
      /\ w[8] = 10 /\ w[9] = 10 /\ w[10] = 5 /\ w[11] = 10 /\ w[12] = 5 /\ w[13] = 5
      /\ w[14] = 5 /\ w[15] = 10 /\ w[16] = 5 /\ w[17] = 20
    BY IotTable DEF Gains, Always, If, Unless, Check
<1>4. HavePoints(D, w) /\ P \in SUBSET D
    <2>1. IsFiniteSet(D)
        BY UpToIsFinite
    <2>2. \A i \in D : w[i] \in Int
        BY <1>3
    <2>3. P \in SUBSET D
        BY IotTable DEF PassedBy
    <2> QED
        BY <2>1, <2>2, <2>3 DEF HavePoints
<1> DEFINE T == P \ {3, 4, 5, 6}
           U == T \ {10, 11, 12, 13}
           V == U \ {1, 2, 7, 8}
           W == V \ {9, 14, 15, 17}
           X == W \ {16}
<1> HIDE DEF c, w, P, D
<1>5. /\ T \in SUBSET D
      /\ Points(w, P) = Points(w, T) + (In(w, P, 3) + In(w, P, 4) + In(w, P, 5) + In(w, P, 6))
    BY <1>4, PointsWithoutFour
<1> HIDE DEF T
<1>6. /\ U \in SUBSET D
      /\ Points(w, T) = Points(w, U) + (In(w, T, 10) + In(w, T, 11) + In(w, T, 12) + In(w, T, 13))
    BY <1>4, <1>5, PointsWithoutFour
<1> HIDE DEF U
<1>7. /\ V \in SUBSET D
      /\ Points(w, U) = Points(w, V) + (In(w, U, 1) + In(w, U, 2) + In(w, U, 7) + In(w, U, 8))
    BY <1>4, <1>6, PointsWithoutFour
<1> HIDE DEF V
<1>8. /\ W \in SUBSET D
      /\ Points(w, V) = Points(w, W) + (In(w, V, 9) + In(w, V, 14) + In(w, V, 15) + In(w, V, 17))
    BY <1>4, <1>7, PointsWithoutFour
<1> HIDE DEF W
<1>9. /\ Points(w, W) = Points(w, X) + In(w, W, 16)
      /\ Points(w, W) \in Int /\ In(w, W, 16) \in Int
    <2>1. HavePoints(D, w) /\ W \in SUBSET D
        BY <1>4, <1>8
    <2> QED
        BY ONLY <2>1, PointsWithout
<1>10. Points(w, X) = 0
    <2>1. X = {}
        BY <1>4 DEF T, U, V, W, D
    <2> QED
        BY <2>1, NoPoints
<1>11. In(w, W, 16) \in {0, 5}
    BY <1>3 DEF In
<1>12. /\ \A i \in {3, 4, 5, 6} : In(w, P, i) = IF i \in P THEN w[i] ELSE 0
       /\ \A i \in {10, 11, 12, 13} : In(w, T, i) = IF i \in P THEN w[i] ELSE 0
       /\ \A i \in {1, 2, 7, 8} : In(w, U, i) = IF i \in P THEN w[i] ELSE 0
       /\ \A i \in {9, 14, 15, 17} : In(w, V, i) = IF i \in P THEN w[i] ELSE 0
    BY DEF In, T, U, V
<1> DEFINE n(s) == In(IotWeights, a.cfg, s)
           ch == IF "no_challenge" \in a.cfg THEN 0 ELSE 20
<1>13. /\ \A s \in {"authorities", "expiry", "not_future", "san", "cn", "elements", "manufacturers",
                    "models", "revisions", "firmware"} : n(s) \in Int
       /\ \A i \in {3, 4, 5, 6} : In(w, P, i) \in Int
       /\ \A i \in {10, 11, 12, 13} : In(w, T, i) \in Int
       /\ \A i \in {14, 15, 17} : In(w, V, i) \in Int
    <2>1. \A s \in {"authorities", "expiry", "not_future", "san", "cn", "elements", "manufacturers",
                    "models", "revisions", "firmware"} : n(s) \in Int
        BY DEF In, IotWeights
    <2> QED
        BY <1>3, <1>12, <2>1
<1>14. /\ In(w, P, 3) >= n("authorities") /\ In(w, P, 4) >= n("expiry")
       /\ In(w, P, 5) >= n("not_future") - 1 /\ In(w, P, 6) >= n("san")
    BY <1>0, <1>2, <1>3, <1>12 DEF In, IotWeights
<1>15. /\ In(w, T, 10) >= n("cn") /\ In(w, T, 11) >= n("elements") - 5
       /\ In(w, T, 12) >= n("manufacturers") /\ In(w, T, 13) >= n("models")
    BY <1>0, <1>2, <1>3, <1>12 DEF In, IotWeights
<1>16. /\ In(w, U, 1) = 5 /\ In(w, U, 2) = 5 /\ In(w, U, 7) = 5 /\ In(w, U, 8) = 10
       /\ In(w, V, 9) = 10
    BY <1>2, <1>3, <1>12
<1>17. /\ In(w, V, 14) >= n("revisions") /\ In(w, V, 15) >= n("firmware") /\ In(w, V, 17) = ch
    BY <1>2, <1>3, <1>12 DEF In, IotWeights
<1>18. ch \in Int /\ Before(a.cfg) = n("authorities") + n("expiry") + n("not_future") + n("san")
       /\ After(a.cfg) = n("cn") + n("elements") + n("manufacturers") + n("models")
                           + n("revisions") + n("firmware")
    BY DEF Before, After
<1> HIDE DEF n, ch
<1> DEFINE x == In(w, P, 3) + In(w, P, 4) + In(w, P, 5) + In(w, P, 6)
           y == In(w, T, 10) + In(w, T, 11) + In(w, T, 12) + In(w, T, 13)
           z == In(w, V, 9) + In(w, V, 14) + In(w, V, 15) + In(w, V, 17)
           m == n("cn") + n("elements") + n("manufacturers") + n("models")
<1>19. x \in Int /\ Before(a.cfg) \in Int /\ x >= Before(a.cfg) - 1
    BY <1>13, <1>14, <1>18
<1>20. y \in Int /\ m \in Int /\ y >= m - 5
    BY <1>13, <1>15
<1>21. z \in Int /\ z >= 10 + n("revisions") + n("firmware") + ch
    BY <1>13, <1>16, <1>17, <1>18
<1>22. After(a.cfg) = m + (n("revisions") + n("firmware")) /\ After(a.cfg) \in Int
    BY <1>13, <1>18
<1>23. Points(w, P) = (((0 + In(w, W, 16)) + z) + 25 + y) + x
    BY <1>5, <1>6, <1>7, <1>8, <1>9, <1>10, <1>11, <1>16
<1> HIDE DEF x, y, z, m
<1>24. /\ Points(w, P) \in Int
       /\ Points(w, P) >= 29 + (Before(a.cfg) + After(a.cfg) + ch)
    BY <1>11, <1>13, <1>18, <1>19, <1>20, <1>21, <1>22, <1>23
<1> QED
    BY <1>24 DEF w, c, P, ch

LEMMA IotReaches ==
    ASSUME NEW a \in AllAttempts, Listed(a), a.p = "iot", NEW unseen \in {{}, {"seen"}}
    PROVE  Reaches(Score(a, unseen), Required(a.p, a.cfg))
<1> DEFINE score == Points(Gains(ChecksOf["iot"]), PassedBy(a, unseen))
           needed == Points(IotWeights, a.cfg \ General)
           ch == IF "no_challenge" \in a.cfg THEN 0 ELSE 20
           n == In(IotWeights, a.cfg, "challenge")
           m == Before(a.cfg) + After(a.cfg)
<1>1. a.cfg \in Configurations("iot")
    BY AttemptsAssumption
<1>2. n \in Int /\ n <= ch /\ ch \in Int
    <2>1. ~("challenge" \in a.cfg /\ "no_challenge" \in a.cfg)
        <3>1. {"challenge", "no_challenge"} \in Exclusive
            BY DEF Exclusive
        <3> QED
            BY <1>1, <3>1, NotBoth
    <2> QED
        BY <2>1 DEF In, IotWeights
<1>3. needed \in Int /\ needed <= 15 + (m + n)
    BY <1>1, IotNeeds
<1>4. score \in Int /\ score >= 29 + (m + ch)
    BY IotScores
<1>5. m \in Int
    BY BeforeAfterInt
<1>6. Score(a, unseen) = Capped(score)
    <2>1. DOMAIN ChecksOf["iot"] = 1..17 /\ IsFiniteSet(1..17)
        BY IotTable, UpToIsFinite
    <2> QED
        BY <2>1, ScoreIs
<1>7. Required(a.p, a.cfg) = Capped(needed)
    <2>1. Weights["iot"] = IotWeights
        BY DEF Weights
    <2> QED
        BY <2>1, RequiredIs
<1> HIDE DEF score, needed, n, m, ch
<1>8. score >= needed
    BY <1>2, <1>3, <1>4, <1>5
<1> QED
    BY <1>3, <1>4, <1>6, <1>7, <1>8 DEF Reaches, Capped

\* A genuine device misses nothing that a list of its platform's checks looks at.
LEMMA GenuineIsValid ==
    ASSUME NEW a \in AllAttempts, Listed(a), NEW checks,
           \A i \in DOMAIN checks :
              \E j \in DOMAIN ChecksOf[a.p] : ChecksOf[a.p][j].name = checks[i].name
    PROVE  Outcome(a, checks) = "valid"
<1>1. \A i \in DOMAIN checks : Passes(a, checks[i].name)
    BY GenuinePasses
<1>2. Missed(a, checks) = {}
    BY <1>1 DEF Missed
<1> QED
    BY <1>2, OutcomeIs

LEMMA GenuineStages ==
    ASSUME NEW a \in AllAttempts, Listed(a)
    PROVE  /\ a.p = "android" => Outcome(a, AndroidHeader) = "valid" /\ Outcome(a, AndroidClaims) = "valid"
           /\ a.p = "ios" => Outcome(a, IosChecks) = "valid"
           /\ a.p = "iot" => Outcome(a, IotCertificate) = "valid" /\ Outcome(a, IotDevice) = "valid"
<1>1. CASE a.p = "android"
    <2>1. /\ \A i \in DOMAIN AndroidHeader : i \in 1..10 /\ AndroidHeader[i] = ChecksOf["android"][i]
          /\ \A i \in DOMAIN AndroidClaims : i + 2 \in 1..10 /\ AndroidClaims[i] = ChecksOf["android"][i + 2]
        BY DEF ChecksOf, AndroidHeader, AndroidClaims
    <2>2. \A i \in DOMAIN AndroidHeader : \E j \in DOMAIN ChecksOf[a.p] : ChecksOf[a.p][j].name = AndroidHeader[i].name
        BY <1>1, <2>1, AndroidTable
    <2>3. ASSUME NEW i \in DOMAIN AndroidClaims
          PROVE  \E j \in DOMAIN ChecksOf[a.p] : ChecksOf[a.p][j].name = AndroidClaims[i].name
        <3>1. i + 2 \in DOMAIN ChecksOf[a.p] /\ ChecksOf[a.p][i + 2] = AndroidClaims[i]
            BY <1>1, <2>1, AndroidTable
        <3> QED
            BY <3>1
    <2>4. Outcome(a, AndroidHeader) = "valid"
        BY <2>2, GenuineIsValid
    <2>5. Outcome(a, AndroidClaims) = "valid"
        BY <2>3, GenuineIsValid
    <2> QED
        BY <1>1, <2>4, <2>5
<1>2. CASE a.p = "ios"
    <2>1. \A i \in DOMAIN IosChecks : IosChecks[i] = ChecksOf["ios"][i] /\ i \in DOMAIN ChecksOf["ios"]
        BY DEF ChecksOf
    <2> QED
        BY <1>2, <2>1, GenuineIsValid
<1>3. CASE a.p = "iot"
    <2>1. /\ \A i \in DOMAIN IotCertificate : i \in 1..17 /\ IotCertificate[i] = ChecksOf["iot"][i]
          /\ \A i \in DOMAIN IotDevice : i + 9 \in 1..17 /\ IotDevice[i] = ChecksOf["iot"][i + 9]
        BY DEF ChecksOf, IotCertificate, IotRecord, IotRevocation, IotDevice
    <2>2. \A i \in DOMAIN IotCertificate : \E j \in DOMAIN ChecksOf[a.p] : ChecksOf[a.p][j].name = IotCertificate[i].name
        BY <1>3, <2>1, IotTable
    <2>3. ASSUME NEW i \in DOMAIN IotDevice
          PROVE  \E j \in DOMAIN ChecksOf[a.p] : ChecksOf[a.p][j].name = IotDevice[i].name
        <3>1. i + 9 \in DOMAIN ChecksOf[a.p] /\ ChecksOf[a.p][i + 9] = IotDevice[i]
            BY <1>3, <2>1, IotTable
        <3> QED
            BY <3>1
    <2>4. Outcome(a, IotCertificate) = "valid"
        BY <2>2, GenuineIsValid
    <2>5. Outcome(a, IotDevice) = "valid"
        BY <2>3, GenuineIsValid
    <2> QED
        BY <1>3, <2>4, <2>5
<1> QED
    BY <1>1, <1>2, <1>3

LEMMA GenuineVerdict ==
    ASSUME NEW a \in AllAttempts, Listed(a)
    PROVE  /\ a.p = "android" => Verdict(a, {}) = "accepted"
           /\ a.p = "ios" /\ "accept_untrusted" \in a.cfg => Verdict(a, {}) = "accepted"
           /\ a.p = "iot" => \A unseen \in {{}, {"seen"}} : Verdict(a, unseen) = "accepted"
<1>1. CASE a.p = "android"
    <2>1. Passes(a, "device")
        <3>1. 8 \in DOMAIN ChecksOf[a.p] /\ ChecksOf[a.p][8].name = "device"
            BY <1>1, AndroidTable DEF Always, Soft, Check
        <3> QED
            BY <3>1, GenuinePasses
    <2> QED
        BY <1>1, <2>1, AndroidReaches DEF Verdict, Trusted
<1>2. CASE a.p = "ios"
    BY <1>2, IosReaches DEF Verdict, Trusted
<1>3. CASE a.p = "iot"
    BY <1>3, IotReaches DEF Verdict, Trusted
<1> QED
    BY <1>1, <1>2, <1>3

-------------------------------------------------------------------------------
(***************************************************************************)
(* Theorems.                                                               *)
(***************************************************************************)

\* Every value stays in its type; a request keeps the attempt it was sent with.
THEOREM TypeCorrect == Spec => []TypeOK
<1>1. IInv => TypeOK
  BY DEF IInv, Types, TypeOK, Under, Steps, Ends3, Instants
<1>2. QED
  BY <1>1, Invariance, PTL

(***************************************************************************)
(* Keys used by verify_android_attestation_offline were Google's at most   *)
(* JWKS_CACHE_TTL_HOURS and an hour ago: KeysAge bounds it at the store    *)
(* and at the read, and Times bounds the rest of the request.              *)
(***************************************************************************)
THEOREM KeysAreRecent == Spec => []KeysWithinTtl
<1>1. IInv => KeysWithinTtl
  <2> SUFFICES ASSUME IInv, NEW r \in Requests, req[r].at = "claims", req[r].keys < google
               PROVE  now - rotated[req[r].keys + 1] <= KeysTtl + 1
    BY DEF KeysWithinTtl
  <2>1. req[r] \in Under
    BY UnderIsNotDone DEF IInv, Steps
  <2>2. /\ now \in Int /\ req[r].since \in Int /\ KeysTtl \in Int /\ now <= req[r].since + 1
        /\ req[r].since - KeysTtl <= rotated[req[r].keys + 1]
    BY <2>1, BoundsAssumption DEF IInv, Types, Times, KeysAge, Under, Hours
  <2>3. rotated[req[r].keys + 1] \in Int
    <3>1. req[r].keys + 1 \in Generations
      BY <2>1, BoundsAssumption DEF IInv, Types, KeysAge, Under, Generations, NoKeys
    <3>2. QED
      BY <3>1 DEF IInv, Types, Hours, Never
  <2>4. QED
    BY <2>2, <2>3
<1>2. QED
  BY <1>1, Invariance, PTL

(***************************************************************************)
(* verify_iot_certificate accepts no device that was inactive or revoked   *)
(* when its request came: Rows keeps such a request from every step past   *)
(* the query that would see it.                                            *)
(***************************************************************************)
THEOREM RevokedAreRefused == Spec => RevokedIsRefused
<1>1. ASSUME IInv, [Next]_vars
      PROVE  [\A r \in Requests :
                Ends(r, "accepted") /\ Checked(r) /\ req[r].a.p = "iot" => ~req[r].doomed]_vars
  <2>1. SUFFICES ASSUME Next, NEW r \in Requests, Ends(r, "accepted"), Checked(r), req[r].a.p = "iot"
                 PROVE  ~req[r].doomed
    BY <1>1
  <2>2. Verify(r)
    BY <1>1, <2>1, OnlyItsOwnEnds
  <2>3. req[r] \in Under
    BY <1>1, <2>1, UnderIsNotDone DEF Ends, IInv
  <2>4. ~Claims(r) /\ ~Ios(r)
    BY <1>1, <2>1, <2>3 DEF Claims, Ios, Enters, IInv, KeysAge
  <2>5. Seen(r)
    BY <1>1, <2>1, <2>2, <2>4, AcceptedBy
  <2>6. QED
    BY <1>1, <2>3, <2>5 DEF Seen, IInv, Rows
<1>2. QED
  BY <1>1, Invariance, PTL DEF Spec, RevokedIsRefused

(***************************************************************************)
(* A device silent for longer than max_device_idle_seconds is not brought  *)
(* back by a configuration with that limit, however its requests overlap:  *)
(* what a request read of last_seen is not later than what the row has.    *)
(***************************************************************************)
THEOREM IdleStays == Spec => IdleStaysOut
<1>1. ASSUME IInv, [Next]_vars
      PROVE  [\A r \in Requests :
                req[r].at = "seen" /\ device'.seen # device.seen /\ "idle" \in req[r].a.cfg
                  /\ device.seen # Never => now - device.seen <= MaxIdle + 1]_vars
  <2>1. SUFFICES ASSUME NEW r \in Requests, req[r].at = "seen", "idle" \in req[r].a.cfg,
                        device.seen # Never
                 PROVE  now - device.seen <= MaxIdle + 1
    OBVIOUS
  <2>2. req[r] \in Under
    BY <1>1, <2>1, UnderIsNotDone DEF IInv, Steps
  <2>3. /\ now \in Int /\ device.seen \in Int /\ MaxIdle \in Nat
        /\ req[r].since \in Int /\ req[r].seen \in Int
    BY <1>1, <2>2, BoundsAssumption DEF IInv, Types, Under, Hours, Instants, Never
  <2>4. now <= req[r].since + 1
    BY <1>1, <2>2 DEF IInv, Times
  <2>5. IF req[r].seen = Never THEN req[r].since <= device.seen
        ELSE req[r].seen <= device.seen /\ req[r].since - req[r].seen <= MaxIdle
    BY <1>1, <2>1, <2>2 DEF IInv, Rows
  <2>6. QED
    BY <2>3, <2>4, <2>5
<1>2. QED
  BY <1>1, Invariance, PTL DEF Spec, IdleStaysOut

(***************************************************************************)
(* verify_integrity accepts only what its configuration asks for, whatever *)
(* the score: the stages between the awaits are kept in PassedStages, and  *)
(* a stage without a miss has passed every hard check that was made.       *)
(***************************************************************************)
THEOREM AcceptedHavePassed == Spec => AcceptedPassed
<1>1. ASSUME IInv, PassedStages, [Next]_vars
      PROVE  [\A r \in Requests : Ends(r, "accepted") /\ Checked(r) =>
        LET a == req[r].a
            demanded == Demands[a.p] \cup
                UNION {DemandedBy[a.p][s] : s \in a.cfg \cap DOMAIN DemandedBy[a.p]}
        IN  /\ \A c \in demanded : a.shows[c] = "good"
            /\ a.p = "iot" => \A s \in DOMAIN Declining \ a.cfg : a.shows[Declining[s]] = "good"
            /\ a.p = "ios" /\ "min_version" \in a.cfg
                    /\ a.version[2] \in 0..99 /\ a.version[3] \in 0..99
                  => NotOlder(a.version, MinVersion)
            /\ "disabled" \notin a.cfg]_vars
  <2>1. SUFFICES ASSUME Next, NEW r \in Requests, NEW a, a = req[r].a,
                        Ends(r, "accepted"), Checked(r)
        PROVE  /\ \A c \in Demands[a.p] : a.shows[c] = "good"
               /\ \A s \in a.cfg \cap DOMAIN DemandedBy[a.p] :
                     \A c \in DemandedBy[a.p][s] : a.shows[c] = "good"
               /\ a.p = "iot" => \A s \in DOMAIN Declining \ a.cfg : a.shows[Declining[s]] = "good"
               /\ a.p = "ios" /\ "min_version" \in a.cfg
                       /\ a.version[2] \in 0..99 /\ a.version[3] \in 0..99
                     => NotOlder(a.version, MinVersion)
               /\ "disabled" \notin a.cfg
    BY <1>1
  <2>2. Verify(r)
    BY <1>1, <2>1, OnlyItsOwnEnds
  <2>3. req[r] \in Under /\ a \in AllAttempts
    BY <1>1, <2>1, UnderIsNotDone DEF Ends, IInv, Under
  <2>4. CASE Claims(r) /\ Outcome(a, AndroidClaims) = "valid" /\ Verdict(a, {}) = "accepted"
    <3>1. a.p = "android" /\ Outcome(a, AndroidHeader) = "valid" /\ "disabled" \notin a.cfg
      BY <1>1, <2>1, <2>3, <2>4 DEF Claims, IInv, KeysAge, PassedStages
    <3>2. Passes(a, "device")
      BY <2>4, <3>1 DEF Verdict, Trusted
    <3>3. a.shows["device"] = "good"
      BY <3>2 DEF Passes
    <3>4. Demands[a.p] = {"header", "signature", "fresh", "device"}
      BY <3>1 DEF Demands
    <3>5. DOMAIN DemandedBy[a.p] = {"packages"} /\ DemandedBy[a.p]["packages"] = {}
      BY <3>1 DEF DemandedBy
    <3>6. QED
      BY <2>4, <3>1, <3>3, <3>4, <3>5, AndroidPassed
  <2>5. CASE Ios(r) /\ Outcome(a, IosChecks) = "valid"
    <3>1. a.p = "ios" /\ "disabled" \notin a.cfg
      BY <2>1, <2>5, NotDisabled DEF Ios, Enters
    <3>2. Demands[a.p] = {"base64", "leaf", "chain", "bundle"}
      BY <3>1 DEF Demands
    <3>3. /\ DOMAIN DemandedBy[a.p] = {"certificates", "team"}
          /\ DemandedBy[a.p]["certificates"] = {"certificate"}
          /\ DemandedBy[a.p]["team"] = {"team"}
      BY <3>1 DEF DemandedBy
    <3>4. a.version \in Versions
      BY <2>3, <3>1, AttemptsAssumption
    <3>5. \A s \in a.cfg \cap DOMAIN DemandedBy[a.p] :
             \A c \in DemandedBy[a.p][s] : a.shows[c] = "good"
      BY <2>5, <3>3, IosPassed
    <3>6. QED
      BY <2>5, <3>1, <3>2, <3>4, <3>5, IosPassed, CodeOrders
  <2>6. CASE Seen(r)
    <3>1. /\ a.p = "iot" /\ "disabled" \notin a.cfg
          /\ Outcome(a, IotCertificate) = "valid" /\ Outcome(a, IotDevice) = "valid"
      BY <1>1, <2>1, <2>3, <2>6 DEF Seen, IInv, Rows, PassedStages
    <3>2. Demands[a.p] = {"base64", "x509", "subject"} /\ DemandedBy[a.p] = DemandedBy.iot
      BY <3>1 DEF Demands
    <3>3. QED
      BY <3>1, <3>2, IotPassed
  <2>7. QED
    BY <1>1, <2>1, <2>2, <2>4, <2>5, <2>6, AcceptedBy
<1>2. QED
  BY <1>1, StagesHold, PTL DEF Spec, AcceptedPassed

(***************************************************************************)
(* calculate_trust_score asks no genuine device for more points than its   *)
(* checks add, under any configuration: a genuine device is refused only   *)
(* by an iOS configuration without accept_untrusted or without bundle ids, *)
(* as the default one is (dto.rs:382, ios.rs:272), or for its row.         *)
(***************************************************************************)
THEOREM GenuineAreNotRefused == Spec => GenuineIsNotRefused
<1>1. ASSUME IInv, [Next]_vars
      PROVE  [\A r \in Requests :
          Ends(r, "refused") /\ Genuine(req[r].a) =>
              \/ req[r].a.p = "ios" /\ ~({"accept_untrusted", "bundles"} \subseteq req[r].a.cfg)
              \/ req[r].a.p = "iot" /\ (device.status # "active" \/ device.revoked)
              \/ req[r].a.p = "iot" /\ "idle" \in req[r].a.cfg
                    /\ req[r].seen \notin (now - MaxIdle)..now]_vars
  <2>1. SUFFICES ASSUME Next, NEW r \in Requests, NEW a, a = req[r].a, Ends(r, "refused"), Genuine(a)
                 PROVE  \/ a.p = "ios" /\ ~({"accept_untrusted", "bundles"} \subseteq a.cfg)
                        \/ a.p = "iot" /\ (device.status # "active" \/ device.revoked)
                        \/ a.p = "iot" /\ "idle" \in a.cfg
                              /\ req[r].seen \notin (now - MaxIdle)..now
    BY <1>1
  <2>2. Verify(r)
    BY <1>1, <2>1, OnlyItsOwnEnds
  <2>3. /\ req'[r] = Ended("refused") /\ req[r] \in Under /\ a \in AllAttempts
        /\ req \in [Requests -> {Idle} \cup Ends3 \cup Under]
    BY <1>1, <2>1, UnderIsNotDone DEF Ends, IInv, Types, Under
  <2>4. ASSUME NEW v, End(r, v) PROVE v = "refused"
    BY <2>3, <2>4 DEF End, Ended
  <2>5. ASSUME NEW at, req'[r].at = at PROVE at = "end"
    BY <2>3, <2>5 DEF Ended
  <2>6. ASSUME NEW at, Goto(r, at) PROVE at = "end"
    BY <2>3, <2>5, <2>6 DEF Goto, Under
  <2>7. ASSUME NEW checks, NEW next, Judge(r, checks, next), Outcome(a, checks) = "valid"
        PROVE  next = "end"
    BY <2>1, <2>6, <2>7 DEF Judge
  <2>8. ~Invalid(r) /\ ~Bypass(r) /\ ~Fetch(r) /\ ~Store(r)
    BY <2>3, <2>4, <2>5, <2>6 DEF Invalid, Bypass, Fetch, Store, Under
  <2>9. ~ReadKeys(r)
    <3>1. ReadKeys(r) => Outcome(a, AndroidHeader) = "valid"
      BY <2>1, <2>3, GenuineStages DEF ReadKeys, Enters, Listed
    <3>2. QED
      BY <2>1, <2>3, <2>5, <2>6, <3>1 DEF ReadKeys, Under
  <2>10. ~Certificate(r)
    BY <2>1, <2>3, <2>7, GenuineStages DEF Certificate, Enters, Listed
  <2>11. ~Claims(r)
    <3>1. SUFFICES ASSUME Claims(r) PROVE FALSE
      OBVIOUS
    <3>2. a.p = "android"
      BY <1>1, <2>1, <2>3, <3>1 DEF Claims, IInv, KeysAge
    <3>3. Outcome(a, AndroidClaims) = "valid" /\ Verdict(a, {}) = "accepted"
      BY <2>1, <2>3, <3>2, GenuineStages, GenuineVerdict DEF Listed
    <3>4. QED
      BY <2>1, <2>4, <3>1, <3>3 DEF Claims
  <2>12. CASE Ios(r)
    <3>1. a.p = "ios"
      BY <2>1, <2>12 DEF Ios, Enters
    <3>2. "bundles" \in a.cfg /\ "accept_untrusted" \in a.cfg
             => Outcome(a, IosChecks) = "valid" /\ Verdict(a, {}) = "accepted"
      BY <2>1, <2>3, <3>1, GenuineStages, GenuineVerdict DEF Listed
    <3>3. QED
      BY <2>1, <2>4, <2>12, <3>1, <3>2 DEF Ios
  <2>13. CASE Record(r)
    <3>1. a.p = "iot"
      BY <1>1, <2>1, <2>3, <2>13 DEF Record, IInv, Rows
    <3>2. QED
      BY <2>3, <2>4, <2>5, <2>13, <3>1 DEF Record, Under
  <2>14. CASE Revocation(r)
    <3>1. a.p = "iot"
      BY <1>1, <2>1, <2>3, <2>14 DEF Revocation, IInv, Rows
    <3>2. QED
      BY <2>4, <2>6, <2>14, <3>1 DEF Revocation
  <2>15. CASE DeviceChecks(r)
    <3>1. a.p = "iot"
      BY <1>1, <2>1, <2>3, <2>15 DEF DeviceChecks, IInv, Rows
    <3>2. Outcome(a, IotDevice) = "valid"
      BY <2>1, <2>3, <3>1, GenuineStages DEF Listed
    <3>3. IdleTooLong(r)
      BY <2>1, <2>6, <2>15, <3>2 DEF DeviceChecks
    <3>4. now \in Int /\ req[r].seen \in Int /\ MaxIdle \in Int
      BY <1>1, <2>3, BoundsAssumption DEF IInv, Types, Under, Hours, Instants, Never
    <3>5. "idle" \in a.cfg /\ req[r].seen \notin (now - MaxIdle)..now
      BY <2>1, <3>3, <3>4 DEF IdleTooLong
    <3>6. QED
      BY <3>1, <3>5
  <2>16. ~Seen(r)
    <3>1. SUFFICES ASSUME Seen(r) PROVE FALSE
      OBVIOUS
    <3>2. a.p = "iot"
      BY <1>1, <2>1, <2>3, <3>1 DEF Seen, IInv, Rows
    <3>3. Verdict(a, IF req[r].seen = Never THEN {"seen"} ELSE {}) = "accepted"
      BY <2>1, <2>3, <3>2, GenuineVerdict DEF Listed
    <3>4. QED
      BY <2>1, <2>4, <3>1, <3>3 DEF Seen
  <2>17. QED
    BY <2>2, <2>8, <2>9, <2>10, <2>11, <2>12, <2>13, <2>14, <2>15, <2>16 DEF Verify
<1>2. QED
  BY <1>1, Invariance, PTL DEF Spec, GenuineIsNotRefused

-------------------------------------------------------------------------------
(***************************************************************************)
(* Browsers.                                                               *)
(***************************************************************************)
Working == [at : Waits, kind : Kinds, who : Identities, cfg : BrowserIntegrityConfig,
            data : BrowserData, was : Bindings \cup {None}, n : Count, base : Count]
Over == {IdleBrowser, BrowserEnded("accepted"), BrowserEnded("refused")}

\* What a request under way has found so far: its headers are good, it comes to its
\* binding as a client with an origin, it found room for the change it is about to save,
\* and it binds only under a configuration that does.
Found(r, q) ==
    /\ [who |-> q.who, cfg |-> q.cfg, data |-> q.data] \in BrowserAttempts[r]
    /\ q.at # "origin" => GoodHeaders(q.cfg, q.data)
    /\ q.at \in {"origin", "captcha", "binding"} => q.was = None
    /\ q.at \in {"binding", "save", "bind"} => q.who \in Clients /\ q.data.origin \in Origins
    /\ q.at = "save" => q.was # None
    /\ q.at = "bind" => q.cfg.bind /\ q.data.agent
    /\ q.was # None => q.was.changes + 1 <= q.cfg.maxChanges

RequestInv ==
    /\ request \in [BrowserRequests -> Over \cup Working]
    /\ \A r \in BrowserRequests : request[r] \in Working => Found(r, request[r])

StoredInv ==
    /\ binding \in [Clients -> Bindings \cup {None}]
    /\ counts \in [Kinds -> [Identities -> [n : Count, ttl : BOOLEAN]]]
    /\ baseline \in [Identities -> Count]
    /\ stuck \subseteq Kinds \X Identities
    /\ peak \in [Identities -> Count]

\* The usage read by a request, the baseline it read and the baseline stored are all
\* within the highest usage so far.
PeakInv ==
    /\ BaselineBelowPeak
    /\ \A i \in Identities : counts["usage"][i].n <= peak[i]
    /\ \A r \in BrowserRequests :
          /\ At(r, "baseline") \/ At(r, "average") => request[r].n <= peak[request[r].who]
          /\ At(r, "average") => request[r].base <= peak[request[r].who]

BrowserInv == RequestInv /\ StoredInv /\ PeakInv /\ StuckOnlyByFailure /\ ChangesWithinMax

LEMMA Rests == \A q \in Over : q.at \in {"idle", "end"} /\ q \notin Working
BY DEF Over, IdleBrowser, BrowserEnded, Working, Waits

LEMMA BusyWorks ==
    ASSUME RequestInv, NEW r \in BrowserRequests, Busy(r)
    PROVE  request[r] \in Working /\ Found(r, request[r])
BY Rests DEF RequestInv, Busy

LEMMA WaitsWork ==
    ASSUME RequestInv, NEW r \in BrowserRequests, NEW at \in Waits, At(r, at)
    PROVE  Busy(r) /\ request[r] \in Working /\ Found(r, request[r])
<1>1. Busy(r)
    BY DEF At, Busy, Waits
<1> QED
    BY <1>1, BusyWorks

LEMMA AttemptsType ==
    ASSUME NEW r \in BrowserRequests, NEW a \in BrowserAttempts[r]
    PROVE  a \in [who : Identities, cfg : BrowserIntegrityConfig, data : BrowserData]
BY ConstantsAssumption

\* A step of request r, whose next state is q.
LEMMA Update ==
    ASSUME RequestInv, NEW r \in BrowserRequests, NEW q \in Over \cup Working,
           request' = [request EXCEPT ![r] = q], q \in Working => Found(r, q)
    PROVE  /\ RequestInv' /\ request'[r] = q
           /\ \A s \in BrowserRequests : s # r => request'[s] = request[s]
BY DEF RequestInv, Found

\* A request that goes elsewhere than to its baseline leaves every other one alone.
Elsewhere(r) ==
    /\ RequestInv'
    /\ \A s \in BrowserRequests : s # r => request'[s] = request[s]
    /\ request'[r].at \notin {"baseline", "average"}

LEMMA Ending ==
    ASSUME RequestInv, NEW r \in BrowserRequests, NEW v \in {"accepted", "refused"}, EndBrowser(r, v)
    PROVE  Elsewhere(r)
<1>1. BrowserEnded(v) \in Over /\ BrowserEnded(v).at = "end"
    BY DEF Over, BrowserEnded
<1> QED
    BY <1>1, Update, Rests DEF EndBrowser, Elsewhere

LEMMA LostGoes == ASSUME RequestInv, NEW r \in BrowserRequests, Lost(r) PROVE Elsewhere(r)
BY Ending DEF Lost

LEMMA Counting ==
    ASSUME RequestInv, NEW r \in BrowserRequests, NEW kind \in Kinds,
           request[r] \in Working, GoodHeaders(request[r].cfg, request[r].data), Counts(r, kind)
    PROVE  Elsewhere(r)
<1> DEFINE q == [request[r] EXCEPT !.at = "count", !.kind = kind, !.was = None, !.n = 0, !.base = 0]
<1>1. request' = [request EXCEPT ![r] = q]
    BY DEF Counts
<1>2. 0 \in Count
    BY ConstantsAssumption DEF Count
<1>3. /\ q \in Working /\ q.at = "count" /\ q.was = None
      /\ q.who = request[r].who /\ q.cfg = request[r].cfg /\ q.data = request[r].data
    BY <1>2 DEF Working, Waits
<1> HIDE DEF q
<1>4. Found(r, q)
    BY <1>3 DEF Found, RequestInv
<1> QED
    BY <1>1, <1>3, <1>4, Update DEF Elsewhere

LEMMA Going ==
    ASSUME RequestInv, NEW r \in BrowserRequests,
           NEW at \in {"captcha", "binding", "bind", "clients", "current"},
           request[r] \in Working, GoodHeaders(request[r].cfg, request[r].data), GoOn(r, at),
           at \in {"captcha", "binding"} => request[r].was = None,
           at \in {"binding", "bind"} => request[r].who \in Clients /\ request[r].data.origin \in Origins,
           at = "bind" => request[r].cfg.bind /\ request[r].data.agent
    PROVE  Elsewhere(r)
<1> DEFINE q == [request[r] EXCEPT !.at = at]
<1>1. request' = [request EXCEPT ![r] = q]
    BY DEF GoOn
<1>2. /\ q \in Working /\ q.at = at /\ q.was = request[r].was
      /\ q.who = request[r].who /\ q.cfg = request[r].cfg /\ q.data = request[r].data
    BY DEF Working, Waits
<1> HIDE DEF q
<1>3. Found(r, q)
    BY <1>2 DEF Found, RequestInv
<1> QED
    BY <1>1, <1>2, <1>3, Update DEF Elsewhere

\* The choices between the steps.
LEMMA AfterCaptchaGoes ==
    ASSUME RequestInv, NEW r \in BrowserRequests, request[r] \in Working,
           GoodHeaders(request[r].cfg, request[r].data), request[r].was = None,
           AfterCaptcha(r, request[r])
    PROVE  Elsewhere(r)
<1>1. CASE request[r].who \notin Clients
    <2>1. Counts(r, "requests") /\ "requests" \in Kinds
        BY <1>1 DEF AfterCaptcha, Kinds
    <2> QED
        BY <2>1, Counting
<1>2. CASE request[r].who \in Clients /\ request[r].data.origin = None
    <2>1. EndBrowser(r, "refused")
        BY <1>2 DEF AfterCaptcha
    <2> QED
        BY <2>1, Ending
<1>3. CASE request[r].who \in Clients /\ request[r].data.origin # None
    <2>1. GoOn(r, "binding") /\ request[r].data.origin \in Origins
        BY <1>3 DEF AfterCaptcha, Working, BrowserData
    <2> QED
        BY <1>3, <2>1, Going
<1> QED
    BY <1>1, <1>2, <1>3

LEMMA AfterOriginGoes ==
    ASSUME RequestInv, NEW r \in BrowserRequests, request[r] \in Working,
           GoodHeaders(request[r].cfg, request[r].data),
           request[r].who \in Clients, request[r].data.origin \in Origins, AfterOrigin(r)
    PROVE  Elsewhere(r)
<1>1. CASE ~request[r].cfg.bind
    <2>1. Counts(r, "requests") /\ "requests" \in Kinds
        BY <1>1 DEF AfterOrigin, Kinds
    <2> QED
        BY <2>1, Counting
<1>2. CASE request[r].cfg.bind /\ ~request[r].data.agent
    BY <1>2, Ending DEF AfterOrigin
<1>3. CASE request[r].cfg.bind /\ request[r].data.agent
    <2>1. GoOn(r, "bind")
        BY <1>3 DEF AfterOrigin
    <2> QED
        BY <1>3, <2>1, Going
<1> QED
    BY <1>1, <1>2, <1>3

LEMMA WatchesGoes ==
    ASSUME RequestInv, NEW r \in BrowserRequests, request[r] \in Working,
           GoodHeaders(request[r].cfg, request[r].data), Watches(r)
    PROVE  Elsewhere(r)
<1>1. CASE GoOn(r, "current")
    BY <1>1, Going
<1>2. CASE Counts(r, "usage")
    BY <1>2, Counting DEF Kinds
<1> QED
    BY <1>1, <1>2 DEF Watches

LEMMA AfterCountGoes ==
    ASSUME RequestInv, NEW r \in BrowserRequests, request[r] \in Working,
           GoodHeaders(request[r].cfg, request[r].data), NEW n, AfterCount(r, n)
    PROVE  Elsewhere(r)
<1>1. CASE EndBrowser(r, "refused") \/ EndBrowser(r, "accepted")
    BY <1>1, Ending
<1>2. CASE Counts(r, "registrations")
    BY <1>2, Counting DEF Kinds
<1>3. CASE GoOn(r, "clients")
    BY <1>3, Going
<1>4. CASE Watches(r)
    BY <1>4, WatchesGoes
<1> QED
    BY <1>1, <1>2, <1>3, <1>4 DEF AfterCount, AfterRegistrations

\* What each part of the invariant asks of a step of request r.
LEMMA PeakStays ==
    ASSUME RequestInv, StoredInv, StoredInv', PeakInv, NEW r \in BrowserRequests, Elsewhere(r),
           \A i \in Identities : /\ peak[i] <= peak'[i]
                                 /\ baseline'[i] <= peak'[i]
                                 /\ counts'["usage"][i].n <= peak'[i]
    PROVE  PeakInv'
<1>1. ASSUME NEW s \in BrowserRequests, At(s, "baseline")' \/ At(s, "average")'
      PROVE  /\ request'[s].n <= peak'[request'[s].who]
             /\ At(s, "average")' => request'[s].base <= peak'[request'[s].who]
    <2>1. s # r /\ request'[s] = request[s]
        BY <1>1 DEF Elsewhere, At
    <2>2. At(s, "baseline") \/ At(s, "average")
        BY <1>1, <2>1 DEF At
    <2>3. request[s] \in Working
        BY <2>2, WaitsWork DEF Waits
    <2>4. /\ request[s].who \in Identities /\ request[s].n \in Nat /\ request[s].base \in Nat
          /\ peak[request[s].who] \in Nat /\ peak'[request[s].who] \in Nat
        BY <2>3 DEF Working, StoredInv, Count
    <2> QED
        BY <2>1, <2>2, <2>4 DEF PeakInv, At
<1> QED
    BY <1>1 DEF PeakInv, BaselineBelowPeak

LEMMA StuckStays ==
    ASSUME StuckOnlyByFailure, NEW r \in BrowserRequests, ~At(r, "expire"),
           \A s \in BrowserRequests : s # r => request'[s] = request[s],
           UNCHANGED <<counts, stuck>>
    PROVE  StuckOnlyByFailure'
BY DEF StuckOnlyByFailure, At

\* A step that stores nothing.
LEMMA Quietly ==
    ASSUME BrowserInv, NEW r \in BrowserRequests, ~At(r, "expire"), Elsewhere(r), UNCHANGED stored
    PROVE  BrowserInv'
<1>1. StoredInv' /\ ChangesWithinMax'
    BY DEF BrowserInv, StoredInv, ChangesWithinMax, stored
<1>2. \A i \in Identities : peak[i] \in Nat
    BY DEF BrowserInv, StoredInv, Count
<1>3. \A i \in Identities : /\ peak[i] <= peak'[i]
                            /\ baseline'[i] <= peak'[i]
                            /\ counts'["usage"][i].n <= peak'[i]
    BY <1>2 DEF BrowserInv, PeakInv, BaselineBelowPeak, stored
<1>4. PeakInv'
    BY <1>1, <1>3, PeakStays DEF BrowserInv
<1>5. StuckOnlyByFailure'
    BY StuckStays DEF BrowserInv, Elsewhere, stored
<1> QED
    BY <1>1, <1>4, <1>5 DEF BrowserInv, Elsewhere

LEMMA BeginBrowserInv == ASSUME BrowserInv, NEW r \in BrowserRequests, BeginBrowser(r) PROVE BrowserInv'
<1>1. PICK a \in BrowserAttempts[r] :
         request' = [request EXCEPT ![r] =
             [at |-> "origin", kind |-> "requests", who |-> a.who, cfg |-> a.cfg, data |-> a.data,
              was |-> None, n |-> 0, base |-> 0]]
    BY DEF BeginBrowser
<1> DEFINE q == [at |-> "origin", kind |-> "requests", who |-> a.who, cfg |-> a.cfg, data |-> a.data,
                 was |-> None, n |-> 0, base |-> 0]
<1>2. a \in [who : Identities, cfg : BrowserIntegrityConfig, data : BrowserData]
    BY AttemptsType
<1>3. q \in Working /\ 0 \in Count
    BY <1>2, ConstantsAssumption DEF Working, Waits, Kinds, Count
<1>4. Found(r, q)
    BY <1>2 DEF Found
<1>5. q.at = "origin" /\ request' = [request EXCEPT ![r] = q]
    BY <1>1
<1> HIDE DEF q
<1>6. Elsewhere(r)
    BY <1>3, <1>4, <1>5, Update DEF Elsewhere, BrowserInv
<1>7. ~At(r, "expire") /\ UNCHANGED stored
    BY DEF BeginBrowser, Busy, At
<1> QED
    BY <1>6, <1>7, Quietly

LEMMA CheckHeadersInv == ASSUME BrowserInv, NEW r \in BrowserRequests, CheckHeaders(r) PROVE BrowserInv'
<1>1. At(r, "origin") /\ UNCHANGED stored
    BY DEF CheckHeaders
<1>2. request[r] \in Working /\ Found(r, request[r]) /\ ~At(r, "expire") /\ request[r].was = None
    BY <1>1, WaitsWork DEF BrowserInv, Waits, At, Found
<1>3. CASE EndBrowser(r, "refused")
    BY <1>1, <1>2, <1>3, Ending, Quietly DEF BrowserInv
<1>4. CASE GoodHeaders(request[r].cfg, request[r].data) /\ AfterCaptcha(r, request[r])
    BY <1>1, <1>2, <1>4, AfterCaptchaGoes, Quietly DEF BrowserInv
<1>5. CASE GoodHeaders(request[r].cfg, request[r].data) /\ GoOn(r, "captcha")
    BY <1>1, <1>2, <1>5, Going, Quietly DEF BrowserInv
<1> QED
    BY <1>3, <1>4, <1>5 DEF CheckHeaders

LEMMA VerifyCaptchaInv == ASSUME BrowserInv, NEW r \in BrowserRequests, VerifyCaptcha(r) PROVE BrowserInv'
<1>1. At(r, "captcha") /\ UNCHANGED stored /\ AfterCaptcha(r, request[r])
    BY DEF VerifyCaptcha
<1>2. /\ request[r] \in Working /\ ~At(r, "expire") /\ request[r].was = None
      /\ GoodHeaders(request[r].cfg, request[r].data)
    BY <1>1, WaitsWork DEF BrowserInv, Waits, At, Found
<1> QED
    BY <1>1, <1>2, AfterCaptchaGoes, Quietly DEF BrowserInv

LEMMA ReadBindingInv == ASSUME BrowserInv, NEW r \in BrowserRequests, ReadBinding(r) PROVE BrowserInv'
<1>1. At(r, "binding") /\ UNCHANGED stored
    BY DEF ReadBinding
<1>2. /\ request[r] \in Working /\ Found(r, request[r]) /\ ~At(r, "expire") /\ request[r].was = None
      /\ GoodHeaders(request[r].cfg, request[r].data)
      /\ request[r].who \in Clients /\ request[r].data.origin \in Origins
    BY <1>1, WaitsWork DEF BrowserInv, Waits, At, Found
<1>3. CASE EndBrowser(r, "refused")
    BY <1>1, <1>2, <1>3, Ending, Quietly DEF BrowserInv
<1>4. CASE AfterOrigin(r)
    BY <1>1, <1>2, <1>4, AfterOriginGoes, Quietly DEF BrowserInv
<1>5. CASE ~EndBrowser(r, "refused") /\ ~AfterOrigin(r)
    <2> DEFINE was == binding[request[r].who]
               q == [request[r] EXCEPT !.at = "save", !.was = was]
    <2>1. /\ was # None /\ ~(was.changes + 1 > request[r].cfg.maxChanges)
          /\ request' = [request EXCEPT ![r] = q]
        BY <1>5 DEF ReadBinding
    <2>2. was \in Bindings /\ was.changes \in Nat /\ request[r].cfg.maxChanges \in Nat
        BY <1>2, <2>1 DEF BrowserInv, StoredInv, Bindings, Working, BrowserIntegrityConfig
    <2>3. was.changes + 1 <= request[r].cfg.maxChanges
        BY <2>1, <2>2
    <2> HIDE DEF was
    <2>4. /\ q \in Working /\ q.at = "save" /\ q.was = was
          /\ q.who = request[r].who /\ q.cfg = request[r].cfg /\ q.data = request[r].data
        BY <1>2, <2>2 DEF Working, Waits
    <2> HIDE DEF q
    <2>5. Found(r, q)
        BY <1>2, <2>1, <2>3, <2>4 DEF Found
    <2>6. Elsewhere(r)
        BY <2>1, <2>4, <2>5, Update DEF Elsewhere, BrowserInv
    <2> QED
        BY <1>1, <1>2, <2>6, Quietly
<1> QED
    BY <1>3, <1>4, <1>5

LEMMA CheckClientsInv == ASSUME BrowserInv, NEW r \in BrowserRequests, CheckClients(r) PROVE BrowserInv'
<1>1. At(r, "clients") /\ UNCHANGED stored
    BY DEF CheckClients
<1>2. request[r] \in Working /\ ~At(r, "expire") /\ GoodHeaders(request[r].cfg, request[r].data)
    BY <1>1, WaitsWork DEF BrowserInv, Waits, At, Found
<1>3. CASE EndBrowser(r, "refused")
    BY <1>1, <1>2, <1>3, Ending, Quietly DEF BrowserInv
<1>4. CASE Watches(r)
    BY <1>1, <1>2, <1>4, WatchesGoes, Quietly DEF BrowserInv
<1> QED
    BY <1>3, <1>4 DEF CheckClients

\* The steps that write a binding.
LEMMA Binds ==
    ASSUME BrowserInv, NEW r \in BrowserRequests, ~At(r, "expire"), Elsewhere(r),
           NEW b \in Bindings, request[r].who \in Clients,
           request[r] \in Working, b.changes <= request[r].cfg.maxChanges,
           binding' = [binding EXCEPT ![request[r].who] = b],
           UNCHANGED <<counts, baseline, stuck, peak>>
    PROVE  BrowserInv'
<1>1. StoredInv'
    BY DEF BrowserInv, StoredInv
<1>2. PICK a \in BrowserAttempts[r] : a.cfg = request[r].cfg
    BY DEF BrowserInv, RequestInv, Found
<1>3. ChangesWithinMax'
    BY <1>2 DEF BrowserInv, StoredInv, ChangesWithinMax
<1>4. \A i \in Identities : peak[i] \in Nat
    BY DEF BrowserInv, StoredInv, Count
<1>5. \A i \in Identities : /\ peak[i] <= peak'[i]
                            /\ baseline'[i] <= peak'[i]
                            /\ counts'["usage"][i].n <= peak'[i]
    BY <1>4 DEF BrowserInv, PeakInv, BaselineBelowPeak
<1>6. PeakInv'
    BY <1>1, <1>5, PeakStays DEF BrowserInv
<1>7. StuckOnlyByFailure'
    BY StuckStays DEF BrowserInv, Elsewhere
<1> QED
    BY <1>1, <1>3, <1>6, <1>7 DEF BrowserInv, Elsewhere

LEMMA SaveBindingInv == ASSUME BrowserInv, NEW r \in BrowserRequests, SaveBinding(r) PROVE BrowserInv'
<1>1. /\ At(r, "save") /\ (AfterOrigin(r) \/ Lost(r)) /\ UNCHANGED <<counts, baseline, stuck, peak>>
      /\ binding' = [binding EXCEPT ![request[r].who] = [request[r].was EXCEPT !.changes = @ + 1]]
    BY DEF SaveBinding
<1>2. /\ request[r] \in Working /\ ~At(r, "expire") /\ request[r].was # None
      /\ request[r].was.changes + 1 <= request[r].cfg.maxChanges
      /\ GoodHeaders(request[r].cfg, request[r].data)
      /\ request[r].who \in Clients /\ request[r].data.origin \in Origins
    BY <1>1, WaitsWork DEF BrowserInv, Waits, At, Found
<1> DEFINE b == [request[r].was EXCEPT !.changes = @ + 1]
<1>3. b \in Bindings /\ b.changes = request[r].was.changes + 1
    BY <1>2 DEF Working, Bindings
<1>4. Elsewhere(r)
    BY <1>1, <1>2, AfterOriginGoes, LostGoes DEF BrowserInv
<1>5. b.changes <= request[r].cfg.maxChanges /\ binding' = [binding EXCEPT ![request[r].who] = b]
    BY <1>1, <1>2, <1>3
<1> HIDE DEF b
<1> QED
    BY <1>1, <1>2, <1>3, <1>4, <1>5, Binds

LEMMA BindClientInv == ASSUME BrowserInv, NEW r \in BrowserRequests, BindClient(r) PROVE BrowserInv'
<1> DEFINE b == [origin |-> request[r].data.origin, changes |-> 0]
<1>1. /\ At(r, "bind") /\ (Counts(r, "requests") \/ Lost(r)) /\ UNCHANGED <<counts, baseline, stuck, peak>>
      /\ binding' = [binding EXCEPT ![request[r].who] = b]
    BY DEF BindClient
<1>2. /\ request[r] \in Working /\ ~At(r, "expire")
      /\ GoodHeaders(request[r].cfg, request[r].data)
      /\ request[r].who \in Clients /\ request[r].data.origin \in Origins
    BY <1>1, WaitsWork DEF BrowserInv, Waits, At, Found
<1>3. b \in Bindings /\ b.changes <= request[r].cfg.maxChanges
    BY <1>2 DEF Working, Bindings, BrowserIntegrityConfig
<1>4. Elsewhere(r)
    BY <1>1, <1>2, Counting, LostGoes DEF BrowserInv, Kinds
<1> HIDE DEF b
<1> QED
    BY <1>1, <1>2, <1>3, <1>4, Binds

\* The requests in dead end early, by a failure or with their server.
LEMMA EndingEarly ==
    ASSUME BrowserInv, NEW dead \in SUBSET BrowserRequests, RequestInv',
           \A r \in BrowserRequests : IF r \in dead THEN request'[r] \in Over ELSE request'[r] = request[r],
           Untimed({r \in dead : At(r, "expire")}), UNCHANGED <<binding, counts, baseline, peak>>
    PROVE  BrowserInv'
<1>1. /\ stuck \subseteq stuck'
      /\ \A r \in dead : At(r, "expire") => <<request[r].kind, request[r].who>> \in stuck'
      /\ stuck' \subseteq Kinds \X Identities
    <2>1. ASSUME NEW r \in dead, At(r, "expire")
          PROVE  <<request[r].kind, request[r].who>> \in Kinds \X Identities
        <3>1. request[r] \in Working
            BY <2>1, WaitsWork DEF BrowserInv, Waits
        <3> QED
            BY <3>1 DEF Working
    <2> QED
        BY <2>1 DEF Untimed, BrowserInv, StoredInv
<1>2. StoredInv' /\ ChangesWithinMax'
    BY <1>1 DEF BrowserInv, StoredInv, ChangesWithinMax
<1>3. \A r \in dead : ~At(r, "baseline")' /\ ~At(r, "average")' /\ ~At(r, "expire")'
    BY Rests DEF At
<1>4. PeakInv'
    BY <1>3 DEF BrowserInv, PeakInv, BaselineBelowPeak, At
<1>5. StuckOnlyByFailure'
    <2> SUFFICES ASSUME NEW k \in Kinds, NEW i \in Identities, counts[k][i].n > 0
                 PROVE  \/ counts[k][i].ttl \/ <<k, i>> \in stuck'
                        \/ \E s \in BrowserRequests :
                              At(s, "expire")' /\ request'[s].kind = k /\ request'[s].who = i
        BY DEF StuckOnlyByFailure
    <2>1. CASE \E r \in dead : At(r, "expire") /\ request[r].kind = k /\ request[r].who = i
        BY <1>1, <2>1
    <2>2. CASE ~\E r \in dead : At(r, "expire") /\ request[r].kind = k /\ request[r].who = i
        BY <1>1, <2>2 DEF BrowserInv, StuckOnlyByFailure, At
    <2> QED
        BY <2>1, <2>2
<1> QED
    BY <1>2, <1>4, <1>5 DEF BrowserInv

LEMMA FailInv == ASSUME BrowserInv, NEW r \in BrowserRequests, Fail(r) PROVE BrowserInv'
<1>1. RequestInv' /\ request' = [request EXCEPT ![r] = BrowserEnded("refused")]
    BY Ending DEF Fail, BrowserInv, Elsewhere, EndBrowser
<1>2. \A s \in BrowserRequests : IF s \in {r} THEN request'[s] \in Over ELSE request'[s] = request[s]
    BY <1>1 DEF BrowserInv, RequestInv, Over
<1>3. {r} \cap {q \in BrowserRequests : At(q, "expire")} = {s \in {r} : At(s, "expire")}
    OBVIOUS
<1>4. Untimed({s \in {r} : At(s, "expire")}) /\ UNCHANGED <<binding, counts, baseline, peak>>
    BY <1>3 DEF Fail
<1>5. {r} \in SUBSET BrowserRequests
    OBVIOUS
<1> QED
    BY <1>1, <1>2, <1>4, <1>5, EndingEarly

LEMMA CrashBrowserInv ==
    ASSUME BrowserInv, NEW dead \in SUBSET BrowserRequests, CrashBrowser(dead)
    PROVE  BrowserInv'
<1>1. \A r \in BrowserRequests : IF r \in dead THEN request'[r] = IdleBrowser ELSE request'[r] = request[r]
    BY DEF CrashBrowser
<1>2. IdleBrowser \in Over /\ IdleBrowser \notin Working
    BY Rests DEF Over
<1>3. RequestInv'
    <2>1. request' \in [BrowserRequests -> Over \cup Working]
        BY <1>2 DEF CrashBrowser, BrowserInv, RequestInv
    <2>2. \A r \in BrowserRequests : request'[r] \in Working => Found(r, request'[r])
        BY <1>1, <1>2 DEF BrowserInv, RequestInv
    <2> QED
        BY <2>1, <2>2 DEF RequestInv, Found
<1> QED
    BY <1>1, <1>2, <1>3, EndingEarly DEF CrashBrowser

\* The steps of a counter. A counter without an expiry keeps its reason, unless it is
\* the one that request r works on.
Reason(k, i) == \/ <<k, i>> \in stuck
                \/ \E s \in BrowserRequests : At(s, "expire") /\ request[s].kind = k /\ request[s].who = i

LEMMA ReasonStays ==
    ASSUME NEW r \in BrowserRequests, Elsewhere(r), stuck \subseteq stuck', NEW k, NEW i, Reason(k, i),
           ~(At(r, "expire") /\ request[r].kind = k /\ request[r].who = i)
    PROVE  Reason(k, i)'
BY DEF Reason, Elsewhere, At

LEMMA StuckReason ==
    StuckOnlyByFailure <=> \A k \in Kinds, i \in Identities :
                              counts[k][i].n > 0 => counts[k][i].ttl \/ Reason(k, i)
BY DEF StuckOnlyByFailure, Reason

LEMMA IncrementInv == ASSUME BrowserInv, NEW r \in BrowserRequests, Increment(r) PROVE BrowserInv'
<1> DEFINE k == request[r].kind
           i == request[r].who
           n == counts[k][i].n + 1
<1>1. /\ At(r, "count") /\ n <= MaxCount /\ counts' = [counts EXCEPT ![k][i].n = n]
      /\ peak' = IF k = "usage" /\ n > peak[i] THEN [peak EXCEPT ![i] = n] ELSE peak
      /\ UNCHANGED <<binding, baseline>>
    BY DEF Increment, CountUp, Counted
<1>0. \/ n = 1 /\ request' = [request EXCEPT ![r].at = "expire", ![r].n = n] /\ UNCHANGED stuck
      \/ n # 1 /\ AfterCount(r, n) /\ UNCHANGED stuck
      \/ Lost(r) /\ Untimed(IF n = 1 THEN {r} ELSE {})
    BY DEF Increment, Counted
<1>2. /\ request[r] \in Working /\ Found(r, request[r]) /\ ~At(r, "expire")
      /\ GoodHeaders(request[r].cfg, request[r].data)
      /\ k \in Kinds /\ i \in Identities
    BY <1>1, WaitsWork DEF BrowserInv, Waits, At, Found, Working
<1>3. /\ counts \in [Kinds -> [Identities -> [n : Count, ttl : BOOLEAN]]]
      /\ peak \in [Identities -> Count] /\ n \in Count /\ n > 0
    BY <1>1, <1>2, ConstantsAssumption DEF BrowserInv, StoredInv, Count
<1>4. /\ counts' \in [Kinds -> [Identities -> [n : Count, ttl : BOOLEAN]]]
      /\ counts'[k][i].n = n /\ counts'[k][i].ttl = counts[k][i].ttl
      /\ \A l \in Kinds, j \in Identities : l # k \/ j # i => counts'[l][j] = counts[l][j]
    <2>1. counts' = [counts EXCEPT ![k][i].n = n] /\ k \in Kinds /\ i \in Identities /\ n \in Count
        BY <1>1, <1>2, <1>3
    <2>2. counts \in [Kinds -> [Identities -> [n : Count, ttl : BOOLEAN]]]
        BY <1>3
    <2> HIDE DEF n, k, i
    <2> QED
        BY <2>1, <2>2
<1>5. /\ Elsewhere(r) /\ stuck \subseteq stuck' /\ stuck' \subseteq Kinds \X Identities
      /\ n = 1 => \/ <<k, i>> \in stuck'
                  \/ request'[r].at = "expire" /\ request'[r].kind = k /\ request'[r].who = i
    <2>1. CASE n # 1 /\ AfterCount(r, n) /\ UNCHANGED stuck
        BY <1>2, <2>1, AfterCountGoes DEF BrowserInv, StoredInv
    <2>3. CASE Lost(r) /\ Untimed(IF n = 1 THEN {r} ELSE {})
        <3>1. stuck' = stuck \cup {<<request[s].kind, request[s].who>> : s \in IF n = 1 THEN {r} ELSE {}}
            BY <2>3 DEF Untimed
        <3>2. Elsewhere(r)
            BY <2>3, LostGoes DEF BrowserInv
        <3>3. stuck' = stuck \cup (IF n = 1 THEN {<<k, i>>} ELSE {})
            BY <3>1
        <3> HIDE DEF n, k, i
        <3> QED
            BY <1>2, <3>2, <3>3 DEF BrowserInv, StoredInv
    <2>2. CASE n = 1 /\ request' = [request EXCEPT ![r].at = "expire", ![r].n = n] /\ UNCHANGED stuck
        <3> DEFINE q == [request[r] EXCEPT !.at = "expire", !.n = 1]
        <3>1. request' = [request EXCEPT ![r] = q]
            BY <2>2
        <3>2. /\ q \in Working /\ q.at = "expire" /\ q.kind = k /\ q.was = request[r].was
              /\ q.who = i /\ q.cfg = request[r].cfg /\ q.data = request[r].data
            BY <1>2, <1>3, <2>2 DEF Working, Waits
        <3> HIDE DEF q
        <3>3. Found(r, q)
            BY <1>2, <3>2 DEF Found
        <3>4. Elsewhere(r) /\ request'[r] = q
            BY <3>1, <3>2, <3>3, Update DEF Elsewhere, BrowserInv
        <3>5. stuck \subseteq stuck' /\ stuck' \subseteq Kinds \X Identities
            BY <2>2 DEF BrowserInv, StoredInv
        <3> HIDE DEF n, k, i
        <3> QED
            BY <3>2, <3>4, <3>5
    <2> QED
        BY <1>0, <2>1, <2>2, <2>3
<1> HIDE DEF n
<1>6. \A j \in Identities : peak[j] \in Nat /\ peak'[j] \in Count /\ peak[j] <= peak'[j]
    BY <1>1, <1>2, <1>3 DEF Count
<1>7. StoredInv'
    <2>1. peak' \in [Identities -> Count]
        BY <1>1, <1>3
    <2>2. binding' \in [Clients -> Bindings \cup {None}] /\ baseline' \in [Identities -> Count]
        BY <1>1 DEF BrowserInv, StoredInv
    <2>3. /\ counts' \in [Kinds -> [Identities -> [n : Count, ttl : BOOLEAN]]]
          /\ stuck' \subseteq Kinds \X Identities
        BY <1>4, <1>5
    <2> QED
        BY <2>1, <2>2, <2>3 DEF StoredInv
<1>8. \A j \in Identities : baseline'[j] <= peak'[j]
    <2>1. \A j \in Identities : baseline[j] \in Nat /\ peak'[j] \in Nat
        BY <1>6 DEF BrowserInv, StoredInv, Count
    <2> QED
        BY <1>1, <1>6, <2>1 DEF BrowserInv, PeakInv, BaselineBelowPeak
<1>9. ASSUME NEW j \in Identities
      PROVE  counts'["usage"][j].n <= peak'[j]
    <2>1. "usage" \in Kinds /\ n \in Nat /\ peak'[j] \in Nat /\ counts["usage"][j].n \in Nat
        BY <1>3, <1>6 DEF Kinds, Count
    <2>2. CASE k = "usage" /\ j = i
        BY <1>1, <1>2, <1>3, <1>4, <1>6, <2>1, <2>2 DEF Count
    <2>3. CASE ~(k = "usage" /\ j = i)
        BY <1>4, <1>6, <2>1, <2>3 DEF BrowserInv, PeakInv
    <2> QED
        BY <2>2, <2>3
<1>10. PeakInv'
    BY <1>5, <1>6, <1>7, <1>8, <1>9, PeakStays DEF BrowserInv
<1>11. StuckOnlyByFailure'
    <2> SUFFICES ASSUME NEW l \in Kinds, NEW j \in Identities, counts'[l][j].n > 0
                 PROVE  counts'[l][j].ttl \/ Reason(l, j)'
        BY DEF StuckOnlyByFailure, Reason
    <2>1. ASSUME counts[l][j].n > 0, counts'[l][j].ttl = counts[l][j].ttl
          PROVE  counts'[l][j].ttl \/ Reason(l, j)'
        <3>1. counts[l][j].ttl \/ Reason(l, j)
            BY <2>1, StuckReason DEF BrowserInv
        <3> QED
            BY <1>2, <1>5, <2>1, <3>1, ReasonStays
    <2>2. CASE l # k \/ j # i
        BY <1>4, <2>1, <2>2
    <2>3. CASE l = k /\ j = i /\ n = 1
        BY <1>5, <2>3 DEF Reason, At
    <2>4. CASE l = k /\ j = i /\ n # 1
        BY <1>2, <1>3, <1>4, <2>1, <2>4 DEF n, Count
    <2> QED
        BY <2>2, <2>3, <2>4
<1>12. ChangesWithinMax'
    BY <1>1 DEF BrowserInv, ChangesWithinMax
<1> QED
    BY <1>5, <1>7, <1>10, <1>11, <1>12 DEF BrowserInv, Elsewhere

LEMMA SetExpiryInv == ASSUME BrowserInv, NEW r \in BrowserRequests, SetExpiry(r) PROVE BrowserInv'
<1> DEFINE k == request[r].kind
           i == request[r].who
           ttl == counts[k][i].n > 0
<1>1. /\ At(r, "expire") /\ counts' = [counts EXCEPT ![k][i].ttl = ttl]
      /\ UNCHANGED <<binding, baseline, stuck, peak>>
    BY DEF SetExpiry
<1>2. /\ request[r] \in Working /\ GoodHeaders(request[r].cfg, request[r].data)
      /\ k \in Kinds /\ i \in Identities /\ ttl \in BOOLEAN
    <2>1. request[r] \in Working /\ Found(r, request[r])
        BY <1>1, WaitsWork DEF BrowserInv, Waits
    <2>2. GoodHeaders(request[r].cfg, request[r].data)
        BY <1>1, <2>1 DEF At, Found
    <2>3. ttl \in BOOLEAN
        OBVIOUS
    <2> QED
        BY <2>1, <2>2, <2>3 DEF Working
<1>3. Elsewhere(r)
    BY <1>2, AfterCountGoes, LostGoes DEF SetExpiry, BrowserInv
<1>4. /\ counts' \in [Kinds -> [Identities -> [n : Count, ttl : BOOLEAN]]]
      /\ counts'[k][i].ttl = ttl /\ counts'[k][i].n = counts[k][i].n
      /\ \A l \in Kinds, j \in Identities : l # k \/ j # i => counts'[l][j] = counts[l][j]
    <2>1. counts \in [Kinds -> [Identities -> [n : Count, ttl : BOOLEAN]]]
        BY DEF BrowserInv, StoredInv
    <2> HIDE DEF ttl, k, i
    <2> QED
        BY <1>1, <1>2, <2>1
<1>5. \A l \in Kinds, j \in Identities : counts'[l][j].n = counts[l][j].n
    BY <1>4
<1>6. StoredInv'
    <2>1. counts' \in [Kinds -> [Identities -> [n : Count, ttl : BOOLEAN]]]
        BY <1>4
    <2>2. UNCHANGED <<binding, baseline, stuck, peak>>
        BY <1>1
    <2> QED
        BY <2>1, <2>2 DEF BrowserInv, StoredInv
<1>7. PeakInv'
    <2>1. \A j \in Identities : peak[j] \in Nat
        BY DEF BrowserInv, StoredInv, Count
    <2>2. \A j \in Identities : /\ peak[j] <= peak'[j]
                                /\ baseline'[j] <= peak'[j]
                                /\ counts'["usage"][j].n <= peak'[j]
        BY <1>1, <1>5, <2>1 DEF BrowserInv, PeakInv, BaselineBelowPeak, Kinds
    <2> QED
        BY <1>3, <1>6, <2>2, PeakStays DEF BrowserInv
<1>8. StuckOnlyByFailure'
    <2> SUFFICES ASSUME NEW l \in Kinds, NEW j \in Identities, counts'[l][j].n > 0
                 PROVE  counts'[l][j].ttl \/ Reason(l, j)'
        BY DEF StuckOnlyByFailure, Reason
    <2>1. CASE l = k /\ j = i
        BY <1>4, <2>1
    <2>2. CASE l # k \/ j # i
        <3>1. counts'[l][j] = counts[l][j] /\ counts[l][j].n > 0
            BY <1>4, <2>2
        <3>2. counts[l][j].ttl \/ Reason(l, j)
            BY <3>1, StuckReason DEF BrowserInv
        <3> QED
            BY <1>1, <1>3, <2>2, <3>1, <3>2, ReasonStays
    <2> QED
        BY <2>1, <2>2
<1>9. ChangesWithinMax'
    BY <1>1 DEF BrowserInv, ChangesWithinMax
<1> QED
    BY <1>3, <1>6, <1>7, <1>8, <1>9 DEF BrowserInv, Elsewhere

\* The steps of the baseline.
LEMMA AverageBetween ==
    ASSUME NEW b \in Nat, NEW n \in Nat, NEW m \in Nat, b <= m, n <= m
    PROVE  Average(b, n) \in 0..m
BY DEF Average

\* A step to the baseline itself.
LEMMA Baseline ==
    ASSUME BrowserInv, NEW r \in BrowserRequests, ~At(r, "expire"), UNCHANGED stored,
           NEW q \in Working, request' = [request EXCEPT ![r] = q], Found(r, q),
           q.n <= peak[q.who], q.at = "average" => q.base <= peak[q.who]
    PROVE  BrowserInv'
<1>1. /\ RequestInv' /\ request'[r] = q
      /\ \A s \in BrowserRequests : s # r => request'[s] = request[s]
    BY Update DEF BrowserInv
<1>2. StoredInv' /\ ChangesWithinMax'
    BY DEF BrowserInv, StoredInv, ChangesWithinMax, stored
<1>3. PeakInv'
    <2>1. BaselineBelowPeak' /\ \A i \in Identities : counts'["usage"][i].n <= peak'[i]
        BY DEF BrowserInv, PeakInv, BaselineBelowPeak, stored
    <2> QED
        BY <1>1, <2>1 DEF BrowserInv, PeakInv, At, stored
<1>4. StuckOnlyByFailure'
    BY <1>1, StuckStays DEF BrowserInv, stored
<1> QED
    BY <1>1, <1>2, <1>3, <1>4 DEF BrowserInv

LEMMA ReadUsageInv == ASSUME BrowserInv, NEW r \in BrowserRequests, ReadUsage(r) PROVE BrowserInv'
<1>1. At(r, "current") /\ UNCHANGED stored
    BY DEF ReadUsage
<1>2. request[r] \in Working /\ Found(r, request[r]) /\ ~At(r, "expire")
    BY <1>1, WaitsWork DEF BrowserInv, Waits, At
<1>3. PICK n \in {0, counts["usage"][request[r].who].n} :
         request' = [request EXCEPT ![r].at = "baseline", ![r].n = n]
    BY DEF ReadUsage
<1>4. n \in Count /\ n <= peak[request[r].who]
    <2>1. request[r].who \in Identities /\ "usage" \in Kinds
        BY <1>2 DEF Working, Kinds
    <2>2. counts["usage"][request[r].who].n \in Count /\ peak[request[r].who] \in Nat
        BY <2>1 DEF BrowserInv, StoredInv, Count
    <2> QED
        BY <1>3, <2>1, <2>2, ConstantsAssumption DEF BrowserInv, PeakInv, Count
<1> DEFINE q == [request[r] EXCEPT !.at = "baseline", !.n = n]
<1>5. request' = [request EXCEPT ![r] = q]
    BY <1>3
<1>6. /\ q \in Working /\ q.at = "baseline" /\ q.n = n /\ q.was = request[r].was
      /\ q.who = request[r].who /\ q.cfg = request[r].cfg /\ q.data = request[r].data
    BY <1>2, <1>4 DEF Working, Waits
<1> HIDE DEF q
<1>7. Found(r, q)
    BY <1>1, <1>2, <1>6 DEF Found, At
<1> QED
    BY <1>1, <1>2, <1>4, <1>5, <1>6, <1>7, Baseline

LEMMA ReadBaselineInv == ASSUME BrowserInv, NEW r \in BrowserRequests, ReadBaseline(r) PROVE BrowserInv'
<1>1. At(r, "baseline") /\ UNCHANGED stored
    BY DEF ReadBaseline
<1>2. /\ request[r] \in Working /\ Found(r, request[r]) /\ ~At(r, "expire")
      /\ GoodHeaders(request[r].cfg, request[r].data)
    BY <1>1, WaitsWork DEF BrowserInv, Waits, At, Found
<1>3. CASE Counts(r, "usage")
    <2>1. Elsewhere(r)
        BY <1>2, <1>3, Counting DEF BrowserInv, Kinds
    <2> QED
        BY <1>1, <1>2, <2>1, Quietly
<1>4. CASE ~Counts(r, "usage")
    <2>1. PICK b \in {0, baseline[request[r].who]} :
             request' = [request EXCEPT ![r].at = "average", ![r].base = b]
        BY <1>4 DEF ReadBaseline
    <2>2. b \in Count /\ b <= peak[request[r].who] /\ request[r].n <= peak[request[r].who]
        <3>1. request[r].who \in Identities
            BY <1>2 DEF Working
        <3>2. baseline[request[r].who] \in Count /\ peak[request[r].who] \in Nat
            BY <3>1 DEF BrowserInv, StoredInv, Count
        <3> QED
            BY <1>1, <2>1, <3>1, <3>2, ConstantsAssumption DEF BrowserInv, PeakInv, BaselineBelowPeak, Count
    <2> DEFINE q == [request[r] EXCEPT !.at = "average", !.base = b]
    <2>3. request' = [request EXCEPT ![r] = q]
        BY <2>1
    <2>4. /\ q \in Working /\ q.at = "average" /\ q.n = request[r].n /\ q.base = b /\ q.was = request[r].was
          /\ q.who = request[r].who /\ q.cfg = request[r].cfg /\ q.data = request[r].data
        BY <1>2, <2>2 DEF Working, Waits
    <2> HIDE DEF q
    <2>5. Found(r, q)
        BY <1>1, <1>2, <2>4 DEF Found, At
    <2> QED
        BY <1>1, <1>2, <2>2, <2>3, <2>4, <2>5, Baseline
<1> QED
    BY <1>3, <1>4

LEMMA SaveBaselineInv == ASSUME BrowserInv, NEW r \in BrowserRequests, SaveBaseline(r) PROVE BrowserInv'
<1> DEFINE i == request[r].who
           avg == Average(request[r].base, request[r].n)
<1>1. /\ At(r, "average") /\ (Counts(r, "usage") \/ Lost(r)) /\ baseline' = [baseline EXCEPT ![i] = avg]
      /\ UNCHANGED <<binding, counts, stuck, peak>>
    BY DEF SaveBaseline
<1>2. /\ request[r] \in Working /\ ~At(r, "expire") /\ GoodHeaders(request[r].cfg, request[r].data)
      /\ i \in Identities /\ request[r].base \in Nat /\ request[r].n \in Nat
    <2>1. request[r] \in Working /\ Found(r, request[r])
        BY <1>1, WaitsWork DEF BrowserInv, Waits
    <2>2. GoodHeaders(request[r].cfg, request[r].data) /\ ~At(r, "expire")
        BY <1>1, <2>1 DEF At, Found
    <2>3. i \in Identities /\ request[r].base \in Count /\ request[r].n \in Count
        BY <2>1 DEF Working
    <2> QED
        BY <2>1, <2>2, <2>3, ConstantsAssumption DEF Count
<1>3. Elsewhere(r)
    BY <1>1, <1>2, Counting, LostGoes DEF BrowserInv, Kinds
<1>4. peak \in [Identities -> Count] /\ MaxCount \in Nat
    BY ConstantsAssumption DEF BrowserInv, StoredInv
<1>5. avg \in 0..peak[i]
    <2>1. request[r].base <= peak[i] /\ request[r].n <= peak[i]
        BY <1>1 DEF BrowserInv, PeakInv
    <2>2. peak[i] \in Nat
        BY <1>2, <1>4 DEF Count
    <2> QED
        BY <1>2, <2>1, <2>2, AverageBetween
<1> HIDE DEF avg
<1>6. avg \in Count /\ avg <= peak[i]
    BY <1>2, <1>4, <1>5 DEF Count
<1>7. StoredInv'
    BY <1>1, <1>6 DEF BrowserInv, StoredInv
<1>8. PeakInv'
    <2>1. \A j \in Identities : /\ peak[j] <= peak'[j]
                                /\ baseline'[j] <= peak'[j]
                                /\ counts'["usage"][j].n <= peak'[j]
        BY <1>1, <1>4, <1>6 DEF BrowserInv, StoredInv, PeakInv, BaselineBelowPeak, Count
    <2> QED
        BY <1>3, <1>7, <2>1, PeakStays DEF BrowserInv
<1>9. StuckOnlyByFailure' /\ ChangesWithinMax'
    BY <1>1, <1>2, <1>3, StuckStays DEF BrowserInv, Elsewhere, ChangesWithinMax
<1> QED
    BY <1>3, <1>7, <1>8, <1>9 DEF BrowserInv, Elsewhere

\* A key whose time is over.
LEMMA ExpiryInv ==
    ASSUME BrowserInv, \/ \E k \in Kinds, i \in Identities : CounterExpires(k, i)
                       \/ \E c \in Clients : BindingExpires(c)
                       \/ \E i \in Identities : BaselineExpires(i)
    PROVE  BrowserInv'
<1>1. UNCHANGED <<request, stuck, peak>>
    BY DEF CounterExpires, BindingExpires, BaselineExpires
<1>2. RequestInv'
    BY <1>1 DEF BrowserInv, RequestInv
<1>3. /\ \/ \E k \in Kinds, i \in Identities : counts' = [counts EXCEPT ![k][i] = Zero]
         \/ UNCHANGED counts
      /\ \/ \E c \in Clients : binding' = [binding EXCEPT ![c] = None]
         \/ UNCHANGED binding
      /\ \/ \E i \in Identities : baseline' = [baseline EXCEPT ![i] = 0]
         \/ UNCHANGED baseline
    BY DEF CounterExpires, BindingExpires, BaselineExpires
<1>4. 0 \in Count /\ Zero \in [n : Count, ttl : BOOLEAN] /\ Zero.n = 0
    BY ConstantsAssumption DEF Count, Zero
<1>5. /\ counts \in [Kinds -> [Identities -> [n : Count, ttl : BOOLEAN]]]
      /\ baseline \in [Identities -> Count] /\ binding \in [Clients -> Bindings \cup {None}]
      /\ \A i \in Identities : peak[i] \in Nat
    BY DEF BrowserInv, StoredInv, Count
<1>6. /\ counts' \in [Kinds -> [Identities -> [n : Count, ttl : BOOLEAN]]]
      /\ \A k \in Kinds, i \in Identities : counts'[k][i] = counts[k][i] \/ counts'[k][i].n = 0
    <2>1. ASSUME NEW k \in Kinds, NEW i \in Identities, counts' = [counts EXCEPT ![k][i] = Zero]
          PROVE  /\ counts' \in [Kinds -> [Identities -> [n : Count, ttl : BOOLEAN]]]
                 /\ \A l \in Kinds, j \in Identities : counts'[l][j] = counts[l][j] \/ counts'[l][j].n = 0
        <3>1. counts'[k] = [counts[k] EXCEPT ![i] = Zero] /\ \A l \in Kinds : l # k => counts'[l] = counts[l]
            BY <1>5, <2>1
        <3>2. counts'[k] \in [Identities -> [n : Count, ttl : BOOLEAN]]
            BY <1>4, <1>5, <3>1
        <3>3. counts' \in [Kinds -> [Identities -> [n : Count, ttl : BOOLEAN]]]
            BY <1>5, <2>1, <3>2
        <3> QED
            BY <1>4, <1>5, <3>1, <3>3
    <2> QED
        BY <1>3, <1>5, <2>1
<1>7. /\ baseline' \in [Identities -> Count]
      /\ \A i \in Identities : baseline'[i] = baseline[i] \/ baseline'[i] = 0
    BY <1>3, <1>4, <1>5
<1>8. /\ binding' \in [Clients -> Bindings \cup {None}]
      /\ \A c \in Clients : binding'[c] = binding[c] \/ binding'[c] = None
    BY <1>3, <1>5
<1>9. StoredInv'
    BY <1>1, <1>6, <1>7, <1>8 DEF BrowserInv, StoredInv
<1>10. PeakInv'
    <2>1. BaselineBelowPeak'
        BY <1>1, <1>5, <1>7 DEF BrowserInv, PeakInv, BaselineBelowPeak
    <2>2. \A i \in Identities : counts'["usage"][i].n <= peak'[i]
        BY <1>1, <1>5, <1>6 DEF BrowserInv, PeakInv, Kinds
    <2> QED
        BY <1>1, <2>1, <2>2 DEF BrowserInv, PeakInv, At
<1>11. StuckOnlyByFailure'
    BY <1>1, <1>6 DEF BrowserInv, StuckOnlyByFailure, At
<1>12. ChangesWithinMax'
    BY <1>8 DEF BrowserInv, ChangesWithinMax
<1> QED
    BY <1>2, <1>9, <1>10, <1>11, <1>12 DEF BrowserInv

LEMMA BrowserInitInv == BrowserInit => BrowserInv
<1> SUFFICES ASSUME BrowserInit PROVE BrowserInv
    OBVIOUS
<1>1. 0 \in Count /\ Zero \in [n : Count, ttl : BOOLEAN] /\ Zero.n = 0
    BY ConstantsAssumption DEF Count, Zero
<1>2. RequestInv
    BY Rests DEF BrowserInit, RequestInv, Over
<1>3. StoredInv /\ StuckOnlyByFailure /\ ChangesWithinMax
    BY <1>1 DEF BrowserInit, StoredInv, StuckOnlyByFailure, ChangesWithinMax
<1>4. PeakInv
    BY <1>1 DEF BrowserInit, PeakInv, BaselineBelowPeak, At, IdleBrowser, Kinds
<1> QED
    BY <1>2, <1>3, <1>4 DEF BrowserInv

LEMMA BrowserNextInv == BrowserInv /\ [BrowserNext]_browserVars => BrowserInv'
<1> SUFFICES ASSUME BrowserInv, [BrowserNext]_browserVars PROVE BrowserInv'
    OBVIOUS
<1>1. ASSUME NEW r \in BrowserRequests, BeginBrowser(r) \/ Step(r) \/ Fail(r)
      PROVE  BrowserInv'
    BY <1>1, BeginBrowserInv, FailInv, CheckHeadersInv, VerifyCaptchaInv, ReadBindingInv, SaveBindingInv,
       BindClientInv, IncrementInv, SetExpiryInv, CheckClientsInv, ReadUsageInv, ReadBaselineInv,
       SaveBaselineInv DEF Step
<1>2. CASE UNCHANGED browserVars
    <2>1. RequestInv' /\ StoredInv'
        BY <1>2 DEF browserVars, BrowserInv, RequestInv, StoredInv
    <2>2. PeakInv'
        BY <1>2 DEF browserVars, BrowserInv, PeakInv, BaselineBelowPeak, At
    <2>3. StuckOnlyByFailure' /\ ChangesWithinMax'
        BY <1>2 DEF browserVars, BrowserInv, StuckOnlyByFailure, ChangesWithinMax, At
    <2> QED
        BY <2>1, <2>2, <2>3 DEF BrowserInv
<1> QED
    BY <1>1, <1>2, ExpiryInv, CrashBrowserInv DEF BrowserNext

LEMMA BrowserInvariance == BrowserSpec => []BrowserInv
BY BrowserInitInv, BrowserNextInv, PTL DEF BrowserSpec

\* A step that binds a client anew is that of a request at "bind".
LEMMA MovesBinding ==
    ASSUME BrowserInv, [BrowserNext]_browserVars, NEW c \in Clients, NEW r \in BrowserRequests,
           request'[r] # request[r], binding'[c] # None,
           binding[c] = None \/ binding'[c].origin # binding[c].origin, ~At(r, "save")
    PROVE  At(r, "bind") /\ request[r] \in Working /\ Found(r, request[r])
<1>1. binding' # binding
    OBVIOUS
<1>2. PICK s \in BrowserRequests : SaveBinding(s) \/ BindClient(s)
    <2>1. ASSUME NEW s \in BrowserRequests, BeginBrowser(s) \/ Fail(s) \/ CheckHeaders(s) \/ VerifyCaptcha(s)
                 \/ ReadBinding(s) \/ Increment(s) \/ SetExpiry(s) \/ CheckClients(s) \/ ReadUsage(s)
                 \/ ReadBaseline(s) \/ SaveBaseline(s)
          PROVE  FALSE
        BY <1>1, <2>1 DEF BeginBrowser, Fail, CheckHeaders, VerifyCaptcha, ReadBinding, Increment, CountUp,
                          SetExpiry, CheckClients, ReadUsage, ReadBaseline, SaveBaseline, stored
    <2>2. ~UNCHANGED request
        OBVIOUS
    <2>3. ~\E dead \in SUBSET BrowserRequests : CrashBrowser(dead)
        BY <1>1 DEF CrashBrowser
    <2> QED
        BY <2>1, <2>2, <2>3 DEF BrowserNext, Step, CounterExpires, BindingExpires, BaselineExpires, browserVars
<1>3. At(s, "save") \/ At(s, "bind")
    BY <1>2 DEF SaveBinding, BindClient
<1>4. request[s] \in Working /\ Found(s, request[s])
    BY <1>3, WaitsWork DEF BrowserInv, Waits
<1>5. s = r
    <2>1. Elsewhere(s)
        <3>1. CASE SaveBinding(s)
            BY <1>4, <3>1, AfterOriginGoes, LostGoes DEF SaveBinding, BrowserInv, At, Found
        <3>2. CASE BindClient(s)
            BY <1>4, <3>2, Counting, LostGoes DEF BindClient, BrowserInv, At, Found, Kinds
        <3> QED
            BY <1>2, <3>1, <3>2
    <2> QED
        BY <2>1 DEF Elsewhere
<1> QED
    BY <1>3, <1>4, <1>5

(***************************************************************************)
(* Theorems about browsers.                                                *)
(***************************************************************************)
\* The keys in Redis and the locals of every request keep their types
\* (BrowserTypeOK).
THEOREM BrowserTypeCorrect == BrowserSpec => []BrowserTypeOK
<1>1. BrowserInv => BrowserTypeOK
    <2> SUFFICES ASSUME BrowserInv PROVE BrowserTypeOK
        OBVIOUS
    <2>1. ASSUME NEW r \in BrowserRequests
          PROVE  \/ request[r] = IdleBrowser \/ request[r] \in {BrowserEnded("accepted"), BrowserEnded("refused")}
                 \/ /\ request[r].at \in Waits /\ request[r].kind \in Kinds
                    /\ [who |-> request[r].who, cfg |-> request[r].cfg, data |-> request[r].data]
                          \in BrowserAttempts[r]
                    /\ request[r].was \in Bindings \cup {None}
                    /\ request[r].n \in Count /\ request[r].base \in Count
        <3>1. request[r] \in Over \cup Working /\ (request[r] \in Working => Found(r, request[r]))
            BY DEF BrowserInv, RequestInv
        <3>2. CASE request[r] \in Over
            BY <3>2 DEF Over
        <3>3. CASE request[r] \in Working
            BY <3>1, <3>3 DEF Working, Found
        <3> QED
            BY <3>1, <3>2, <3>3
    <2> QED
        BY <2>1 DEF BrowserTypeOK, BrowserInv, StoredInv
<1> QED
    BY <1>1, BrowserInvariance, PTL

\* However the reads and writes of the usage's baseline are interleaved, it stays
\* within the highest usage of an hour (BaselineBelowPeak): an average lies
\* between what it averages, and both were read from keys within the peak.
THEOREM BaselineStaysBelow == BrowserSpec => []BaselineBelowPeak
<1>1. BrowserInv => BaselineBelowPeak
    BY DEF BrowserInv, PeakInv
<1> QED
    BY <1>1, BrowserInvariance, PTL

\* A counter is left without an expiry only by a request that ended before its
\* EXPIRE took effect, because a command failed, the answer of the INCR was lost
\* or the server died or dropped it, or whose EXPIRE is still to come
\* (StuckOnlyByFailure).
THEOREM CountersFall == BrowserSpec => []StuckOnlyByFailure
<1>1. BrowserInv => StuckOnlyByFailure
    BY DEF BrowserInv
<1> QED
    BY <1>1, BrowserInvariance, PTL

\* The changes counted in a binding stay within the largest maximum a developer
\* ever set (ChangesWithinMax).
THEOREM ChangesAreLimited == BrowserSpec => []ChangesWithinMax
<1>1. BrowserInv => ChangesWithinMax
    BY DEF BrowserInv
<1> QED
    BY <1>1, BrowserInvariance, PTL

\* A client is bound, or bound to another origin, only by a request whose
\* configuration binds, whose headers were good and whose change had room
\* (MovesOnlyIfAllowed).
THEOREM MovesAreAllowed == BrowserSpec => MovesOnlyIfAllowed
<1>1. BrowserInv /\ [BrowserNext]_browserVars =>
        [\A c \in Clients : \A r \in BrowserRequests :
          (Busy(r) /\ request'[r] # request[r] /\ request[r].who = c /\ binding'[c] # None
             /\ (binding[c] = None \/ binding'[c].origin # binding[c].origin)
             /\ ~At(r, "save")) =>
                /\ request[r].cfg.bind
                /\ GoodHeaders(request[r].cfg, request[r].data) /\ request[r].data.agent
                /\ request[r].was # None => request[r].cfg.maxChanges > request[r].was.changes]_browserVars
    <2> SUFFICES ASSUME BrowserInv, [BrowserNext]_browserVars, NEW c \in Clients, NEW r \in BrowserRequests,
                        request'[r] # request[r], binding'[c] # None,
                        binding[c] = None \/ binding'[c].origin # binding[c].origin, ~At(r, "save")
                 PROVE  /\ request[r].cfg.bind
                        /\ GoodHeaders(request[r].cfg, request[r].data) /\ request[r].data.agent
                        /\ request[r].was # None => request[r].cfg.maxChanges > request[r].was.changes
        OBVIOUS
    <2>1. At(r, "bind") /\ request[r] \in Working /\ Found(r, request[r])
        BY MovesBinding
    <2>2. request[r].was # None => request[r].was.changes \in Nat /\ request[r].cfg.maxChanges \in Nat
        BY <2>1 DEF Working, Bindings, BrowserIntegrityConfig
    <2> QED
        BY <2>1, <2>2 DEF Found, At
<1> QED
    BY <1>1, BrowserInvariance, PTL DEF BrowserSpec, MovesOnlyIfAllowed
===============================================================================
