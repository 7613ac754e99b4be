-------------------------- MODULE BrowserIntegrity --------------------------
(***************************************************************************)
(* How a browser's attestation is judged: validate_browser_integrity       *)
(* (src/vaultless-core/src/models/app_model/integrity/browser.rs) and the  *)
(* verification of CAPTCHA tokens (captcha.rs).                            *)
(*                                                                         *)
(* A step is one command to Redis or the answer of a CAPTCHA provider;     *)
(* each may fail, with or without its effect. What is kept in Redis is the *)
(* binding of each client to an origin, three counters of an hour per      *)
(* identity, and the baseline of its usage. The identity is the client, or *)
(* the address of a guest.                                                 *)
(*                                                                         *)
(* A request shows the headers of its browser. Nothing in the source fills *)
(* those fields yet (types.rs:76); what the middleware it names would put  *)
(* there is an input here, and so is the configuration, which the          *)
(* developer may change between two requests.                              *)
(***************************************************************************)
EXTENDS Integers, FiniteSets

CONSTANTS
    Clients,     \* registered clients
    Addresses,   \* addresses of guests
    Origins,     \* the origins that browsers send
    Domains,     \* the domains of wildcard patterns "*.domain"
    EndsIn,      \* pairs <<origin, domain>>: the text of the origin ends with the domain
    BrowserRequests,  \* requests under way at once
    BrowserAttempts,  \* who sends what, under which configuration of the application
    MaxCount,    \* bound: the largest count of an hour
    MaxStuck,    \* bound: how many counters may be left without an expiry
    None

Identities == Clients \cup Addresses
Limits == {None} \cup Nat
Captchas == {"off", "turnstile", "hcaptcha", "recaptcha", "other", "secretless"}

\* The settings with their defaults. The maximum of registrations and that of
\* clients have none, and are then not looked at.
BrowserIntegrityConfig ==
    [allowed : SUBSET (Origins \cup Domains), needsOrigin : BOOLEAN, needsReferer : BOOLEAN,
     captcha : Captchas, bind : BOOLEAN, maxChanges : Nat, maxRequests : Nat,
     maxRegistrations : Limits, maxClients : Limits, watch : BOOLEAN]

\* The referer begins with the origin, or not, or is missing.
BrowserData ==
    [origin : Origins \cup {None}, referer : {"fits", "differs", None}, agent : BOOLEAN,
     token : BOOLEAN]

ASSUME ConstantsAssumption ==
    /\ Origins \cap Domains = {} /\ EndsIn \subseteq Origins \X Domains
    /\ Clients \cap Addresses = {}
    /\ None \notin Origins \cup Nat
    /\ \A r \in BrowserRequests :
          BrowserAttempts[r] \subseteq [who : Identities, cfg : BrowserIntegrityConfig, data : BrowserData]
    /\ MaxCount \in Nat /\ MaxStuck \in Nat

ValidOrigin(o, allowed) ==
    \/ allowed = {} \/ o \in allowed
    \/ \E d \in Domains \cap allowed : <<o, d>> \in EndsIn

-------------------------------------------------------------------------------
VARIABLES
    binding,    \* the origin a client is bound to and the changes counted, or None
    counts,     \* the counters of each identity
    baseline,   \* the usage baseline of each identity
    request,    \* what each request does
    \* history
    stuck,      \* counters whose first request ended before its EXPIRE took effect
    peak        \* the highest usage of an hour that each identity had

browserVars == <<binding, counts, baseline, request, stuck, peak>>
stored == <<binding, counts, baseline, stuck, peak>>

Kinds == {"requests", "registrations", "usage"}
Zero == [n |-> 0, ttl |-> FALSE]   \* no key
Count == 0..MaxCount
Bindings == [origin : Origins, changes : Nat]

IdleBrowser == [at |-> "idle"]
BrowserEnded(v) == [at |-> "end", verdict |-> v]
Waits == {"origin", "captcha", "binding", "save", "bind", "count", "expire", "clients",
          "current", "baseline", "average"}

BrowserTypeOK ==
    /\ binding \in [Clients -> Bindings \cup {None}]
    /\ counts \in [Kinds -> [Identities -> [n : Count, ttl : BOOLEAN]]]
    /\ baseline \in [Identities -> Count]
    /\ \A r \in BrowserRequests :
          \/ request[r] = IdleBrowser \/ request[r] \in {BrowserEnded("accepted"), BrowserEnded("refused")}
          \/ /\ request[r].at \in Waits /\ request[r].kind \in Kinds
             /\ [who |-> request[r].who, cfg |-> request[r].cfg, data |-> request[r].data]
                   \in BrowserAttempts[r]
             /\ request[r].was \in Bindings \cup {None} /\ request[r].n \in Count /\ request[r].base \in Count
    /\ stuck \subseteq Kinds \X Identities
    /\ peak \in [Identities -> Count]

BrowserInit ==
    /\ binding = [c \in Clients |-> None]
    /\ counts = [k \in Kinds |-> [i \in Identities |-> Zero]]
    /\ baseline = [i \in Identities |-> 0]
    /\ request = [r \in BrowserRequests |-> IdleBrowser]
    /\ stuck = {} /\ peak = [i \in Identities |-> 0]

Busy(r) == request[r].at \notin {"idle", "end"}
At(r, at) == request[r].at = at
GoOn(r, at) == request' = [request EXCEPT ![r].at = at]
Counts(r, kind) ==
    request' = [request EXCEPT ![r].at = "count", ![r].kind = kind,
                               ![r].was = None, ![r].n = 0, ![r].base = 0]
EndBrowser(r, v) == request' = [request EXCEPT ![r] = BrowserEnded(v)]

BeginBrowser(r) ==
    /\ ~Busy(r)
    /\ \E a \in BrowserAttempts[r] :
          request' = [request EXCEPT ![r] =
              [at |-> "origin", kind |-> "requests", who |-> a.who, cfg |-> a.cfg, data |-> a.data,
               was |-> None, n |-> 0, base |-> 0]]
    /\ UNCHANGED stored

(***************************************************************************)
(* What ends a request early. A command or a provider fails, or the answer *)
(* of a command that took effect is lost (in the steps below), or a server *)
(* dies with its requests, or drops one whose client is gone. A counter is *)
(* then left without an expiry by the request that was to give it one.     *)
(***************************************************************************)
Untimed(rs) ==
    /\ stuck' = stuck \cup {<<request[r].kind, request[r].who>> : r \in rs}
    /\ Cardinality(stuck') <= MaxStuck
Lost(r) == EndBrowser(r, "refused")

Fail(r) ==
    /\ Busy(r) /\ ~At(r, "origin") /\ EndBrowser(r, "refused")
    /\ Untimed({r} \cap {q \in BrowserRequests : At(q, "expire")})
    /\ UNCHANGED <<binding, counts, baseline, peak>>

CrashBrowser(dead) ==
    /\ request' = [r \in BrowserRequests |-> IF r \in dead THEN IdleBrowser ELSE request[r]]
    /\ Untimed({r \in dead : At(r, "expire")})
    /\ UNCHANGED <<binding, counts, baseline, peak>>

(***************************************************************************)
(* The headers, the CAPTCHA and the binding. Only a client is bound. A     *)
(* request from another origin counts as a change each time it is made,    *)
(* and is saved; binding anew then takes the count back to zero.           *)
(***************************************************************************)
GoodHeaders(cfg, data) ==
    cfg.needsOrigin =>
        /\ data.origin # None /\ ValidOrigin(data.origin, cfg.allowed)
        /\ cfg.needsReferer => data.referer = "fits"

AfterCaptcha(r, d) ==
    IF d.who \notin Clients THEN Counts(r, "requests")
    ELSE IF d.data.origin = None THEN EndBrowser(r, "refused") ELSE GoOn(r, "binding")

CheckHeaders(r) ==
    /\ At(r, "origin")
    /\ LET d == request[r] IN
       IF ~GoodHeaders(d.cfg, d.data) THEN EndBrowser(r, "refused")
       ELSE IF d.cfg.captcha = "off" THEN AfterCaptcha(r, d)
       ELSE IF ~d.data.token \/ d.cfg.captcha \in {"other", "secretless"} THEN EndBrowser(r, "refused")
       ELSE GoOn(r, "captcha")
    /\ UNCHANGED stored

\* The provider finds the token good; every other answer is a refusal.
VerifyCaptcha(r) ==
    /\ At(r, "captcha") /\ AfterCaptcha(r, request[r])
    /\ UNCHANGED stored

AfterOrigin(r) ==
    IF ~request[r].cfg.bind THEN Counts(r, "requests")
    ELSE IF request[r].data.agent THEN GoOn(r, "bind") ELSE EndBrowser(r, "refused")

ReadBindingLeniently(r) ==   \* mutant: the changes are compared before this one is counted
    /\ At(r, "binding")
    /\ LET was == binding[request[r].who] IN
       IF was = None \/ was.origin = request[r].data.origin THEN AfterOrigin(r)
       ELSE IF was.changes > request[r].cfg.maxChanges THEN EndBrowser(r, "refused")
       ELSE request' = [request EXCEPT ![r].at = "save", ![r].was = was]
    /\ UNCHANGED stored

ReadBinding(r) ==
    /\ At(r, "binding")
    /\ LET was == binding[request[r].who] IN
       IF was = None \/ was.origin = request[r].data.origin THEN AfterOrigin(r)
       ELSE IF was.changes + 1 > request[r].cfg.maxChanges THEN EndBrowser(r, "refused")
       ELSE request' = [request EXCEPT ![r].at = "save", ![r].was = was]
    /\ UNCHANGED stored

SaveBinding(r) ==
    /\ At(r, "save")
    /\ binding' = [binding EXCEPT ![request[r].who] = [request[r].was EXCEPT !.changes = @ + 1]]
    /\ AfterOrigin(r) \/ Lost(r)
    /\ UNCHANGED <<counts, baseline, stuck, peak>>

BindClient(r) ==
    /\ At(r, "bind")
    /\ binding' = [binding EXCEPT ![request[r].who] = [origin |-> request[r].data.origin, changes |-> 0]]
    /\ Counts(r, "requests") \/ Lost(r)
    /\ UNCHANGED <<counts, baseline, stuck, peak>>

(***************************************************************************)
(* The counters of the hour. INCR makes the key, EXPIRE gives it its hour. *)
(***************************************************************************)
LimitOf(cfg, kind) ==
    CASE kind = "requests" -> cfg.maxRequests
      [] kind = "registrations" -> cfg.maxRegistrations
      [] kind = "usage" -> None

Watches(r) == IF request[r].cfg.watch THEN GoOn(r, "current") ELSE Counts(r, "usage")
AfterRegistrations(r) ==
    IF request[r].cfg.maxClients # None THEN GoOn(r, "clients") ELSE Watches(r)

AfterCount(r, n) ==
    LET kind == request[r].kind
        cfg == request[r].cfg IN
    IF LimitOf(cfg, kind) # None /\ n > LimitOf(cfg, kind) THEN EndBrowser(r, "refused")
    ELSE IF kind = "usage" THEN EndBrowser(r, "accepted")
    ELSE IF kind = "requests" /\ cfg.maxRegistrations # None THEN Counts(r, "registrations")
    ELSE AfterRegistrations(r)

CountUp(r, n) ==
    LET k == request[r].kind
        i == request[r].who IN
    /\ At(r, "count") /\ n <= MaxCount
    /\ counts' = [counts EXCEPT ![k][i].n = n]
    /\ peak' = IF k = "usage" /\ n > peak[i] THEN [peak EXCEPT ![i] = n] ELSE peak
    /\ UNCHANGED <<binding, baseline>>

Counted(r) == counts[request[r].kind][request[r].who].n + 1

IncrementOnce(r) ==   \* mutant: a key is given its hour only by the request that is over the limit
    LET n == Counted(r) IN
    /\ CountUp(r, n) /\ UNCHANGED stuck
    /\ IF n = LimitOf(request[r].cfg, request[r].kind)
         THEN request' = [request EXCEPT ![r].at = "expire", ![r].n = n] ELSE AfterCount(r, n)

\* The answer tells the request whether the key is new. When it is lost nobody knows.
Increment(r) ==
    LET n == Counted(r) IN
    /\ CountUp(r, n)
    /\ \/ /\ IF n = 1 THEN request' = [request EXCEPT ![r].at = "expire", ![r].n = n]
             ELSE AfterCount(r, n)
          /\ UNCHANGED stuck
       \/ Lost(r) /\ Untimed(IF n = 1 THEN {r} ELSE {})

\* EXPIRE of a key that is gone does nothing.
SetExpiry(r) ==
    /\ At(r, "expire")
    /\ LET k == request[r].kind
           i == request[r].who
       IN  counts' = [counts EXCEPT ![k][i].ttl = counts[k][i].n > 0]
    /\ AfterCount(r, request[r].n) \/ Lost(r)
    /\ UNCHANGED <<binding, baseline, stuck, peak>>

\* SCARD of a set that nothing fills: register_client_identity is not called.
CheckClients(r) ==
    /\ At(r, "clients")
    /\ IF 0 >= request[r].cfg.maxClients THEN EndBrowser(r, "refused") ELSE Watches(r)
    /\ UNCHANGED stored

(***************************************************************************)
(* The baseline of the usage. A failed GET is taken as zero; the alert     *)
(* itself is only a line of the log.                                       *)
(***************************************************************************)
AverageUp(base, current) ==   \* mutant: rounds up, and counts the request to come
    IF base = 0 THEN current + 1 ELSE (base * 9 + current + 9) \div 10
Average(base, current) == IF base = 0 THEN current ELSE (base * 9 + current) \div 10

ReadUsage(r) ==
    /\ At(r, "current")
    /\ \E n \in {0, counts["usage"][request[r].who].n} :
          request' = [request EXCEPT ![r].at = "baseline", ![r].n = n]
    /\ UNCHANGED stored

ReadBaseline(r) ==
    /\ At(r, "baseline")
    /\ \E b \in {0, baseline[request[r].who]} :
          IF request[r].n > 0 THEN request' = [request EXCEPT ![r].at = "average", ![r].base = b]
          ELSE Counts(r, "usage")
    /\ UNCHANGED stored

SaveBaseline(r) ==
    /\ At(r, "average")
    /\ baseline' = [baseline EXCEPT ![request[r].who] = Average(request[r].base, request[r].n)]
    /\ Counts(r, "usage") \/ Lost(r)
    /\ UNCHANGED <<binding, counts, stuck, peak>>

(***************************************************************************)
(* Redis removes keys whose time is over.                                  *)
(***************************************************************************)
CounterExpires(k, i) ==
    /\ counts[k][i].ttl /\ counts' = [counts EXCEPT ![k][i] = Zero]
    /\ UNCHANGED <<binding, baseline, request, stuck, peak>>

BindingExpires(c) ==
    /\ binding[c] # None /\ binding' = [binding EXCEPT ![c] = None]
    /\ UNCHANGED <<counts, baseline, request, stuck, peak>>

BaselineExpires(i) ==
    /\ baseline[i] # 0 /\ baseline' = [baseline EXCEPT ![i] = 0]
    /\ UNCHANGED <<binding, counts, request, stuck, peak>>

Step(r) ==
    \/ CheckHeaders(r) \/ VerifyCaptcha(r) \/ ReadBinding(r) \/ SaveBinding(r) \/ BindClient(r)
    \/ Increment(r) \/ SetExpiry(r) \/ CheckClients(r)
    \/ ReadUsage(r) \/ ReadBaseline(r) \/ SaveBaseline(r)

BrowserNext ==
    \/ \E r \in BrowserRequests : BeginBrowser(r) \/ Step(r) \/ Fail(r)
    \/ \E dead \in SUBSET {r \in BrowserRequests : Busy(r)} : CrashBrowser(dead)
    \/ \E k \in Kinds, i \in Identities : CounterExpires(k, i)
    \/ \E c \in Clients : BindingExpires(c)
    \/ \E i \in Identities : BaselineExpires(i)

BrowserSpec == BrowserInit /\ [][BrowserNext]_browserVars

-------------------------------------------------------------------------------
(***************************************************************************)
(* Properties.                                                             *)
(***************************************************************************)

(***************************************************************************)
(* A client bound to an origin is bound to another one only by a request   *)
(* that may: its configuration binds, it allows the new origin when one is *)
(* required, and it leaves room for one more change, unless the request    *)
(* had found no binding or one to its own origin. Under a maximum of zero  *)
(* a bound client keeps its origin, but for requests under way together.   *)
(***************************************************************************)
MovesOnlyIfAllowed ==
    [][\A c \in Clients : \A r \in BrowserRequests :
          (Busy(r) /\ request'[r] # request[r] /\ request[r].who = c /\ binding'[c] # None
             /\ (binding[c] = None \/ binding'[c].origin # binding[c].origin)
             /\ ~At(r, "save")) =>
                /\ request[r].cfg.bind
                /\ GoodHeaders(request[r].cfg, request[r].data) /\ request[r].data.agent
                /\ request[r].was # None => request[r].cfg.maxChanges > request[r].was.changes]_browserVars

(***************************************************************************)
(* The changes counted in a binding stay within the largest maximum that   *)
(* was ever set: a change that is over the maximum is refused before it is *)
(* saved, and two that are counted at once are counted as one.             *)
(***************************************************************************)
ChangesWithinMax ==
    \A c \in Clients : binding[c] # None =>
        \E r \in BrowserRequests : \E a \in BrowserAttempts[r] : binding[c].changes <= a.cfg.maxChanges

(***************************************************************************)
(* A counter without an expiry never falls again, and its identity is      *)
(* refused for good once it is over the limit. That happens only when the  *)
(* request that made the counter ended before its EXPIRE took effect (it   *)
(* failed, the answer of the INCR was lost, the server died or dropped the *)
(* request), or while that EXPIRE is still to come.                        *)
(***************************************************************************)
StuckOnlyByFailure ==
    \A k \in Kinds, i \in Identities : counts[k][i].n > 0 =>
        \/ counts[k][i].ttl \/ <<k, i>> \in stuck
        \/ \E r \in BrowserRequests : At(r, "expire") /\ request[r].kind = k /\ request[r].who = i

(***************************************************************************)
(* The baseline never exceeds the highest usage of an hour, whatever old   *)
(* values concurrent requests average and write over each other: a usage   *)
(* within it is never held for a spike.                                    *)
(***************************************************************************)
BaselineBelowPeak == \A i \in Identities : baseline[i] <= peak[i]
===============================================================================
