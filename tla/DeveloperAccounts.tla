--------------------------- MODULE DeveloperAccounts ---------------------------
(***************************************************************************)
(* The account of a developer up to the moment a login may open a session: *)
(* registration, e-mail verification, password reset, and the counter of   *)
(* failed logins of one address (src/vaultless-core/src/models/user.rs,    *)
(* src/vaultless-api/src/handlers/developer/user_auth.rs). The sessions    *)
(* and refresh tokens that follow are in TokenService.                     *)
(*                                                                         *)
(* A random token is a number; a string made from it is the number with    *)
(* how often it was hashed. login_with_transaction holds the row's lock,   *)
(* so that its transaction is one step. Mails are not sent yet: a token    *)
(* that the code logs for them is told. No code deactivates an account.    *)
(***************************************************************************)
EXTENDS Integers, FiniteSets

CONSTANTS
    Logins,     \* logins under way at once, all from one address
    Limit,      \* failures that lock the address out (5)
    MaxTokens,  \* bound: tokens generated
    MaxFaults,  \* bound: failures of Redis or PostgreSQL, and crashes
    None

Tokens == 1..MaxTokens
Strings == [token : Tokens, hashed : 0..2]
Plain(t) == [token |-> t, hashed |-> 0]
hash_content(s) == [s EXCEPT !.hashed = @ + 1]

\* A token as the row has it, and whether its time is not over.
Stored == [string : Strings, valid : BOOLEAN]

ASSUME ConstantsAssumption ==
    /\ IsFiniteSet(Logins) /\ Limit \in Nat \ {0} /\ MaxTokens \in Nat /\ MaxFaults \in Nat
    /\ None \notin Stored

VARIABLES
    made,       \* the account is registered
    verified,   \* its e-mail address is verified
    vtoken,     \* email_verification_token and whether its day is not over
    rtoken,     \* password_reset_token and whether its hour is not over
    resending,  \* a request for another verification mail has read the row
    minted,     \* how many tokens were generated
    told,       \* the strings somebody was told
    login,      \* what each login does
    count,      \* the address's counter; 0: no key
    timed,      \* the counter has its 15 minutes
    faults,
    \* history
    works,      \* how often each token changed the account
    dead,       \* tokens that were used or replaced, or whose time is over
    failures    \* passwords refused since the counter was last cleared or expired

account == <<made, verified, vtoken, rtoken, resending, minted, told, works, dead>>
lockout == <<login, count, timed, failures>>
vars == <<account, lockout, faults>>

LoginSteps == {"idle", "check", "clear", "track", "expire"}

\* An unverified account has a verification token, whatever it is good for,
\* and only a counter that is there has a time to live.
TypeOK ==
    /\ made \in BOOLEAN /\ verified \in BOOLEAN /\ resending \in BOOLEAN
    /\ vtoken \in Stored \cup {None} /\ rtoken \in Stored \cup {None}
    /\ made /\ ~verified => vtoken # None
    /\ ~made => ~verified /\ vtoken = None /\ rtoken = None
    /\ minted \in 0..MaxTokens /\ told \subseteq Strings
    /\ login \in [Logins -> LoginSteps] /\ count \in Nat /\ timed \in BOOLEAN
    /\ timed => count > 0
    /\ faults \in 0..MaxFaults
    /\ works \in [Tokens -> Nat] /\ dead \subseteq Tokens /\ failures \in Nat

Init ==
    /\ made = FALSE /\ verified = FALSE /\ vtoken = None /\ rtoken = None
    /\ resending = FALSE /\ minted = 0 /\ told = {}
    /\ login = [l \in Logins |-> "idle"] /\ count = 0 /\ timed = FALSE /\ faults = 0
    /\ works = [t \in Tokens |-> 0] /\ dead = {} /\ failures = 0

Fault == faults < MaxFaults /\ faults' = faults + 1
NoFault == UNCHANGED faults

TokenOf(stored) == IF stored = None THEN {} ELSE {stored.string.token}
Fresh(s) == [string |-> s, valid |-> TRUE]
generate_token(t) == minted < MaxTokens /\ t = minted + 1 /\ minted' = t
Works(t) == works' = [works EXCEPT ![t] = @ + 1] /\ dead' = dead \cup {t}

(***************************************************************************)
(* Registration and e-mail verification. The token of a registration is    *)
(* told to nobody.                                                         *)
(***************************************************************************)
Register ==
    /\ ~made /\ made' = TRUE
    /\ \E t \in Tokens : generate_token(t) /\ vtoken' = Fresh(hash_content(Plain(t)))
    /\ NoFault /\ UNCHANGED lockout /\ UNCHANGED <<verified, rtoken, resending, told, works, dead>>

ResendRead ==
    /\ made /\ ~verified /\ ~resending /\ resending' = TRUE
    /\ NoFault /\ UNCHANGED lockout
    /\ UNCHANGED <<made, verified, vtoken, rtoken, minted, told, works, dead>>

\* By id: the account may be verified by now.
ResendWrite ==
    /\ resending /\ resending' = FALSE
    /\ \/ /\ NoFault
          /\ \E t \in Tokens :
                /\ generate_token(t) /\ vtoken' = Fresh(hash_content(Plain(t)))
                /\ told' = told \cup {Plain(t)}
          /\ dead' = dead \cup TokenOf(vtoken)
       \/ Fault /\ UNCHANGED <<minted, vtoken, told, dead>>
    /\ UNCHANGED lockout /\ UNCHANGED <<made, verified, rtoken, works>>

Accepts(stored, s) == stored # None /\ stored.valid /\ stored.string = hash_content(s)

VerifyEmail ==
    /\ \E s \in told : Accepts(vtoken, s) /\ Works(s.token)
    /\ verified' = TRUE /\ vtoken' = None
    /\ NoFault /\ UNCHANGED lockout
    /\ UNCHANGED <<made, rtoken, resending, minted, told>>

(***************************************************************************)
(* Password reset.                                                         *)
(***************************************************************************)
RequestReset ==
    /\ made
    /\ \E t \in Tokens :
          /\ generate_token(t) /\ rtoken' = Fresh(hash_content(Plain(t)))
          /\ told' = told \cup {Plain(t)}
    /\ dead' = dead \cup TokenOf(rtoken)
    /\ NoFault /\ UNCHANGED lockout /\ UNCHANGED <<made, verified, vtoken, resending, works>>

ResetPasswordKeeps ==   \* mutant: the token stays
    /\ \E s \in told : Accepts(rtoken, s) /\ Works(s.token)
    /\ NoFault /\ UNCHANGED lockout
    /\ UNCHANGED <<made, verified, vtoken, rtoken, resending, minted, told>>

ResetPassword ==
    /\ \E s \in told : Accepts(rtoken, s) /\ Works(s.token)
    /\ rtoken' = None
    /\ NoFault /\ UNCHANGED lockout
    /\ UNCHANGED <<made, verified, vtoken, resending, minted, told>>

TokenExpires ==
    /\ \/ /\ vtoken # None /\ vtoken.valid /\ vtoken' = [vtoken EXCEPT !.valid = FALSE]
          /\ dead' = dead \cup TokenOf(vtoken) /\ UNCHANGED rtoken
       \/ /\ rtoken # None /\ rtoken.valid /\ rtoken' = [rtoken EXCEPT !.valid = FALSE]
          /\ dead' = dead \cup TokenOf(rtoken) /\ UNCHANGED vtoken
    /\ NoFault /\ UNCHANGED lockout /\ UNCHANGED <<made, verified, resending, minted, told, works>>

(***************************************************************************)
(* A login: the counter is asked, the password is checked, and the counter *)
(* is cleared or incremented. What Redis fails to do is ignored.           *)
(***************************************************************************)
Goto(l, at) == login' = [login EXCEPT ![l] = at]
At(l, at) == login[l] = at

IsLimitedAbove(n) == n > Limit   \* mutant: off by one
is_rate_limited(n) == n >= Limit

AskLimit(l) ==
    /\ At(l, "idle") /\ Goto(l, "check")
    /\ (NoFault /\ ~is_rate_limited(count)) \/ (Fault /\ is_rate_limited(count))
    /\ UNCHANGED account /\ UNCHANGED <<count, timed, failures>>

RefusePassword(l) ==
    /\ At(l, "check") /\ Goto(l, "track") /\ failures' = failures + 1
    /\ NoFault /\ UNCHANGED account /\ UNCHANGED <<count, timed>>

FailCheck(l) ==
    /\ At(l, "check") /\ Goto(l, "track") /\ Fault
    /\ UNCHANGED account /\ UNCHANGED <<count, timed, failures>>

\* Without a valid token one is stored as it is, not as its hash; what the
\* link shows is what the row held before.
RefuseUnverified(l) ==
    /\ At(l, "check") /\ made /\ ~verified /\ Goto(l, "idle")
    /\ told' = told \cup {vtoken.string}
    /\ \/ vtoken.valid /\ UNCHANGED <<vtoken, minted, dead>>
       \/ /\ ~vtoken.valid /\ dead' = dead \cup TokenOf(vtoken)
          /\ \E t \in Tokens : generate_token(t) /\ vtoken' = Fresh(Plain(t))
    /\ NoFault /\ UNCHANGED <<made, verified, rtoken, resending, works, count, timed, failures>>

AcceptPassword(l) ==
    /\ At(l, "check") /\ made /\ verified /\ Goto(l, "clear")
    /\ NoFault /\ UNCHANGED account /\ UNCHANGED <<count, timed, failures>>

Clear(l) ==
    /\ At(l, "clear") /\ Goto(l, "idle")
    /\ \/ NoFault /\ count' = 0 /\ timed' = FALSE /\ failures' = 0
       \/ Fault /\ UNCHANGED <<count, timed, failures>>
    /\ UNCHANGED account

TrackUntimed(l) ==   \* mutant: the counter gets no time to live
    /\ At(l, "track") /\ Goto(l, "idle")
    /\ \/ NoFault /\ count' = count + 1
       \/ Fault /\ UNCHANGED count
    /\ UNCHANGED account /\ UNCHANGED <<timed, failures>>

\* When the answer of the INCR is lost, so is the EXPIRE of the counter it made.
Track(l) ==
    /\ At(l, "track")
    /\ \/ NoFault /\ count' = count + 1 /\ Goto(l, IF count = 0 THEN "expire" ELSE "idle")
       \/ Fault /\ count' \in {count, count + 1} /\ Goto(l, "idle")
    /\ UNCHANGED account /\ UNCHANGED <<timed, failures>>

SetExpiry(l) ==
    /\ At(l, "expire") /\ Goto(l, "idle")
    /\ \/ NoFault /\ timed' = (count > 0)
       \/ Fault /\ UNCHANGED timed
    /\ UNCHANGED account /\ UNCHANGED <<count, failures>>

CounterExpires ==
    /\ timed /\ timed' = FALSE /\ count' = 0 /\ failures' = 0
    /\ NoFault /\ UNCHANGED account /\ UNCHANGED login

\* The server dies with its requests, or drops one whose client is gone.
Crash ==
    /\ Fault
    /\ \E dropped \in SUBSET Logins :
          login' = [l \in Logins |-> IF l \in dropped THEN "idle" ELSE login[l]]
    /\ resending' \in {resending, FALSE}
    /\ UNCHANGED <<made, verified, vtoken, rtoken, minted, told, works, dead, count, timed, failures>>

Proceed(l) ==
    \/ RefusePassword(l) \/ FailCheck(l) \/ RefuseUnverified(l) \/ AcceptPassword(l)
    \/ Clear(l) \/ Track(l) \/ SetExpiry(l)

Manage ==
    \/ Register \/ ResendRead \/ ResendWrite \/ VerifyEmail
    \/ RequestReset \/ ResetPassword \/ TokenExpires

Next ==
    \/ Manage
    \/ \E l \in Logins : AskLimit(l) \/ Proceed(l)
    \/ CounterExpires \/ Crash

\* A login that has begun goes on, and Redis drops a key whose time is over.
Spec ==
    /\ Init /\ [][Next]_vars
    /\ \A l \in Logins : WF_vars(Proceed(l))
    /\ WF_vars(CounterExpires)

-------------------------------------------------------------------------------
(***************************************************************************)
(* A token changes the account at most once, and only while it is the last *)
(* of its kind and in its time, whichever requests and logins overlap.     *)
(***************************************************************************)
TokensWorkOnce == [][\A t \in Tokens : works'[t] # works[t] => t \notin dead]_vars

(***************************************************************************)
(* While nothing fails, an address hears at most the limit of refusals     *)
(* before it is locked out, and one more for each further login that was   *)
(* under way: the counter is asked before the password is checked and      *)
(* incremented after it.                                                   *)
(***************************************************************************)
FailuresBounded == faults = 0 => failures < Limit + Cardinality(Logins)

(***************************************************************************)
(* A locked address is not locked for ever unless a command failed, or the *)
(* server crashed or dropped the request between the INCR and the EXPIRE:  *)
(* a login that succeeds clears the counter, but the lock lets no login    *)
(* get that far.                                                           *)
(***************************************************************************)
LockEnds == count >= Limit ~> (count < Limit \/ faults > 0)

(***************************************************************************)
(* What a login says of an unverified account: its link has been resent,   *)
(* so some string verifies the account while its token is valid            *)
(* (user_auth.rs:159). A token that a login stored is accepted by none.    *)
(***************************************************************************)
VerificationPossible ==
    made /\ ~verified /\ vtoken.valid => \E s \in Strings : Accepts(vtoken, s)
===============================================================================
