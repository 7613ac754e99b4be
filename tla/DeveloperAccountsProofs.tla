------------------------ MODULE DeveloperAccountsProofs ------------------------
(***************************************************************************)
(* For any number of tokens, logins and failures: a token of               *)
(* DeveloperAccounts works at most once, and an address hears a bounded    *)
(* number of refusals before it is locked out.                             *)
(*                                                                         *)
(* The first rests on Live: what the row has is not dead while it is       *)
(* valid, and the two tokens of the row were generated apart. The second   *)
(* rests on Counted: a refusal that the counter does not have yet is of a  *)
(* login under way, and these were let in below the limit.                 *)
(***************************************************************************)
EXTENDS DeveloperAccounts, FiniteSetTheorems, TLAPS

\* Only an account that is there has a request for another mail.
Resent == resending => made

Live ==
    /\ dead \subseteq 1..minted
    /\ vtoken # None => /\ vtoken.string.token <= minted
                        /\ vtoken.valid => vtoken.string.token \notin dead
    /\ rtoken # None => /\ rtoken.string.token <= minted
                        /\ rtoken.valid => rtoken.string.token \notin dead
    /\ vtoken # None /\ rtoken # None => vtoken.string.token # rtoken.string.token

-------------------------------------------------------------------------------
(***************************************************************************)
(* Types.                                                                  *)
(***************************************************************************)
LEMMA Bounds ==
    /\ IsFiniteSet(Logins) /\ Limit \in Nat \ {0} /\ MaxTokens \in Nat /\ MaxFaults \in Nat
    /\ None \notin Stored
BY ConstantsAssumption

LEMMA Generated ==
    ASSUME NEW t \in Tokens
    PROVE  /\ Plain(t) \in Strings /\ hash_content(Plain(t)) \in Strings
           /\ Fresh(Plain(t)) \in Stored /\ Fresh(hash_content(Plain(t))) \in Stored
           /\ hash_content(Plain(t)).token = t /\ Plain(t).token = t
BY DEF Plain, hash_content, Strings, Stored, Fresh

LEMMA Generating ==
    ASSUME TypeOK, NEW t \in Tokens, generate_token(t)
    PROVE  minted' \in 0..MaxTokens /\ minted' = minted + 1 /\ t = minted + 1 /\ minted \in Nat
BY Bounds DEF generate_token, Tokens, TypeOK

LEMMA TokenType ==
    ASSUME NEW x \in Stored \cup {None}
    PROVE  TokenOf(x) \subseteq Tokens
BY DEF TokenOf, Stored, Strings

LEMMA FaultType ==
    ASSUME TypeOK, Fault \/ NoFault
    PROVE  faults' \in 0..MaxFaults
BY Bounds DEF Fault, NoFault, TypeOK

LEMMA ManageType ==
    ASSUME TypeOK, Resent, Manage
    PROVE  TypeOK' /\ Resent'
<1>0. faults' \in 0..MaxFaults
  BY FaultType DEF Manage, Register, ResendRead, ResendWrite, VerifyEmail, RequestReset,
                   ResetPassword, TokenExpires
<1>1. UNCHANGED lockout
  BY DEF Manage, Register, ResendRead, ResendWrite, VerifyEmail, RequestReset, ResetPassword,
         TokenExpires
<1>2. login' \in [Logins -> LoginSteps] /\ count' \in Nat /\ timed' \in BOOLEAN
      /\ failures' \in Nat /\ (timed' => count' > 0)
  BY <1>1 DEF lockout, TypeOK
<1>3. CASE Register
  <2>1. PICK t \in Tokens : generate_token(t) /\ vtoken' = Fresh(hash_content(Plain(t)))
    BY <1>3 DEF Register
  <2>2. vtoken' \in Stored /\ minted' \in 0..MaxTokens
    BY <2>1, Generated, Bounds DEF generate_token, Tokens
  <2>. QED BY <1>0, <1>2, <1>3, <2>2, Bounds DEF Register, TypeOK, Resent
<1>4. CASE ResendRead BY <1>0, <1>2, <1>4 DEF ResendRead, TypeOK, Resent
<1>5. CASE ResendWrite
  <2>1. /\ vtoken' \in Stored \cup {None} /\ minted' \in 0..MaxTokens /\ told' \subseteq Strings
        /\ dead' \subseteq Tokens /\ (vtoken # None => vtoken' # None)
    <3>1. CASE /\ \E t \in Tokens :
                    /\ generate_token(t) /\ vtoken' = Fresh(hash_content(Plain(t)))
                    /\ told' = told \cup {Plain(t)}
               /\ dead' = dead \cup TokenOf(vtoken)
      <4>1. PICK t \in Tokens :
               /\ generate_token(t) /\ vtoken' = Fresh(hash_content(Plain(t)))
               /\ told' = told \cup {Plain(t)}
        BY <3>1
      <4>2. minted' \in 0..MaxTokens BY <4>1, Generating
      <4>3. TokenOf(vtoken) \subseteq Tokens BY TokenType DEF TypeOK
      <4>4. vtoken' \in Stored /\ told' \subseteq Strings BY <4>1, Generated DEF TypeOK
      <4>. QED BY <3>1, <4>2, <4>3, <4>4, Bounds DEF TypeOK
    <3>2. CASE UNCHANGED <<minted, vtoken, told, dead>> BY <3>2 DEF TypeOK
    <3>. QED BY <1>5, <3>1, <3>2 DEF ResendWrite
  <2>2. made BY <1>5 DEF ResendWrite, Resent
  <2>. QED BY <1>0, <1>2, <1>5, <2>1, <2>2 DEF ResendWrite, TypeOK, Resent
<1>6. CASE VerifyEmail
  <2>1. PICK s \in told : Accepts(vtoken, s) /\ Works(s.token) BY <1>6 DEF VerifyEmail
  <2>2. s.token \in Tokens BY DEF TypeOK, Strings
  <2>3. works' \in [Tokens -> Nat] /\ dead' \subseteq Tokens BY <2>1, <2>2 DEF Works, TypeOK
  <2>4. made BY <2>1 DEF Accepts, TypeOK
  <2>. QED BY <1>0, <1>2, <1>6, <2>3, <2>4 DEF VerifyEmail, TypeOK, Resent
<1>7. CASE RequestReset
  <2>1. PICK t \in Tokens : /\ generate_token(t) /\ rtoken' = Fresh(hash_content(Plain(t)))
                            /\ told' = told \cup {Plain(t)}
    BY <1>7 DEF RequestReset
  <2>2. /\ rtoken' \in Stored /\ minted' \in 0..MaxTokens /\ told' \subseteq Strings
        /\ dead' \subseteq Tokens
    <3>1. minted' \in 0..MaxTokens BY <2>1, Generating
    <3>2. TokenOf(rtoken) \subseteq Tokens BY TokenType DEF TypeOK
    <3>3. rtoken' \in Stored /\ told' \subseteq Strings BY <2>1, Generated DEF TypeOK
    <3>. QED BY <1>7, <3>1, <3>2, <3>3 DEF RequestReset, TypeOK
  <2>. QED BY <1>0, <1>2, <1>7, <2>2 DEF RequestReset, TypeOK, Resent
<1>8. CASE ResetPassword
  <2>1. PICK s \in told : Accepts(rtoken, s) /\ Works(s.token) BY <1>8 DEF ResetPassword
  <2>2. s.token \in Tokens BY DEF TypeOK, Strings
  <2>3. works' \in [Tokens -> Nat] /\ dead' \subseteq Tokens BY <2>1, <2>2 DEF Works, TypeOK
  <2>. QED BY <1>0, <1>2, <1>8, <2>3 DEF ResetPassword, TypeOK, Resent
<1>9. CASE TokenExpires
  <2>1. \A x \in Stored : [x EXCEPT !.valid = FALSE] \in Stored BY DEF Stored
  <2>2. /\ vtoken' \in Stored \cup {None} /\ rtoken' \in Stored \cup {None} /\ dead' \subseteq Tokens
        /\ (vtoken = None <=> vtoken' = None) /\ (rtoken = None <=> rtoken' = None)
    BY <1>9, <2>1, TokenType, Bounds DEF TokenExpires, TypeOK
  <2>. QED BY <1>0, <1>2, <1>9, <2>2 DEF TokenExpires, TypeOK, Resent
<1>. QED BY <1>3, <1>4, <1>5, <1>6, <1>7, <1>8, <1>9 DEF Manage

LEMMA LoginType ==
    ASSUME TypeOK, Resent, NEW l \in Logins, AskLimit(l) \/ Proceed(l)
    PROVE  TypeOK' /\ Resent'
<1>0. faults' \in 0..MaxFaults
  BY FaultType DEF AskLimit, Proceed, RefusePassword, FailCheck, RefuseUnverified, AcceptPassword,
                   Clear, Track, SetExpiry
<1>1. login' \in [Logins -> LoginSteps]
  BY DEF AskLimit, Proceed, RefusePassword, FailCheck, RefuseUnverified, AcceptPassword, Clear,
         Track, SetExpiry, Goto, TypeOK, LoginSteps
<1>2. CASE RefuseUnverified(l)
  <2>1. vtoken \in Stored BY <1>2 DEF RefuseUnverified, TypeOK
  <2>2. told' \subseteq Strings BY <1>2, <2>1 DEF RefuseUnverified, TypeOK, Stored
  <2>3. vtoken' \in Stored /\ minted' \in 0..MaxTokens /\ dead' \subseteq Tokens
    <3>1. CASE UNCHANGED <<vtoken, minted, dead>> BY <2>1, <3>1 DEF TypeOK
    <3>2. CASE /\ dead' = dead \cup TokenOf(vtoken)
               /\ \E t \in Tokens : generate_token(t) /\ vtoken' = Fresh(Plain(t))
      <4>1. PICK t \in Tokens : generate_token(t) /\ vtoken' = Fresh(Plain(t)) BY <3>2
      <4>2. minted' \in 0..MaxTokens BY <4>1, Generating
      <4>3. TokenOf(vtoken) \subseteq Tokens BY TokenType DEF TypeOK
      <4>. QED BY <3>2, <4>1, <4>2, <4>3, Generated DEF TypeOK
    <3>. QED BY <1>2, <3>1, <3>2 DEF RefuseUnverified
  <2>. QED BY <1>0, <1>1, <1>2, <2>2, <2>3, Bounds DEF RefuseUnverified, TypeOK, Resent
<1>3. CASE AskLimit(l) BY <1>0, <1>1, <1>3 DEF AskLimit, account, TypeOK, Resent
<1>4. CASE RefusePassword(l) BY <1>0, <1>1, <1>4 DEF RefusePassword, account, TypeOK, Resent
<1>5. CASE FailCheck(l) BY <1>0, <1>1, <1>5 DEF FailCheck, account, TypeOK, Resent
<1>6. CASE AcceptPassword(l) BY <1>0, <1>1, <1>6 DEF AcceptPassword, account, TypeOK, Resent
<1>7. CASE Clear(l)
  <2>1. \/ count' = 0 /\ timed' = FALSE /\ failures' = 0
        \/ UNCHANGED <<count, timed, failures>>
    BY <1>7 DEF Clear
  <2>2. count' \in Nat /\ failures' \in Nat BY <2>1 DEF TypeOK
  <2>4. timed' \in BOOLEAN
    <3>1. timed \in BOOLEAN BY DEF TypeOK
    <3>. QED BY <2>1, <3>1, Zenon
  <2>3. timed' => count' > 0 BY <2>1 DEF TypeOK
  <2>. QED BY <1>0, <1>1, <1>7, <2>2, <2>3, <2>4 DEF Clear, account, TypeOK, Resent
<1>8. CASE Track(l) BY <1>0, <1>1, <1>8 DEF Track, account, TypeOK, Resent
<1>9. CASE SetExpiry(l)
  <2>1. timed' = (count > 0) \/ timed' = timed BY <1>9 DEF SetExpiry
  <2>2. timed' \in BOOLEAN
    <3>1. (count > 0) \in BOOLEAN /\ timed \in BOOLEAN BY DEF TypeOK
    <3>. QED BY <2>1, <3>1, Zenon
  <2>3. UNCHANGED count BY <1>9 DEF SetExpiry
  <2>4. timed' => count' > 0 BY <2>1, <2>3 DEF TypeOK
  <2>. QED BY <1>0, <1>1, <1>9, <2>2, <2>4 DEF SetExpiry, account, TypeOK, Resent
<1>. QED BY <1>2, <1>3, <1>4, <1>5, <1>6, <1>7, <1>8, <1>9 DEF Proceed

LEMMA TypeStep ==
    ASSUME TypeOK, Resent, [Next]_vars
    PROVE  TypeOK' /\ Resent'
<1>1. CASE Manage BY <1>1, ManageType
<1>2. CASE \E l \in Logins : AskLimit(l) \/ Proceed(l) BY <1>2, LoginType
<1>3. CASE CounterExpires BY <1>3 DEF CounterExpires, NoFault, account, TypeOK, Resent
<1>4. CASE Crash
  <2>1. faults' \in 0..MaxFaults BY <1>4, FaultType DEF Crash
  <2>2. PICK dropped \in SUBSET Logins :
           login' = [l \in Logins |-> IF l \in dropped THEN "idle" ELSE login[l]]
    BY <1>4 DEF Crash
  <2>3. login' \in [Logins -> LoginSteps] BY <2>2 DEF TypeOK, LoginSteps
  <2>4. resending' = resending \/ resending' = FALSE BY <1>4 DEF Crash
  <2>5. resending' \in BOOLEAN BY <2>4 DEF TypeOK
  <2>. QED BY <1>4, <2>1, <2>3, <2>4, <2>5 DEF Crash, TypeOK, Resent
<1>5. CASE UNCHANGED vars BY <1>5 DEF vars, account, lockout, TypeOK, Resent
<1>. QED BY <1>1, <1>2, <1>3, <1>4, <1>5 DEF Next

LEMMA InitType == Init => TypeOK /\ Resent
<1>. SUFFICES ASSUME Init PROVE TypeOK /\ Resent OBVIOUS
<1>1. 0 \in 0..MaxTokens /\ 0 \in 0..MaxFaults /\ 0 \in Nat BY Bounds
<1>2. works \in [Tokens -> Nat] /\ login \in [Logins -> LoginSteps] BY DEF Init, LoginSteps
<1>3. made = FALSE /\ verified = FALSE /\ resending = FALSE /\ timed = FALSE BY DEF Init
<1>. QED BY <1>1, <1>2, <1>3 DEF Init, TypeOK, Resent

-------------------------------------------------------------------------------
(***************************************************************************)
(* What the row has is not dead while it is valid.                         *)
(***************************************************************************)
LEMMA Held ==
    ASSUME TypeOK
    PROVE  /\ minted \in Nat
           /\ vtoken # None => /\ vtoken.string.token \in Tokens /\ vtoken.valid \in BOOLEAN
                               /\ TokenOf(vtoken) = {vtoken.string.token}
           /\ rtoken # None => /\ rtoken.string.token \in Tokens /\ rtoken.valid \in BOOLEAN
                               /\ TokenOf(rtoken) = {rtoken.string.token}
           /\ \A t \in Tokens : t \in Nat /\ t >= 1
BY DEF TypeOK, Stored, Strings, Tokens, TokenOf

LEMMA NewToken ==
    ASSUME NEW t \in Tokens
    PROVE  /\ Fresh(Plain(t)).string.token = t /\ Fresh(Plain(t)).valid
           /\ Fresh(hash_content(Plain(t))).string.token = t
           /\ Fresh(hash_content(Plain(t))).valid
BY DEF Fresh, Plain, hash_content

LEMMA NoneIsNoToken == TokenOf(None) = {}
BY DEF TokenOf

\* A new token takes the place of the verification token.
LEMMA LiveVerification ==
    ASSUME TypeOK, Live, NEW t \in Tokens, generate_token(t), UNCHANGED rtoken,
           vtoken' # None, vtoken'.string.token = t,
           dead' = dead \/ dead' = dead \cup TokenOf(vtoken)
    PROVE  Live'
<1>1. t = minted + 1 /\ minted' = minted + 1 /\ minted \in Nat BY Generating
<1>2. TokenOf(vtoken) \subseteq 1..minted BY Held, NoneIsNoToken DEF Live
<1>3. dead' \subseteq 1..minted BY <1>2 DEF Live
<1>4. dead' \subseteq 1..minted' /\ t \notin dead' BY <1>1, <1>3
<1>5. rtoken # None => rtoken.string.token \in Nat /\ rtoken.string.token <= minted BY Held DEF Live
<1>6. rtoken # None /\ rtoken.valid => rtoken.string.token \notin dead'
  BY Held, NoneIsNoToken DEF Live
<1>. QED BY <1>1, <1>4, <1>5, <1>6 DEF Live

LEMMA LiveReset ==
    ASSUME TypeOK, Live, NEW t \in Tokens, generate_token(t), UNCHANGED vtoken,
           rtoken' # None, rtoken'.string.token = t, dead' = dead \cup TokenOf(rtoken)
    PROVE  Live'
<1>1. t = minted + 1 /\ minted' = minted + 1 /\ minted \in Nat BY Generating
<1>2. TokenOf(rtoken) \subseteq 1..minted BY Held, NoneIsNoToken DEF Live
<1>3. dead' \subseteq 1..minted BY <1>2 DEF Live
<1>4. dead' \subseteq 1..minted' /\ t \notin dead' BY <1>1, <1>3
<1>5. vtoken # None => vtoken.string.token \in Nat /\ vtoken.string.token <= minted BY Held DEF Live
<1>6. vtoken # None /\ vtoken.valid => vtoken.string.token \notin dead'
  BY Held, NoneIsNoToken DEF Live
<1>. QED BY <1>1, <1>4, <1>5, <1>6 DEF Live

LEMMA LiveFrame ==
    ASSUME Live, UNCHANGED <<vtoken, rtoken, minted, dead>>
    PROVE  Live'
BY DEF Live

LEMMA Accepted ==
    ASSUME TypeOK, NEW stored \in Stored \cup {None}, NEW s \in Strings, Accepts(stored, s)
    PROVE  stored # None /\ stored.valid /\ stored.string.token = s.token
BY DEF Accepts, hash_content, Strings

LEMMA LiveStep ==
    ASSUME TypeOK, Resent, Live, [Next]_vars
    PROVE  Live'
<1>1. CASE Register
  <2>1. PICK t \in Tokens : generate_token(t) /\ vtoken' = Fresh(hash_content(Plain(t)))
    BY <1>1 DEF Register
  <2>2. UNCHANGED <<rtoken, dead>> BY <1>1 DEF Register
  <2>3. vtoken' # None /\ vtoken'.string.token = t BY <2>1, NewToken, Generated, Bounds
  <2>. QED BY <2>1, <2>2, <2>3, LiveVerification
<1>2. CASE ResendWrite
  <2>1. UNCHANGED rtoken BY <1>2 DEF ResendWrite
  <2>2. CASE /\ \E t \in Tokens : generate_token(t) /\ vtoken' = Fresh(hash_content(Plain(t)))
             /\ dead' = dead \cup TokenOf(vtoken)
    <3>1. PICK t \in Tokens : generate_token(t) /\ vtoken' = Fresh(hash_content(Plain(t))) BY <2>2
    <3>2. vtoken' # None /\ vtoken'.string.token = t BY <3>1, NewToken, Generated, Bounds
    <3>. QED BY <2>1, <2>2, <3>1, <3>2, LiveVerification
  <2>3. CASE UNCHANGED <<minted, vtoken, told, dead>> BY <2>1, <2>3, LiveFrame
  <2>. QED BY <1>2, <2>2, <2>3 DEF ResendWrite
<1>3. CASE VerifyEmail
  <2>1. PICK s \in told : Accepts(vtoken, s) /\ Works(s.token) BY <1>3 DEF VerifyEmail
  <2>2. vtoken # None /\ vtoken.string.token = s.token BY <2>1, Accepted DEF TypeOK
  <2>3. dead' = dead \cup {vtoken.string.token} BY <2>1, <2>2 DEF Works
  <2>4. vtoken' = None /\ UNCHANGED <<rtoken, minted>> BY <1>3 DEF VerifyEmail
  <2>5. vtoken.string.token \in 1..minted BY <2>2, Held DEF Live
  <2>6. dead' \subseteq 1..minted' BY <2>3, <2>4, <2>5 DEF Live
  <2>7. rtoken # None /\ rtoken.valid => rtoken.string.token \notin dead' BY <2>2, <2>3 DEF Live
  <2>. QED BY <2>4, <2>6, <2>7 DEF Live
<1>4. CASE ResetPassword
  <2>1. PICK s \in told : Accepts(rtoken, s) /\ Works(s.token) BY <1>4 DEF ResetPassword
  <2>2. rtoken # None /\ rtoken.string.token = s.token BY <2>1, Accepted DEF TypeOK
  <2>3. dead' = dead \cup {rtoken.string.token} BY <2>1, <2>2 DEF Works
  <2>4. rtoken' = None /\ UNCHANGED <<vtoken, minted>> BY <1>4 DEF ResetPassword
  <2>5. rtoken.string.token \in 1..minted BY <2>2, Held DEF Live
  <2>6. dead' \subseteq 1..minted' BY <2>3, <2>4, <2>5 DEF Live
  <2>7. vtoken # None /\ vtoken.valid => vtoken.string.token \notin dead' BY <2>2, <2>3 DEF Live
  <2>. QED BY <2>4, <2>6, <2>7 DEF Live
<1>5. CASE RequestReset
  <2>1. PICK t \in Tokens : generate_token(t) /\ rtoken' = Fresh(hash_content(Plain(t)))
    BY <1>5 DEF RequestReset
  <2>2. UNCHANGED vtoken /\ dead' = dead \cup TokenOf(rtoken) BY <1>5 DEF RequestReset
  <2>3. rtoken' # None /\ rtoken'.string.token = t BY <2>1, NewToken, Generated, Bounds
  <2>. QED BY <2>1, <2>2, <2>3, LiveReset
<1>6. CASE TokenExpires
  <2>1. UNCHANGED minted BY <1>6 DEF TokenExpires
  <2>2. CASE /\ vtoken # None /\ vtoken' = [vtoken EXCEPT !.valid = FALSE]
             /\ dead' = dead \cup TokenOf(vtoken) /\ UNCHANGED rtoken
    <3>1. ~vtoken'.valid /\ vtoken'.string = vtoken.string BY <2>2 DEF TypeOK, Stored
    <3>. QED BY <2>1, <2>2, <3>1, Held DEF Live
  <2>3. CASE /\ rtoken # None /\ rtoken' = [rtoken EXCEPT !.valid = FALSE]
             /\ dead' = dead \cup TokenOf(rtoken) /\ UNCHANGED vtoken
    <3>1. ~rtoken'.valid /\ rtoken'.string = rtoken.string BY <2>3 DEF TypeOK, Stored
    <3>. QED BY <2>1, <2>3, <3>1, Held DEF Live
  <2>. QED BY <1>6, <2>2, <2>3 DEF TokenExpires
<1>7. ASSUME NEW l \in Logins, RefuseUnverified(l) PROVE Live'
  <2>1. UNCHANGED rtoken BY <1>7 DEF RefuseUnverified
  <2>2. CASE UNCHANGED <<vtoken, minted, dead>> BY <2>1, <2>2, LiveFrame
  <2>3. CASE /\ dead' = dead \cup TokenOf(vtoken)
             /\ \E t \in Tokens : generate_token(t) /\ vtoken' = Fresh(Plain(t))
    <3>1. PICK t \in Tokens : generate_token(t) /\ vtoken' = Fresh(Plain(t)) BY <2>3
    <3>2. vtoken' # None /\ vtoken'.string.token = t BY <3>1, NewToken, Generated, Bounds
    <3>. QED BY <2>1, <2>3, <3>1, <3>2, LiveVerification
  <2>. QED BY <1>7, <2>2, <2>3 DEF RefuseUnverified
<1>8. CASE UNCHANGED <<vtoken, rtoken, minted, dead>> BY <1>8, LiveFrame
<1>9. ResendRead => UNCHANGED <<vtoken, rtoken, minted, dead>> BY DEF ResendRead
<1>10. ASSUME NEW l \in Logins, AskLimit(l) \/ Proceed(l)
       PROVE  RefuseUnverified(l) \/ UNCHANGED <<vtoken, rtoken, minted, dead>>
  BY <1>10 DEF AskLimit, Proceed, RefusePassword, FailCheck, AcceptPassword, Clear, Track, SetExpiry,
               account
<1>11. CounterExpires \/ Crash \/ UNCHANGED vars => UNCHANGED <<vtoken, rtoken, minted, dead>>
  BY DEF CounterExpires, Crash, vars, account
<1>. QED BY <1>1, <1>2, <1>3, <1>4, <1>5, <1>6, <1>7, <1>8, <1>9, <1>10, <1>11 DEF Next, Manage

LEMMA InitLive == Init => Live
BY DEF Init, Live

\* A token that works is the one that the row has.
LEMMA OnlyLiveWorks ==
    ASSUME TypeOK, Live, [Next]_vars
    PROVE  [\A t \in Tokens : works'[t] # works[t] => t \notin dead]_vars
<1>1. ASSUME NEW s \in told, NEW stored \in {vtoken, rtoken}, Accepts(stored, s), Works(s.token)
      PROVE  \A t \in Tokens : works'[t] # works[t] => t \notin dead
  <2>1. stored.valid /\ stored # None /\ stored.string.token = s.token
    BY <1>1, Accepted DEF TypeOK
  <2>2. s.token \notin dead BY <2>1 DEF Live
  <2>3. \A t \in Tokens : t # s.token => works'[t] = works[t] BY <1>1 DEF Works, TypeOK
  <2>. QED BY <2>2, <2>3
<1>2. CASE VerifyEmail \/ ResetPassword BY <1>1, <1>2 DEF VerifyEmail, ResetPassword
<1>3. CASE UNCHANGED works BY <1>3
<1>4. ASSUME NEW l \in Logins, AskLimit(l) \/ Proceed(l) PROVE UNCHANGED works
  BY <1>4 DEF AskLimit, Proceed, RefusePassword, FailCheck, RefuseUnverified, AcceptPassword, Clear,
              Track, SetExpiry, account
<1>5. Register \/ ResendRead \/ ResendWrite \/ RequestReset \/ TokenExpires \/ CounterExpires \/ Crash
         => UNCHANGED works
  BY DEF Register, ResendRead, ResendWrite, RequestReset, TokenExpires, CounterExpires, Crash, account
<1>. QED BY <1>2, <1>3, <1>4, <1>5 DEF Next, Manage

-------------------------------------------------------------------------------
(***************************************************************************)
(* Refusals are bounded.                                                   *)
(***************************************************************************)
Tracking == {l \in Logins : login[l] = "track"}
LetIn == {l \in Logins : login[l] \in {"check", "track"}}

Counted ==
    faults = 0 =>
       /\ failures <= count + Cardinality(Tracking)
       /\ count + Cardinality(LetIn) <= Limit - 1 + Cardinality(Logins)

LEMMA Subsets ==
    ASSUME NEW S \in SUBSET Logins
    PROVE  /\ IsFiniteSet(S) /\ Cardinality(S) \in Nat /\ Cardinality(Logins) \in Nat
           /\ Cardinality(S) <= Cardinality(Logins)
BY FS_Subset, FS_CardinalityType, Bounds

\* A login moves from one set of logins to another, alone.
LEMMA Leaves ==
    ASSUME NEW S \in SUBSET Logins, NEW l \in S
    PROVE  Cardinality(S \ {l}) = Cardinality(S) - 1
BY Subsets, FS_RemoveElement

LEMMA Joins ==
    ASSUME NEW S \in SUBSET Logins, NEW l \in Logins \ S
    PROVE  Cardinality(S \cup {l}) = Cardinality(S) + 1
BY Subsets, FS_AddElement

LEMMA CountedNumbers ==
    ASSUME TypeOK
    PROVE  /\ count \in Nat /\ failures \in Nat /\ faults \in Nat /\ Limit \in Nat \ {0}
           /\ Tracking \in SUBSET Logins /\ LetIn \in SUBSET Logins
           /\ Cardinality(Tracking) \in Nat /\ Cardinality(LetIn) \in Nat
           /\ Cardinality(Logins) \in Nat
           /\ Cardinality(LetIn) <= Cardinality(Logins)
           /\ Cardinality(Tracking) <= Cardinality(LetIn)
<1>1. Tracking \in SUBSET LetIn /\ LetIn \in SUBSET Logins /\ Tracking \in SUBSET Logins
  BY DEF Tracking, LetIn
<1>2. Cardinality(Tracking) <= Cardinality(LetIn) BY <1>1, Subsets, FS_Subset
<1>. QED BY <1>1, <1>2, Subsets, Bounds DEF TypeOK

LEMMA CountedFrame ==
    ASSUME Counted, UNCHANGED <<login, count, failures>>, faults' = 0 => faults = 0
    PROVE  Counted'
BY DEF Counted, Tracking, LetIn

LEMMA CountedLogin ==
    ASSUME TypeOK, Counted, faults = 0, ~Fault, NEW l \in Logins, AskLimit(l) \/ Proceed(l)
    PROVE  Counted'
<1>1. /\ failures <= count + Cardinality(Tracking)
      /\ count + Cardinality(LetIn) <= Limit - 1 + Cardinality(Logins)
  BY DEF Counted
<1>2. \A at : Goto(l, at) => login'[l] = at /\ \A m \in Logins : m # l => login'[m] = login[m]
  BY DEF Goto, TypeOK
<1>3. CASE AskLimit(l)
  <2>1. Goto(l, "check") /\ login[l] = "idle" /\ ~is_rate_limited(count) /\ UNCHANGED <<count, failures>>
    BY <1>3 DEF AskLimit, At
  <2>2. Tracking' = Tracking BY <2>1, <1>2 DEF Tracking
  <2>3. Cardinality(LetIn') <= Cardinality(Logins) BY Subsets DEF LetIn
  <2>4. LetIn' \in SUBSET Logins /\ Cardinality(LetIn') \in Nat BY Subsets DEF LetIn
  <2>5. count <= Limit - 1 BY <2>1, CountedNumbers DEF is_rate_limited
  <2>. QED BY <1>1, <2>1, <2>2, <2>3, <2>4, <2>5, CountedNumbers DEF Counted
<1>4. CASE RefusePassword(l)
  <2>1. /\ Goto(l, "track") /\ login[l] = "check" /\ UNCHANGED count /\ failures' = failures + 1
    BY <1>4 DEF RefusePassword, At
  <2>2. LetIn' = LetIn BY <2>1, <1>2 DEF LetIn
  <2>3. Tracking' = Tracking \cup {l} /\ l \in Logins \ Tracking BY <2>1, <1>2 DEF Tracking
  <2>4. Cardinality(Tracking') = Cardinality(Tracking) + 1 BY <2>3, Joins, CountedNumbers
  <2>. QED BY <1>1, <2>1, <2>2, <2>4, CountedNumbers DEF Counted
<1>5. CASE RefuseUnverified(l) \/ AcceptPassword(l)
  <2>1. /\ Goto(l, "idle") \/ Goto(l, "clear")
        /\ login[l] = "check" /\ UNCHANGED <<count, failures>>
    BY <1>5 DEF RefuseUnverified, AcceptPassword, At
  <2>2. Tracking' = Tracking BY <2>1, <1>2 DEF Tracking
  <2>3. LetIn' = LetIn \ {l} /\ l \in LetIn BY <2>1, <1>2 DEF LetIn
  <2>4. Cardinality(LetIn') = Cardinality(LetIn) - 1 BY <2>3, Leaves, CountedNumbers
  <2>. QED BY <1>1, <2>1, <2>2, <2>4, CountedNumbers DEF Counted
<1>6. CASE Clear(l)
  <2>1. Goto(l, "idle") /\ login[l] = "clear" /\ count' = 0 /\ failures' = 0
    BY <1>6 DEF Clear, At
  <2>2. Tracking' = Tracking /\ LetIn' = LetIn BY <2>1, <1>2 DEF Tracking, LetIn
  <2>. QED BY <1>1, <2>1, <2>2, CountedNumbers DEF Counted
<1>7. CASE Track(l)
  <2>1. /\ Goto(l, "expire") \/ Goto(l, "idle")
        /\ login[l] = "track" /\ count' = count + 1 /\ UNCHANGED failures
    BY <1>7 DEF Track, At
  <2>2. /\ LetIn' = LetIn \ {l} /\ l \in LetIn
        /\ Tracking' = Tracking \ {l} /\ l \in Tracking
    BY <2>1, <1>2 DEF LetIn, Tracking
  <2>3. /\ Cardinality(LetIn') = Cardinality(LetIn) - 1
        /\ Cardinality(Tracking') = Cardinality(Tracking) - 1
    BY <2>2, Leaves, CountedNumbers
  <2>. QED BY <1>1, <2>1, <2>3, CountedNumbers DEF Counted
<1>8. CASE SetExpiry(l)
  <2>1. Goto(l, "idle") /\ login[l] = "expire" /\ UNCHANGED <<count, failures>>
    BY <1>8 DEF SetExpiry, At
  <2>2. Tracking' = Tracking /\ LetIn' = LetIn BY <2>1, <1>2 DEF Tracking, LetIn
  <2>. QED BY <1>1, <2>1, <2>2 DEF Counted
<1>9. ~FailCheck(l) BY DEF FailCheck
<1>. QED BY <1>3, <1>4, <1>5, <1>6, <1>7, <1>8, <1>9 DEF Proceed

LEMMA CountedStep ==
    ASSUME TypeOK, Counted, [Next]_vars
    PROVE  Counted'
<1>1. CASE faults' # 0 BY <1>1 DEF Counted
<1>2. CASE faults' = 0
  <2>1. Fault => faults' # 0 BY CountedNumbers DEF Fault
  <2>2. Fault \/ UNCHANGED faults
    BY DEF Next, Manage, Register, ResendRead, ResendWrite, VerifyEmail, RequestReset, ResetPassword,
           TokenExpires, AskLimit, Proceed, RefusePassword, FailCheck, RefuseUnverified,
           AcceptPassword, Clear, Track, SetExpiry, CounterExpires, Crash, NoFault, vars
  <2>3. faults = 0 /\ ~Fault BY <1>2, <2>1, <2>2
  <2>4. CASE Manage
    <3>1. UNCHANGED lockout
      BY <2>4 DEF Manage, Register, ResendRead, ResendWrite, VerifyEmail, RequestReset,
                  ResetPassword, TokenExpires
    <3>. QED BY <3>1, <2>3, CountedFrame DEF lockout
  <2>5. CASE \E l \in Logins : AskLimit(l) \/ Proceed(l) BY <2>3, <2>5, CountedLogin
  <2>6. CASE CounterExpires
    <3>1. UNCHANGED login /\ count' = 0 /\ failures' = 0 BY <2>6 DEF CounterExpires
    <3>2. Tracking' = Tracking /\ LetIn' = LetIn BY <3>1 DEF Tracking, LetIn
    <3>. QED BY <2>3, <3>1, <3>2, CountedNumbers DEF Counted
  <2>7. ~Crash BY <2>3 DEF Crash
  <2>8. CASE UNCHANGED vars BY <2>3, <2>8, CountedFrame DEF vars, lockout
  <2>. QED BY <2>4, <2>5, <2>6, <2>7, <2>8 DEF Next
<1>. QED BY <1>1, <1>2

LEMMA InitCounted == Init => Counted
<1>. SUFFICES ASSUME Init PROVE Counted OBVIOUS
<1>1. Tracking = {} /\ LetIn = {} BY DEF Init, Tracking, LetIn
<1>2. Cardinality({}) = 0 /\ Cardinality(Logins) \in Nat BY FS_EmptySet, Subsets
<1>. QED BY <1>1, <1>2, Bounds DEF Init, Counted

-------------------------------------------------------------------------------
(***************************************************************************)
(* Every reachable state has the types of TypeOK.                          *)
(***************************************************************************)
THEOREM TypeCorrect == Spec => []TypeOK
<1>. QED BY InitType, TypeStep, PTL DEF Spec

(***************************************************************************)
(* For any number of tokens and logins: a token changes the account at     *)
(* most once, and only while it is the last of its kind and in its time.   *)
(***************************************************************************)
THEOREM TokensAreSpent == Spec => TokensWorkOnce
<1>. QED BY InitType, TypeStep, InitLive, LiveStep, OnlyLiveWorks, PTL DEF Spec, TokensWorkOnce

(***************************************************************************)
(* For any limit and any number of logins from one address, the address    *)
(* hears fewer refusals than the limit and the number of logins together,  *)
(* as long as nothing fails.                                               *)
(***************************************************************************)
THEOREM FailuresAreBounded == Spec => []FailuresBounded
<1>1. TypeOK /\ Counted => FailuresBounded BY CountedNumbers DEF Counted, FailuresBounded
<1>. QED BY <1>1, InitType, TypeStep, InitCounted, CountedStep, PTL DEF Spec
===============================================================================
