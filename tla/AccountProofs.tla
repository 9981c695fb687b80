-------------------------- MODULE AccountProofs ---------------------------
(***************************************************************************)
(* Proofs about what MCAccount plays: signing in to one account, making    *)
(* it, a forgotten password and the forms of the profile page (SignIn,     *)
(* Registering, PasswordReset, ProfileForms); tabs around the end of a     *)
(* session, roles asked for and decided, reports at reviewers' desks, and  *)
(* the machines of a volunteer (BrowserSession, RoleDesk, ReviewDesk,      *)
(* MachinesPage); and all of these together.  For any number of tabs,      *)
(* requests, promises, links and passwords, and any limits and delays.     *)
(***************************************************************************)
EXTENDS MCAccount, FiniteSetTheorems, TLAPS

SignInTab == [page : {"login", "code", "in"}, step : {"idle", "sent", "checked", "answered"},
              right : BOOLEAN, answer : Answers, seconds : Nat, cooldown : Nat, told : Answers]

(* What a tab on the login page was told of the wait it has caused is no   *)
(* shorter than what is left of it; and it forgets it when it tries again. *)
WaitsEnough(s, t) ==
  s.page = "login" =>
    /\ s.told = "wait" => s.step = "idle"
    /\ throttledBy = {t} /\ s.told = "wait" => s.cooldown >= throttleLeft
    /\ throttledBy = {t} /\ s.step = "answered" /\ s.answer = "wait" => s.seconds >= throttleLeft

SignInInv ==
  /\ SignInTypeOK /\ FailuresInARow
  /\ \A t \in SignInTabs : WaitsEnough(signIn[t], t)

-----------------------------------------------------------------------------
LEMMA SignInStarts == SignInInit => SignInInv
  BY SignInAssumption DEF SignInInit, SignInInv, SignInTypeOK, FailuresInARow, WaitsEnough, AtLogin, Answers

(* A step of one tab that leaves the waits alone. *)
LEMMA TabWaitsEnough ==
  ASSUME SignInInv, NEW t \in SignInTabs, NEW r \in SignInTab, signIn' = [signIn EXCEPT ![t] = r],
         UNCHANGED <<twoFactorOn, fails, failsLeft, throttleLeft, lockLeft, streak, throttledBy>>,
         signIns' \in 0..MaxSignIns, WaitsEnough(r, t)
  PROVE  SignInInv'
<1>1. /\ signIn \in [SignInTabs -> SignInTab] /\ signIn' \in [SignInTabs -> SignInTab]
      /\ signIn'[t] = r /\ \A u \in SignInTabs \ {t} : signIn'[u] = signIn[u]
  BY DEF SignInInv, SignInTypeOK, SignInTab
<1>2. SignInTypeOK' /\ FailuresInARow'
  BY <1>1 DEF SignInInv, SignInTypeOK, FailuresInARow, SignInTab
<1>3. ASSUME NEW u \in SignInTabs PROVE WaitsEnough(signIn[u], u)'
  BY <1>1 DEF SignInInv, WaitsEnough
<1>4. QED
  BY <1>2, <1>3 DEF SignInInv

(* The pages' own steps, and the requests that count no failure. *)
LEMMA PagesKeepSignIn ==
  ASSUME SignInInv, NEW t \in SignInTabs,
         \/ handleLogin(t) \/ check_rate_limits(t) \/ LoginAnswer(t) \/ RequestFails(t) \/ SubmitCode(t)
         \/ verify_2fa(t) \/ CodeAnswer(t) \/ BackToLogin(t)
  PROVE  SignInInv'
<1>1. /\ signIn \in [SignInTabs -> SignInTab] /\ signIn[t] \in SignInTab /\ WaitsEnough(signIn[t], t)
      /\ signIns \in 0..MaxSignIns /\ MaxSignIns \in Nat /\ throttleLeft \in Nat
      /\ {"none", "wait", "locked", "wrong", "code", "in", "failed"} \subseteq Answers
  BY SignInAssumption DEF SignInInv, SignInTypeOK, SignInTab, Answers
<1>2. UNCHANGED <<fails, failsLeft, throttleLeft, lockLeft, streak, throttledBy, twoFactorOn>>
  BY DEF handleLogin, check_rate_limits, LoginAnswer, RequestFails, SubmitCode, verify_2fa, CodeAnswer, BackToLogin
<1>3. signIns' \in 0..MaxSignIns
  <2>1. signIns' = signIns \/ (signIns < MaxSignIns /\ signIns' = signIns + 1)
    BY DEF handleLogin, check_rate_limits, LoginAnswer, RequestFails, SubmitCode, verify_2fa, CodeAnswer, BackToLogin
  <2>2. QED
    BY <1>1, <2>1
<1>4. SUFFICES \E r \in SignInTab : signIn' = [signIn EXCEPT ![t] = r] /\ WaitsEnough(r, t)
  BY <1>2, <1>3, TabWaitsEnough
<1>5. CASE handleLogin(t)
  <2>1. CASE \E right \in BOOLEAN :
               signIn' = [signIn EXCEPT ![t].step = "sent", ![t].right = right, ![t].told = "none"]
    <3>1. PICK right \in BOOLEAN :
            signIn' = [signIn EXCEPT ![t].step = "sent", ![t].right = right, ![t].told = "none"]
      BY <2>1
    <3> DEFINE r == [signIn[t] EXCEPT !.step = "sent", !.right = right, !.told = "none"]
    <3>2. r \in SignInTab /\ r.step = "sent" /\ r.told = "none" /\ signIn' = [signIn EXCEPT ![t] = r]
      BY <1>1, <3>1 DEF SignInTab
    <3>3. QED
      BY <3>2 DEF WaitsEnough
  <2>2. CASE signIn' = [signIn EXCEPT ![t].told = "none"]
    <3> DEFINE r == [signIn[t] EXCEPT !.told = "none"]
    <3>1. /\ r \in SignInTab /\ r.step = signIn[t].step /\ r.told = "none"
          /\ signIn' = [signIn EXCEPT ![t] = r]
      BY <1>1, <2>2 DEF SignInTab
    <3>2. signIn[t].step = "idle"
      BY <1>5 DEF handleLogin, LoginView
    <3>3. QED
      BY <3>1, <3>2 DEF WaitsEnough
  <2>3. QED
    BY <1>5, <2>1, <2>2 DEF handleLogin
<1>6. CASE check_rate_limits(t)
  <2>0. signIn[t].page = "login" /\ signIn[t].step = "sent" /\ signIn[t].told # "wait"
    BY <1>1, <1>6 DEF check_rate_limits, WaitsEnough
  <2>1. CASE signIn' = [signIn EXCEPT ![t].step = "checked"]
    <3> DEFINE r == [signIn[t] EXCEPT !.step = "checked"]
    <3>1. r \in SignInTab /\ r.step = "checked" /\ r.told = signIn[t].told /\ signIn' = [signIn EXCEPT ![t] = r]
      BY <1>1, <2>1 DEF SignInTab
    <3>2. QED
      BY <2>0, <3>1 DEF WaitsEnough
  <2>2. CASE \E answer \in {"locked", "wait"}, seconds \in Nat :
               Refuse(t, answer, seconds) /\ (answer = "wait" => seconds = throttleLeft)
    <3>1. PICK answer \in {"locked", "wait"}, seconds \in Nat :
               Refuse(t, answer, seconds) /\ (answer = "wait" => seconds = throttleLeft)
      BY <2>2
    <3> DEFINE r == [signIn[t] EXCEPT !.step = "answered", !.answer = answer, !.seconds = seconds]
    <3>2. /\ r \in SignInTab /\ r.answer = answer /\ r.seconds = seconds /\ r.told = signIn[t].told
          /\ signIn' = [signIn EXCEPT ![t] = r]
      BY <1>1, <3>1 DEF SignInTab, Refuse
    <3>3. WaitsEnough(r, t)
      <4>1. answer = "wait" => seconds >= throttleLeft
        BY <1>1, <3>1
      <4> HIDE DEF r
      <4>2. QED
        BY <2>0, <3>2, <4>1 DEF WaitsEnough
    <3>4. QED
      BY <3>2, <3>3
  <2>3. QED
    BY <1>1, <1>6, <2>1, <2>2 DEF check_rate_limits
<1>7. CASE LoginAnswer(t)
  <2> DEFINE a == signIn[t].answer
             r == [signIn[t] EXCEPT !.step = "idle", !.answer = "none", !.seconds = 0,
                     !.page = IF a \in {"code", "in"} THEN a ELSE @,
                     !.told = IF a \in {"code", "in"} THEN @ ELSE a,
                     !.cooldown = IF a = "wait" THEN signIn[t].seconds ELSE @]
  <2>1. r \in SignInTab
    BY <1>1 DEF SignInTab
  <2>2. signIn' = [signIn EXCEPT ![t] = r]
    BY <1>1, <1>7 DEF LoginAnswer
  <2>3. /\ signIn[t].page = "login" /\ signIn[t].step = "answered"
        /\ r.step = "idle" /\ r.page = IF a \in {"code", "in"} THEN a ELSE signIn[t].page
        /\ r.told = IF a \in {"code", "in"} THEN signIn[t].told ELSE a
        /\ r.cooldown = IF a = "wait" THEN signIn[t].seconds ELSE signIn[t].cooldown
    BY <1>1, <1>7 DEF LoginAnswer, SignInTab
  <2>4. WaitsEnough(r, t)
    BY <1>1, <2>3 DEF WaitsEnough
  <2>5. QED
    BY <2>1, <2>2, <2>4
<1>8. CASE RequestFails(t)
  <2> DEFINE r == [signIn[t] EXCEPT !.step = "idle", !.answer = "none", !.seconds = 0, !.told = "failed"]
  <2>1. r \in SignInTab /\ r.step = "idle" /\ r.told = "failed" /\ signIn' = [signIn EXCEPT ![t] = r]
    BY <1>1, <1>8 DEF SignInTab, RequestFails
  <2>2. QED
    BY <2>1 DEF WaitsEnough
<1>9. CASE SubmitCode(t)
  <2>1. PICK right \in BOOLEAN :
          signIn' = [signIn EXCEPT ![t].step = "sent", ![t].right = right, ![t].told = "none"]
    BY <1>9 DEF SubmitCode
  <2> DEFINE r == [signIn[t] EXCEPT !.step = "sent", !.right = right, !.told = "none"]
  <2>2. r \in SignInTab /\ r.step = "sent" /\ r.told = "none" /\ signIn' = [signIn EXCEPT ![t] = r]
    BY <1>1, <2>1 DEF SignInTab
  <2>3. QED
    BY <2>2 DEF WaitsEnough
<1>10. CASE verify_2fa(t)
  <2>1. PICK answer \in {"in", "wrong"} : Refuse(t, answer, 0)
    BY <1>10 DEF verify_2fa
  <2> DEFINE r == [signIn[t] EXCEPT !.step = "answered", !.answer = answer, !.seconds = 0]
  <2>2. r \in SignInTab /\ r.page = signIn[t].page /\ signIn' = [signIn EXCEPT ![t] = r]
    BY <1>1, <2>1 DEF SignInTab, Refuse
  <2>3. QED
    BY <1>10, <2>2 DEF WaitsEnough, verify_2fa
<1>11. CASE CodeAnswer(t)
  <2> DEFINE next == IF signIn[t].answer = "in" THEN "in" ELSE signIn[t].page
             told == IF signIn[t].answer = "in" THEN signIn[t].told ELSE "wrong"
             r == [signIn[t] EXCEPT !.step = "idle", !.answer = "none", !.page = next, !.told = told]
  <2>1. r \in SignInTab /\ r.page = next /\ signIn' = [signIn EXCEPT ![t] = r]
    BY <1>1, <1>11 DEF SignInTab, CodeAnswer
  <2>2. next # "login"
    BY <1>11 DEF CodeAnswer
  <2>3. QED
    BY <2>1, <2>2 DEF WaitsEnough
<1>12. CASE BackToLogin(t)
  <2>1. AtLogin \in SignInTab /\ AtLogin.told = "none" /\ AtLogin.step = "idle"
    BY DEF AtLogin, SignInTab, Answers
  <2>2. QED
    BY <1>12, <2>1 DEF BackToLogin, WaitsEnough
<1>13. QED
  BY <1>5, <1>6, <1>7, <1>8, <1>9, <1>10, <1>11, <1>12

(* A failure that is counted: a wait it sets is the one its tab is told. *)
LEMMA FailureKeepsSignIn ==
  ASSUME SignInInv, NEW t \in SignInTabs, record_failure(t) \/ login_user(t)
  PROVE  SignInInv'
<1>1. /\ signIn \in [SignInTabs -> SignInTab] /\ signIn[t] \in SignInTab /\ WaitsEnough(signIn[t], t)
      /\ throttleLeft \in Nat /\ fails \in 0..LockoutFails /\ fails = streak
      /\ {"wait", "locked", "wrong", "code", "in"} \subseteq Answers
      /\ signIn[t].page = "login" /\ signIn[t].step = "checked" /\ signIn[t].told # "wait"
      /\ UNCHANGED <<twoFactorOn, signIns>>
  BY DEF SignInInv, SignInTypeOK, SignInTab, Answers, FailuresInARow, WaitsEnough, record_failure, login_user
<1>2. get_delay(fails + 1) \in Nat
  <2>1. fails + 1 \in DOMAIN DelaySchedule => DelaySchedule[fails + 1] \in Nat
    BY SignInAssumption
  <2>2. QED
    BY <2>1 DEF get_delay
<1>3. /\ fails' \in 0..LockoutFails /\ failsLeft' \in 0..FailWindow /\ throttleLeft' \in Nat
      /\ lockLeft' \in 0..LockoutTime /\ streak' \in Nat /\ fails' = streak'
      /\ throttledBy' \subseteq SignInTabs
      /\ throttledBy' = {} \/ throttledBy' = {t} \/ UNCHANGED <<throttledBy, throttleLeft>>
  <2>1. CASE record_failure(t)
    <3>1. CASE fails + 1 >= LockoutFails
      BY <1>1, <2>1, <3>1, SignInAssumption DEF record_failure, SignInInv, SignInTypeOK
    <3>2. CASE ~(fails + 1 >= LockoutFails)
      <4>1. /\ fails' = fails + 1 /\ streak' = streak + 1 /\ failsLeft' = FailWindow /\ lockLeft' = lockLeft
            /\ throttleLeft' \in {throttleLeft, get_delay(fails + 1)}
            /\ throttledBy' = {t} \/ UNCHANGED <<throttledBy, throttleLeft>>
        BY <2>1, <3>2 DEF record_failure
      <4>2. fails + 1 \in 0..LockoutFails /\ FailWindow \in 0..FailWindow /\ fails + 1 \in Nat
        BY <1>1, <3>2, SignInAssumption
      <4>3. QED
        BY <1>1, <1>2, <4>1, <4>2 DEF SignInInv, SignInTypeOK
    <3>3. QED
      BY <3>1, <3>2
  <2>2. CASE login_user(t)
    BY <1>1, <2>2, SignInAssumption DEF login_user, reset_counters, SignInInv, SignInTypeOK
  <2>3. QED
    BY <1>1, <2>1, <2>2 DEF record_failure, login_user
<1>4. PICK answer \in {"locked", "wait", "wrong", "code", "in"}, seconds \in Nat :
        /\ Refuse(t, answer, seconds)
        /\ answer = "wait" => seconds = throttleLeft'
  <2>1. CASE record_failure(t)
    BY <1>1, <1>2, <2>1 DEF record_failure
  <2>2. CASE login_user(t)
    BY <2>2 DEF login_user
  <2>3. QED
    BY <1>1, <2>1, <2>2 DEF record_failure, login_user
<1>5. PICK r \in SignInTab :
        /\ signIn' = [signIn EXCEPT ![t] = r]
        /\ r.told = signIn[t].told /\ r.answer = answer /\ r.seconds = seconds
  <2> DEFINE r == [signIn[t] EXCEPT !.step = "answered", !.answer = answer, !.seconds = seconds]
  <2>1. /\ r \in SignInTab /\ r.answer = answer /\ r.seconds = seconds /\ r.told = signIn[t].told
        /\ signIn' = [signIn EXCEPT ![t] = r]
    BY <1>1, <1>4 DEF SignInTab, Refuse
  <2>2. QED
    BY <2>1
<1>6. /\ signIn' \in [SignInTabs -> SignInTab]
      /\ signIn'[t] = r /\ \A u \in SignInTabs \ {t} : signIn'[u] = signIn[u]
  BY <1>1, <1>5
<1>7. SignInTypeOK' /\ FailuresInARow'
  BY <1>1, <1>3, <1>6 DEF SignInInv, SignInTypeOK, FailuresInARow, SignInTab
<1>8. ASSUME NEW u \in SignInTabs PROVE WaitsEnough(signIn[u], u)'
  <2>1. CASE u = t
    <3>1. answer = "wait" => seconds >= throttleLeft'
      BY <1>3, <1>4
    <3>2. QED
      BY <1>1, <1>5, <1>6, <2>1, <3>1 DEF WaitsEnough
  <2>2. CASE u # t
    BY <1>3, <1>6, <2>2 DEF SignInInv, WaitsEnough
  <2>3. QED
    BY <2>1, <2>2
<1>9. QED
  BY <1>7, <1>8 DEF SignInInv

(* The clock takes from the page's wait and from the server's alike. *)
LEMMA SecondKeepsSignIn ==
  ASSUME SignInInv, SecondPasses
  PROVE  SignInInv'
<1>1. /\ signIn \in [SignInTabs -> SignInTab]
      /\ throttleLeft \in Nat /\ fails \in 0..LockoutFails /\ fails = streak /\ failsLeft \in 0..FailWindow
      /\ lockLeft \in 0..LockoutTime
  BY DEF SignInInv, SignInTypeOK, SignInTab, FailuresInARow
<1>2. ASSUME NEW n \in Nat PROVE Less(n) \in Nat /\ Less(n) <= n
  BY DEF Less
<1>3. ASSUME NEW n \in Nat, NEW k \in Nat, n >= k PROVE Less(n) >= Less(k)
  BY <1>3 DEF Less
<1>4. ASSUME NEW u \in SignInTabs
      PROVE  /\ signIn'[u] \in SignInTab
             /\ signIn'[u].page = signIn[u].page /\ signIn'[u].told = signIn[u].told
             /\ signIn'[u].step = signIn[u].step /\ signIn'[u].answer = signIn[u].answer
             /\ signIn'[u].seconds = signIn[u].seconds /\ signIn'[u].cooldown = Less(signIn[u].cooldown)
  <2> DEFINE c == Less(signIn[u].cooldown)
  <2>1. c \in Nat
    BY <1>1, <1>2 DEF SignInTab
  <2>2. signIn'[u] = [signIn[u] EXCEPT !.cooldown = c]
    BY DEF SecondPasses
  <2> HIDE DEF c
  <2>3. /\ signIn'[u] \in SignInTab
        /\ signIn'[u].page = signIn[u].page /\ signIn'[u].told = signIn[u].told
        /\ signIn'[u].step = signIn[u].step /\ signIn'[u].answer = signIn[u].answer
        /\ signIn'[u].seconds = signIn[u].seconds /\ signIn'[u].cooldown = c
    BY <1>1, <2>1, <2>2 DEF SignInTab
  <2>4. QED
    BY <2>3 DEF c
<1>5. signIn' \in [SignInTabs -> SignInTab]
  <2>1. signIn' = [u \in SignInTabs |-> signIn'[u]]
    BY DEF SecondPasses
  <2>2. QED
    BY <1>4, <2>1
<1>6. SignInTypeOK' /\ FailuresInARow'
  <2>1. /\ failsLeft' \in 0..FailWindow /\ throttleLeft' \in Nat /\ lockLeft' \in 0..LockoutTime
    BY <1>1, <1>2, SignInAssumption DEF SecondPasses, Less
  <2>2. fails' \in 0..LockoutFails /\ streak' \in Nat /\ fails' = streak'
    BY <1>1, SignInAssumption DEF SecondPasses, SignInInv, SignInTypeOK
  <2>3. QED
    BY <1>5, <2>1, <2>2 DEF SecondPasses, SignInInv, SignInTypeOK, FailuresInARow, SignInTab
<1>7. ASSUME NEW u \in SignInTabs PROVE WaitsEnough(signIn[u], u)'
  <2>1. WaitsEnough(signIn[u], u) /\ throttledBy' = throttledBy /\ throttleLeft' = Less(throttleLeft)
    BY DEF SignInInv, SecondPasses
  <2>2. signIn[u].cooldown \in Nat /\ signIn[u].seconds \in Nat
    BY <1>1 DEF SignInTab
  <2>3. Less(throttleLeft) \in Nat /\ Less(throttleLeft) <= throttleLeft
    BY <1>1, <1>2
  <2>4. signIn[u].cooldown >= throttleLeft => Less(signIn[u].cooldown) >= Less(throttleLeft)
    BY <1>1, <1>3, <2>2
  <2>5. signIn[u].seconds >= throttleLeft => signIn[u].seconds >= Less(throttleLeft)
    BY <1>1, <2>2, <2>3
  <2>6. QED
    BY <1>4, <2>1, <2>4, <2>5 DEF WaitsEnough
<1>8. QED
  BY <1>6, <1>7 DEF SignInInv

LEMMA SignInKept == SignInInv /\ [SignInNext]_signInVars => SignInInv'
<1>1. SUFFICES ASSUME SignInInv, [SignInNext]_signInVars PROVE SignInInv'
  OBVIOUS
<1>2. CASE UNCHANGED signInVars
  BY <1>1, <1>2 DEF signInVars, SignInInv, SignInTypeOK, FailuresInARow, WaitsEnough
<1>3. CASE set_2fa_enabled
  BY <1>1, <1>3 DEF set_2fa_enabled, SignInInv, SignInTypeOK, FailuresInARow, WaitsEnough
<1>4. CASE SecondPasses
  BY <1>1, <1>4, SecondKeepsSignIn
<1>5. ASSUME NEW t \in SignInTabs, SignInStep(t) PROVE SignInInv'
  BY <1>1, <1>5, PagesKeepSignIn, FailureKeepsSignIn DEF SignInStep
<1>6. QED
  BY <1>1, <1>2, <1>3, <1>4, <1>5 DEF SignInNext

(* What the invariant says of the button. *)
LEMMA SignInHolds == SignInInv => SignInTypeOK /\ FailuresInARow /\ ButtonWaits
  BY DEF SignInInv, WaitsEnough, ButtonWaits

(* A lock that is longer than before was set by the last failure of a row. *)
LEMMA LockIsOfARow ==
  ASSUME SignInInv, [SignInNext]_signInVars, lockLeft' > lockLeft
  PROVE  streak + 1 >= LockoutFails
<1>1. lockLeft \in Nat /\ ~(lockLeft > lockLeft) /\ Less(lockLeft) <= lockLeft
  BY SignInAssumption DEF SignInInv, SignInTypeOK, Less
<1>2. lockLeft' # lockLeft /\ ~SecondPasses
  <2>1. lockLeft' # lockLeft
    BY <1>1
  <2>2. SecondPasses => lockLeft' = Less(lockLeft)
    BY DEF SecondPasses
  <2>3. Less(lockLeft) \in Nat
    BY <1>1 DEF Less
  <2>4. QED
    BY <1>1, <2>1, <2>2, <2>3
<1>3. PICK t \in SignInTabs : record_failure(t)
  <2>1. PICK t \in SignInTabs : SignInStep(t)
    BY <1>2 DEF SignInNext, signInVars, set_2fa_enabled
  <2>2. record_failure(t)
    BY <1>2, <2>1 DEF SignInStep, handleLogin, check_rate_limits, login_user, LoginAnswer, RequestFails,
       SubmitCode, verify_2fa, CodeAnswer, BackToLogin
  <2>3. QED
    BY <2>2
<1>4. fails + 1 >= LockoutFails
  BY <1>2, <1>3 DEF record_failure
<1>5. QED
  BY <1>4 DEF SignInInv, FailuresInARow

(* login.py, _record_failure and _reset_counters: the counter is the       *)
(* number of failures in a row, whichever requests were between the look   *)
(* at the limits and the password; and a tab whose failure set the wait    *)
(* offers its button no sooner than the server takes a try.                *)
THEOREM SignInAlwaysHolds == SignInSpec => [](SignInTypeOK /\ FailuresInARow /\ ButtonWaits)
  BY SignInStarts, SignInKept, SignInHolds, PTL DEF SignInSpec

(* An account is locked, or locked for longer, only by the last of so many *)
(* failures in a row.                                                      *)
THEOREM LockAlwaysTakesARow == SignInSpec => LockTakesARow
<1>1. SignInInv /\ [SignInNext]_signInVars => [lockLeft' > lockLeft => streak + 1 >= LockoutFails]_signInVars
  BY LockIsOfARow
<1>2. QED
  BY <1>1, SignInStarts, SignInKept, PTL DEF SignInSpec, LockTakesARow

-----------------------------------------------------------------------------
RegTab == [page : {"register", "code", "home"}, wrong : SUBSET {"fields"}, role : RequestedRoles,
           token : 0..MaxRegistrations,
           step : {"idle", "sent", "refused", "found", "written", "done"},
           right : BOOLEAN, told : {"none", "refused", "failed"}]

(* A tab on the code page holds a token that was given out; once its       *)
(* registration is written, the account is made from it.                   *)
OwnToken(r) ==
  /\ r.token \in 0..promised
  /\ r.page = "code" \/ (r.page = "register" /\ r.step = "done") => r.token # 0
  /\ r.step \in {"found", "written"} => r.page = "code"
  /\ r.step = "written" \/ (r.page = "code" /\ r.step = "done") \/ r.page = "home"
     => account # 0 /\ r.token = account

RegisteringInv ==
  /\ RegisteringTypeOK /\ HomeIsTheirOwn
  /\ account \in 0..promised
  /\ \A t \in RegTabs : OwnToken(reg[t])

-----------------------------------------------------------------------------
LEMMA RegisteringStarts == RegisteringInit => RegisteringInv
  BY RegisteringAssumption
     DEF RegisteringInit, RegisteringInv, RegisteringTypeOK, HomeIsTheirOwn, OwnToken, AtRegister, Tokens, RequestedRoles

LEMMA RegisteringFacts ==
  ASSUME RegisteringInv
  PROVE  /\ reg \in [RegTabs -> RegTab]
         /\ \A t \in RegTabs : reg[t] \in RegTab /\ OwnToken(reg[t])
         /\ promised \in 0..MaxRegistrations /\ MaxRegistrations \in Nat
         /\ account \in 0..promised
         /\ pendings \in [Tokens -> [role : RequestedRoles, left : 0..PendingTime]]
         /\ asked \subseteq Tokens
         /\ asked = {n \in Tokens : n = account /\ pendings[n].role = "firefighter"}
  BY RegisteringAssumption DEF RegisteringInv, RegisteringTypeOK, RegTab, HomeIsTheirOwn

(* A step of one tab that touches neither the account nor a promise. *)
LEMMA TabKeepsRegistering ==
  ASSUME RegisteringInv, NEW t \in RegTabs, NEW r \in RegTab, reg' = [reg EXCEPT ![t] = r],
         UNCHANGED <<pendings, account, asked, promised>>, codesSent' \in 0..MaxCodes, OwnToken(r)
  PROVE  RegisteringInv'
<1>1. /\ reg \in [RegTabs -> RegTab] /\ reg' \in [RegTabs -> RegTab]
      /\ reg'[t] = r /\ \A u \in RegTabs \ {t} : reg'[u] = reg[u]
  BY RegisteringFacts
<1>2. RegisteringTypeOK'
  BY <1>1 DEF RegisteringInv, RegisteringTypeOK, RegTab
<1>3. ASSUME NEW u \in RegTabs PROVE OwnToken(reg[u])'
  BY <1>1 DEF RegisteringInv, OwnToken
<1>4. HomeIsTheirOwn'
  BY <1>3 DEF RegisteringInv, HomeIsTheirOwn, OwnToken
<1>5. QED
  BY <1>2, <1>3, <1>4 DEF RegisteringInv

LEMMA PagesKeepRegistering ==
  ASSUME RegisteringInv, NEW t \in RegTabs,
         \/ handleChange(t) \/ handleSubmit(t) \/ RegisterAnswer(t) \/ OpenCodePage(t) \/ SendCode(t)
         \/ get_pending_registration(t) \/ CompletionAnswer(t) \/ AnswerLost(t) \/ StartAgain(t)
  PROVE  RegisteringInv'
<1>1. /\ reg \in [RegTabs -> RegTab] /\ reg[t] \in RegTab /\ OwnToken(reg[t])
      /\ promised \in 0..MaxRegistrations /\ MaxRegistrations \in Nat /\ account \in 0..promised
      /\ AtRegister \in RegTab
  BY RegisteringFacts DEF AtRegister, RegTab, RequestedRoles
<1>2. UNCHANGED <<pendings, account, asked, promised>>
  BY DEF handleChange, handleSubmit, RegisterAnswer, OpenCodePage, SendCode, get_pending_registration,
         CompletionAnswer, AnswerLost, StartAgain
<1>3. codesSent' \in 0..MaxCodes
  <2>1. codesSent' = codesSent \/ (codesSent < MaxCodes /\ codesSent' = codesSent + 1)
    BY DEF handleChange, handleSubmit, RegisterAnswer, OpenCodePage, SendCode, get_pending_registration,
           CompletionAnswer, AnswerLost, StartAgain
  <2>2. QED
    BY <2>1, RegisteringAssumption DEF RegisteringInv, RegisteringTypeOK
<1>4. SUFFICES \E r \in RegTab : reg' = [reg EXCEPT ![t] = r] /\ OwnToken(r)
  BY <1>2, <1>3, TabKeepsRegistering
<1>5. CASE handleChange(t)
  <2>1. CASE reg' = [reg EXCEPT ![t].wrong = {}]
    <3> DEFINE r == [reg[t] EXCEPT !.wrong = {}]
    <3>1. /\ r \in RegTab /\ r.page = reg[t].page /\ r.step = reg[t].step /\ r.token = reg[t].token
          /\ reg' = [reg EXCEPT ![t] = r]
      BY <1>1, <2>1 DEF RegTab
    <3>2. QED
      BY <1>1, <3>1 DEF OwnToken
  <2>2. CASE \E as \in RequestedRoles : reg' = [reg EXCEPT ![t].role = as]
    <3>1. PICK as \in RequestedRoles : reg' = [reg EXCEPT ![t].role = as]
      BY <2>2
    <3> DEFINE r == [reg[t] EXCEPT !.role = as]
    <3>2. /\ r \in RegTab /\ r.page = reg[t].page /\ r.step = reg[t].step /\ r.token = reg[t].token
          /\ reg' = [reg EXCEPT ![t] = r]
      BY <1>1, <3>1 DEF RegTab
    <3>3. QED
      BY <1>1, <3>2 DEF OwnToken
  <2>3. QED
    BY <1>5, <2>1, <2>2 DEF handleChange
<1>6. CASE handleSubmit(t)
  <2>0. reg[t].page = "register" /\ reg[t].step = "idle"
    BY <1>6 DEF handleSubmit, RegisterView
  <2>1. CASE reg' = [reg EXCEPT ![t].step = "sent", ![t].wrong = {}, ![t].told = "none"]
    <3> DEFINE r == [reg[t] EXCEPT !.step = "sent", !.wrong = {}, !.told = "none"]
    <3>1. /\ r \in RegTab /\ r.page = reg[t].page /\ r.step = "sent" /\ r.token = reg[t].token
          /\ reg' = [reg EXCEPT ![t] = r]
      BY <1>1, <2>1 DEF RegTab
    <3>2. QED
      BY <1>1, <2>0, <3>1 DEF OwnToken
  <2>2. CASE reg' = [reg EXCEPT ![t].wrong = {"fields"}, ![t].told = "none"]
    <3> DEFINE r == [reg[t] EXCEPT !.wrong = {"fields"}, !.told = "none"]
    <3>1. /\ r \in RegTab /\ r.page = reg[t].page /\ r.step = reg[t].step /\ r.token = reg[t].token
          /\ reg' = [reg EXCEPT ![t] = r]
      BY <1>1, <2>2 DEF RegTab
    <3>2. QED
      BY <1>1, <3>1 DEF OwnToken
  <2>3. QED
    BY <1>6, <2>1, <2>2 DEF handleSubmit
<1>7. CASE RegisterAnswer(t)
  <2> DEFINE done == reg[t].step = "done"
             r == [reg[t] EXCEPT !.step = "idle", !.page = IF done THEN "code" ELSE @,
                                 !.told = IF done THEN @ ELSE "refused"]
  <2>1. r \in RegTab
    BY <1>1 DEF RegTab
  <2>2. reg' = [reg EXCEPT ![t] = r]
    BY <1>1, <1>7 DEF RegisterAnswer
  <2>3. /\ r.step = "idle" /\ r.token = reg[t].token /\ r.page \in {"register", "code"}
        /\ r.page = "code" => done
        /\ reg[t].page = "register"
    BY <1>1, <1>7 DEF RegTab, RegisterAnswer
  <2>4. OwnToken(r)
    BY <1>1, <2>3 DEF OwnToken
  <2>5. QED
    BY <2>1, <2>2, <2>4
<1>8. CASE OpenCodePage(t)
  <2>1. PICK u \in RegTabs :
          /\ reg[u].page = "code" /\ reg[t] = AtRegister
          /\ reg' = [reg EXCEPT ![t].page = "code", ![t].token = reg[u].token, ![t].role = reg[u].role]
    BY <1>8 DEF OpenCodePage
  <2>2. reg[u] \in RegTab /\ OwnToken(reg[u])
    BY RegisteringFacts
  <2> DEFINE r == [reg[t] EXCEPT !.page = "code", !.token = reg[u].token, !.role = reg[u].role]
  <2>3. /\ r \in RegTab /\ r.page = "code" /\ r.step = "idle" /\ r.token = reg[u].token
        /\ reg' = [reg EXCEPT ![t] = r]
    BY <1>1, <2>1, <2>2 DEF RegTab, AtRegister
  <2>4. OwnToken(r)
    BY <2>1, <2>2, <2>3 DEF OwnToken
  <2>5. QED
    BY <2>3, <2>4
<1>9. CASE SendCode(t)
  <2>1. PICK right \in BOOLEAN : reg' = [reg EXCEPT ![t].step = "sent", ![t].right = right, ![t].told = "none"]
    BY <1>9 DEF SendCode
  <2> DEFINE r == [reg[t] EXCEPT !.step = "sent", !.right = right, !.told = "none"]
  <2>2. /\ r \in RegTab /\ r.page = reg[t].page /\ r.step = "sent" /\ r.token = reg[t].token
        /\ reg' = [reg EXCEPT ![t] = r]
    BY <1>1, <2>1 DEF RegTab
  <2>3. reg[t].page = "code"
    BY <1>9 DEF SendCode, SetupView
  <2>4. QED
    BY <1>1, <2>2, <2>3 DEF OwnToken
<1>10. CASE get_pending_registration(t)
  <2>1. PICK step \in {"found", "refused"} : reg' = [reg EXCEPT ![t].step = step]
    BY <1>10 DEF get_pending_registration
  <2> DEFINE r == [reg[t] EXCEPT !.step = step]
  <2>2. /\ r \in RegTab /\ r.page = reg[t].page /\ r.step = step /\ r.token = reg[t].token
        /\ reg' = [reg EXCEPT ![t] = r]
    BY <1>1, <2>1 DEF RegTab
  <2>3. reg[t].page = "code"
    BY <1>10 DEF get_pending_registration
  <2>4. QED
    BY <1>1, <2>2, <2>3 DEF OwnToken
<1>11. CASE CompletionAnswer(t)
  <2> DEFINE done == reg[t].step = "done"
             r == [reg[t] EXCEPT !.step = "idle", !.page = IF done THEN "home" ELSE @,
                                 !.told = IF done THEN @ ELSE "refused"]
  <2>1. r \in RegTab
    BY <1>1 DEF RegTab
  <2>2. reg' = [reg EXCEPT ![t] = r]
    BY <1>1, <1>11 DEF CompletionAnswer
  <2>3. /\ r.step = "idle" /\ r.token = reg[t].token /\ r.page \in {"home", "code"}
        /\ r.page = "home" => done
        /\ reg[t].page = "code"
    BY <1>1, <1>11 DEF RegTab, CompletionAnswer
  <2>4. OwnToken(r)
    BY <1>1, <2>3 DEF OwnToken
  <2>5. QED
    BY <2>1, <2>2, <2>4
<1>12. CASE AnswerLost(t)
  <2>0. /\ reg[t].page = "register" =>
              reg' = [reg EXCEPT ![t] = [reg[t] EXCEPT !.step = "idle", !.told = "failed", !.token = 0]]
        /\ reg[t].page # "register" =>
              reg' = [reg EXCEPT ![t] = [reg[t] EXCEPT !.step = "idle", !.told = "failed", !.token = reg[t].token]]
    BY <1>1, <1>12 DEF RegTab, AnswerLost
  <2>1. PICK n \in 0..promised :
          /\ reg[t].page # "register" => n = reg[t].token
          /\ reg' = [reg EXCEPT ![t] = [reg[t] EXCEPT !.step = "idle", !.told = "failed", !.token = n]]
    <3>1. 0 \in 0..promised /\ reg[t].token \in 0..promised
      BY <1>1 DEF OwnToken
    <3>2. QED
      BY <2>0, <3>1
  <2> DEFINE r == [reg[t] EXCEPT !.step = "idle", !.told = "failed", !.token = n]
  <2>2. r \in RegTab /\ r.page = reg[t].page /\ r.step = "idle" /\ r.token = n
    <3>1. n \in 0..MaxRegistrations
      BY <1>1
    <3>2. QED
      BY <1>1, <3>1 DEF RegTab
  <2>3. OwnToken(r)
    BY <1>1, <2>1, <2>2 DEF OwnToken
  <2>4. QED
    BY <2>1, <2>2, <2>3
<1>13. CASE StartAgain(t)
  <2>1. OwnToken(AtRegister)
    BY <1>1 DEF AtRegister, OwnToken
  <2>2. QED
    BY <1>1, <1>13, <2>1 DEF StartAgain
<1>14. QED
  BY <1>5, <1>6, <1>7, <1>8, <1>9, <1>10, <1>11, <1>12, <1>13

(* A promise is a new one: no account is made from it yet. *)
LEMMA PromiseKeepsRegistering ==
  ASSUME RegisteringInv, NEW t \in RegTabs, register_user(t)
  PROVE  RegisteringInv'
<1>1. /\ reg \in [RegTabs -> RegTab] /\ reg[t] \in RegTab /\ OwnToken(reg[t])
      /\ promised \in 0..MaxRegistrations /\ MaxRegistrations \in Nat /\ account \in 0..promised
      /\ pendings \in [Tokens -> [role : RequestedRoles, left : 0..PendingTime]]
      /\ reg[t].page = "register" /\ reg[t].step = "sent" /\ promised < MaxRegistrations
      /\ UNCHANGED <<account, asked, codesSent>>
      /\ asked = {n \in Tokens : n = account /\ pendings[n].role = "firefighter"}
  BY RegisteringFacts DEF register_user
<1>2. CASE account # 0
  <2>1. reg' = [reg EXCEPT ![t].step = "refused"] /\ UNCHANGED <<pendings, promised>>
    BY <1>2 DEF register_user
  <2> DEFINE r == [reg[t] EXCEPT !.step = "refused"]
  <2>2. /\ r \in RegTab /\ r.page = "register" /\ r.step = "refused" /\ r.token = reg[t].token
        /\ reg' = [reg EXCEPT ![t] = r]
    BY <1>1, <2>1 DEF RegTab
  <2>3. OwnToken(r) /\ codesSent' \in 0..MaxCodes
    BY <1>1, <2>2 DEF OwnToken, RegisteringInv, RegisteringTypeOK
  <2>4. QED
    BY <1>1, <2>1, <2>2, <2>3, TabKeepsRegistering
<1>3. CASE account = 0
  <2> DEFINE n == promised + 1
             r == [reg[t] EXCEPT !.step = "done", !.token = n]
             p == [role |-> reg[t].role, left |-> PendingTime]
  <2>1. /\ promised' = n /\ pendings' = [pendings EXCEPT ![n] = p]
        /\ n \in Tokens /\ n \in 0..MaxRegistrations /\ n # 0 /\ n \in 0..n /\ 0..promised \subseteq 0..n
    BY <1>1, <1>3 DEF register_user, Tokens
  <2>2. /\ r \in RegTab /\ r.page = "register" /\ r.step = "done" /\ r.token = n
    BY <1>1, <2>1 DEF RegTab
  <2>3. reg' = [reg EXCEPT ![t] = r]
    BY <1>1, <1>3 DEF register_user, RegTab
  <2>4. p \in [role : RequestedRoles, left : 0..PendingTime]
    BY <1>1, RegisteringAssumption DEF RegTab
  <2> HIDE DEF n, r, p
  <2>5. /\ reg' \in [RegTabs -> RegTab] /\ reg'[t] = r
        /\ \A u \in RegTabs \ {t} : reg'[u] = reg[u]
        /\ pendings' \in [Tokens -> [role : RequestedRoles, left : 0..PendingTime]]
    BY <1>1, <2>1, <2>2, <2>3, <2>4
  <2>6. ASSUME NEW u \in RegTabs PROVE OwnToken(reg[u])'
    <3>1. CASE u = t
      BY <1>1, <1>3, <2>1, <2>2, <2>5, <3>1 DEF OwnToken
    <3>2. CASE u # t
      BY <1>1, <2>1, <2>5, <3>2, RegisteringFacts DEF OwnToken
    <3>3. QED
      BY <3>1, <3>2
  <2>7. asked = {} /\ \A k \in Tokens : k # 0
    BY <1>1, <1>3 DEF Tokens
  <2>8. HomeIsTheirOwn'
    BY <1>1, <1>3, <2>6, <2>7 DEF HomeIsTheirOwn, OwnToken
  <2>9. RegisteringTypeOK'
    BY <1>1, <2>1, <2>5 DEF RegisteringInv, RegisteringTypeOK, RegTab
  <2>10. QED
    BY <1>1, <2>1, <2>6, <2>8, <2>9 DEF RegisteringInv
<1>4. QED
  BY <1>2, <1>3

(* The account is made once, from the token of the tab that makes it. *)
LEMMA AccountKeepsRegistering ==
  ASSUME RegisteringInv, NEW t \in RegTabs, complete_registration(t)
  PROVE  RegisteringInv'
<1>1. /\ reg \in [RegTabs -> RegTab] /\ reg[t] \in RegTab /\ OwnToken(reg[t])
      /\ promised \in 0..MaxRegistrations /\ MaxRegistrations \in Nat /\ account \in 0..promised
      /\ asked = {n \in Tokens : n = account /\ pendings[n].role = "firefighter"}
      /\ reg[t].page = "code" /\ reg[t].step = "found"
      /\ UNCHANGED <<pendings, promised, codesSent>>
  BY RegisteringFacts DEF complete_registration
<1>2. CASE account # 0
  <2>1. reg' = [reg EXCEPT ![t].step = "refused"] /\ UNCHANGED <<account, asked>>
    BY <1>2 DEF complete_registration
  <2> DEFINE r == [reg[t] EXCEPT !.step = "refused"]
  <2>2. /\ r \in RegTab /\ r.page = "code" /\ r.step = "refused" /\ r.token = reg[t].token
        /\ reg' = [reg EXCEPT ![t] = r]
    BY <1>1, <2>1 DEF RegTab
  <2>3. OwnToken(r) /\ codesSent' \in 0..MaxCodes
    BY <1>1, <2>2 DEF OwnToken, RegisteringInv, RegisteringTypeOK
  <2>4. QED
    BY <1>1, <2>1, <2>2, <2>3, TabKeepsRegistering
<1>3. CASE account = 0
  <2> DEFINE n == reg[t].token
             r == [reg[t] EXCEPT !.step = "written"]
  <2>1. /\ account' = n /\ n \in 1..promised /\ n \in Tokens /\ n \in 0..MaxRegistrations
        /\ asked' = IF pendings[n].role = "firefighter" THEN asked \cup {n} ELSE asked
    BY <1>1, <1>3 DEF complete_registration, OwnToken, Tokens
  <2>2. r \in RegTab /\ r.page = "code" /\ r.step = "written" /\ r.token = n
    BY <1>1 DEF RegTab
  <2>3. reg' = [reg EXCEPT ![t] = r]
    BY <1>1, <1>3 DEF complete_registration, RegTab
  <2> HIDE DEF n, r
  <2>4. /\ reg' \in [RegTabs -> RegTab] /\ reg'[t] = r
        /\ \A u \in RegTabs \ {t} : reg'[u] = reg[u]
    BY <1>1, <2>2, <2>3
  <2>5. ASSUME NEW u \in RegTabs PROVE OwnToken(reg[u])'
    <3>1. CASE u = t
      BY <1>1, <2>1, <2>2, <2>4, <3>1 DEF OwnToken
    <3>2. CASE u # t
      BY <1>1, <1>3, <2>1, <2>4, <3>2, RegisteringFacts DEF OwnToken
    <3>3. QED
      BY <3>1, <3>2
  <2>6. asked = {}
    BY <1>1, <1>3 DEF Tokens
  <2>7. asked' = {k \in Tokens : k = account' /\ pendings'[k].role = "firefighter"}
    BY <1>1, <2>1, <2>6
  <2>8. HomeIsTheirOwn'
    BY <2>5, <2>7 DEF HomeIsTheirOwn, OwnToken
  <2>9. RegisteringTypeOK'
    BY <1>1, <2>1, <2>4, <2>7 DEF RegisteringInv, RegisteringTypeOK, RegTab
  <2>10. account' \in 0..promised'
    BY <1>1, <2>1
  <2>11. QED
    BY <2>5, <2>8, <2>9, <2>10 DEF RegisteringInv
<1>4. QED
  BY <1>2, <1>3

(* A promise that is forgotten, or runs out, still has its role. *)
LEMMA ForgettingKeepsRegistering ==
  ASSUME RegisteringInv, NEW t \in RegTabs, delete_pending_registration(t)
  PROVE  RegisteringInv'
<1>1. /\ reg \in [RegTabs -> RegTab] /\ reg[t] \in RegTab /\ OwnToken(reg[t])
      /\ pendings \in [Tokens -> [role : RequestedRoles, left : 0..PendingTime]]
      /\ asked = {n \in Tokens : n = account /\ pendings[n].role = "firefighter"}
      /\ reg[t].step = "written"
      /\ UNCHANGED <<account, asked, promised, codesSent>>
      /\ 0 \in 0..PendingTime
  BY RegisteringFacts, RegisteringAssumption DEF delete_pending_registration
<1> DEFINE n == reg[t].token
           r == [reg[t] EXCEPT !.step = "done"]
<1>2. r \in RegTab /\ r.page = reg[t].page /\ r.step = "done" /\ r.token = n
  BY <1>1 DEF RegTab
<1>3. reg' = [reg EXCEPT ![t] = r] /\ pendings' = [pendings EXCEPT ![n].left = 0]
  BY <1>1 DEF delete_pending_registration, RegTab
<1> HIDE DEF n, r
<1>4. /\ reg' \in [RegTabs -> RegTab] /\ reg'[t] = r
      /\ \A u \in RegTabs \ {t} : reg'[u] = reg[u]
  BY <1>1, <1>2, <1>3
<1>5. /\ pendings' \in [Tokens -> [role : RequestedRoles, left : 0..PendingTime]]
      /\ \A k \in Tokens : pendings'[k].role = pendings[k].role
  BY <1>1, <1>3
<1>6. ASSUME NEW u \in RegTabs PROVE OwnToken(reg[u])'
  <2>1. CASE u = t
    BY <1>1, <1>2, <1>4, <2>1 DEF OwnToken, n
  <2>2. CASE u # t
    BY <1>1, <1>4, <2>2, RegisteringFacts DEF OwnToken
  <2>3. QED
    BY <2>1, <2>2
<1>7. HomeIsTheirOwn'
  BY <1>1, <1>5, <1>6 DEF HomeIsTheirOwn, OwnToken
<1>8. RegisteringTypeOK'
  BY <1>1, <1>4, <1>5 DEF RegisteringInv, RegisteringTypeOK, RegTab
<1>9. QED
  BY <1>1, <1>6, <1>7, <1>8 DEF RegisteringInv

LEMMA ExpiryKeepsRegistering ==
  ASSUME RegisteringInv, PendingsExpire
  PROVE  RegisteringInv'
<1>1. /\ pendings \in [Tokens -> [role : RequestedRoles, left : 0..PendingTime]]
      /\ PendingTime \in Nat
      /\ UNCHANGED <<account, asked, reg, promised, codesSent>>
  BY RegisteringFacts, RegisteringAssumption DEF PendingsExpire
<1>2. ASSUME NEW k \in Tokens
      PROVE  /\ pendings'[k] \in [role : RequestedRoles, left : 0..PendingTime]
             /\ pendings'[k].role = pendings[k].role
  <2>1. PICK left \in 0..PendingTime : pendings'[k] = [pendings[k] EXCEPT !.left = left]
    <3> DEFINE left == IF pendings[k].left > 0 THEN pendings[k].left - 1 ELSE 0
    <3>1. left \in 0..PendingTime
      BY <1>1
    <3>2. pendings'[k] = [pendings[k] EXCEPT !.left = left]
      BY DEF PendingsExpire
    <3>3. QED
      BY <3>1, <3>2
  <2>2. QED
    BY <1>1, <2>1
<1>3. pendings' \in [Tokens -> [role : RequestedRoles, left : 0..PendingTime]]
  <2>1. pendings' = [k \in Tokens |-> pendings'[k]]
    BY DEF PendingsExpire
  <2>2. QED
    BY <1>2, <2>1
<1>4. RegisteringTypeOK' /\ HomeIsTheirOwn'
  BY <1>1, <1>2, <1>3 DEF RegisteringInv, RegisteringTypeOK, HomeIsTheirOwn
<1>5. QED
  BY <1>1, <1>4 DEF RegisteringInv, OwnToken

LEMMA RegisteringKept == RegisteringInv /\ [RegisteringNext]_registeringVars => RegisteringInv'
<1>1. SUFFICES ASSUME RegisteringInv, [RegisteringNext]_registeringVars PROVE RegisteringInv'
  OBVIOUS
<1>2. CASE UNCHANGED registeringVars
  BY <1>1, <1>2 DEF registeringVars, RegisteringInv, RegisteringTypeOK, HomeIsTheirOwn, OwnToken
<1>3. CASE PendingsExpire
  BY <1>1, <1>3, ExpiryKeepsRegistering
<1>4. ASSUME NEW t \in RegTabs, RegisteringStep(t) PROVE RegisteringInv'
  BY <1>1, <1>4, PagesKeepRegistering, PromiseKeepsRegistering, AccountKeepsRegistering,
     ForgettingKeepsRegistering DEF RegisteringStep
<1>5. QED
  BY <1>1, <1>2, <1>3, <1>4 DEF RegisteringNext

(* An account is written only where there is none. *)
LEMMA AccountIsKept ==
  ASSUME [RegisteringNext]_registeringVars, account # 0
  PROVE  account' = account
<1>1. CASE UNCHANGED registeringVars \/ PendingsExpire
  BY <1>1 DEF registeringVars, PendingsExpire
<1>2. ASSUME NEW t \in RegTabs, RegisteringStep(t) PROVE account' = account
  BY <1>2 DEF RegisteringStep, handleChange, handleSubmit, register_user, RegisterAnswer, OpenCodePage,
     SendCode, get_pending_registration, complete_registration, delete_pending_registration,
     CompletionAnswer, AnswerLost, StartAgain
<1>3. QED
  BY <1>1, <1>2 DEF RegisteringNext

(* register.py, complete_registration: a tab that is led home has the      *)
(* account of its own registration, which asks for the role of that        *)
(* registration, however many wait for the email or complete at once.      *)
THEOREM HomeIsAlwaysTheirOwn == RegisteringSpec => [](RegisteringTypeOK /\ HomeIsTheirOwn)
<1>1. RegisteringInv => RegisteringTypeOK /\ HomeIsTheirOwn
  BY DEF RegisteringInv
<1>2. QED
  BY <1>1, RegisteringStarts, RegisteringKept, PTL DEF RegisteringSpec

(* An account, once made, stays whose it is. *)
THEOREM AccountAlwaysStays == RegisteringSpec => AccountStays
<1>1. [RegisteringNext]_registeringVars => [account # 0 => account' = account]_registeringVars
  BY AccountIsKept
<1>2. QED
  BY <1>1, PTL DEF RegisteringSpec, AccountStays

-----------------------------------------------------------------------------
ResetTab == [page : {"forgot", "reset"}, link : 0..MaxLinks, typed : Passwords,
             step : {"idle", "sent", "found", "done", "refused"},
             told : {"none", "wrong", "sent", "set", "refused", "failed"}]

UsedLinks == {setBy[i] : i \in DOMAIN setBy}

(* Links are numbered as they are asked for; a tab that sends a password   *)
(* came with one that was sent.                                            *)
LinksAreSent ==
  /\ linksSent \subseteq 1..linksAsked
  /\ link \in 0..linksAsked
  /\ \A t \in ResetTabs : reset[t].page = "reset" => reset[t].link \in linksSent
  /\ \A t \in ResetTabs : reset[t].step = "found" => reset[t].page = "reset"
  /\ UsedLinks \subseteq 1..linksAsked

(* The row's link has set no password yet. *)
LinkIsFresh == link \notin UsedLinks

(* Two requests that have both found the user of a link are known.         *)
FoundTogether ==
  \A t, u \in ResetTabs :
    t # u /\ reset[t].step = "found" /\ reset[u].step = "found" /\ reset[t].link = reset[u].link
    => reset[t].link \in raced

(* A request that found the user of a link already used was not alone. *)
LateWasTogether ==
  \A t \in ResetTabs : reset[t].step = "found" /\ reset[t].link \in UsedLinks => reset[t].link \in raced

(* What the server has done is there before a page says so. *)
DoneIsDone ==
  \A t \in ResetTabs :
    reset[t].page = "reset" /\ (reset[t].step = "done" \/ reset[t].told = "set") => reset[t].link \in UsedLinks

ResetInv ==
  /\ ResetTypeOK /\ LinksAreSent /\ LinkIsFresh /\ FoundTogether /\ LateWasTogether /\ DoneIsDone
  /\ LinkWorksOnce

-----------------------------------------------------------------------------
LEMMA ResetStarts == ResetInit => ResetInv
  BY ResetAssumption
     DEF ResetInit, ResetInv, ResetTypeOK, LinksAreSent, LinkIsFresh, FoundTogether, LateWasTogether,
         DoneIsDone, LinkWorksOnce, UsedLinks, AtForgot, Links

(* What a link that is used once more does to the list of links used. *)
LEMMA UseOfALink ==
  ASSUME ResetTypeOK, NEW n \in Links, setBy' = Append(setBy, n)
  PROVE  /\ UsedLinks' = UsedLinks \cup {n}
         /\ setBy' \in Seq(Links)
         /\ DOMAIN setBy' = 1..(Len(setBy) + 1)
         /\ setBy'[Len(setBy) + 1] = n
         /\ \A i \in DOMAIN setBy : setBy'[i] = setBy[i]
<1>1. /\ setBy \in Seq(Links) /\ Len(setBy) \in Nat
      /\ DOMAIN setBy = 1..Len(setBy)
  BY DEF ResetTypeOK
<1>2. /\ setBy' \in Seq(Links)
      /\ DOMAIN setBy' = 1..(Len(setBy) + 1)
      /\ setBy'[Len(setBy) + 1] = n
      /\ \A i \in 1..Len(setBy) : setBy'[i] = setBy[i]
  BY <1>1
<1>3. UsedLinks' = UsedLinks \cup {n}
  <2>1. ASSUME NEW x \in UsedLinks' PROVE x \in UsedLinks \cup {n}
    <3>1. PICK i \in 1..(Len(setBy) + 1) : x = setBy'[i]
      BY <1>2, <2>1 DEF UsedLinks
    <3>2. CASE i = Len(setBy) + 1
      BY <1>2, <3>1, <3>2
    <3>3. CASE i \in 1..Len(setBy)
      BY <1>1, <1>2, <3>1, <3>3 DEF UsedLinks
    <3>4. QED
      BY <1>1, <3>2, <3>3
  <2>2. ASSUME NEW x \in UsedLinks PROVE x \in UsedLinks'
    <3>1. PICK i \in 1..Len(setBy) : x = setBy[i]
      BY <1>1, <2>2 DEF UsedLinks
    <3>2. i \in DOMAIN setBy' /\ x = setBy'[i]
      BY <1>1, <1>2, <3>1
    <3>3. QED
      BY <3>2 DEF UsedLinks
  <2>3. n \in UsedLinks'
    <3>1. Len(setBy) + 1 \in DOMAIN setBy'
      BY <1>1, <1>2
    <3>2. QED
      BY <1>2, <3>1 DEF UsedLinks
  <2>4. QED
    BY <2>1, <2>2, <2>3
<1>4. QED
  BY <1>1, <1>2, <1>3

-----------------------------------------------------------------------------
(* The pages' own steps and the clock change no link and no use of one; a  *)
(* tab that starts over has found nothing.                                 *)
LEMMA PagesKeepInv ==
  ASSUME ResetInv, NEW t \in ResetTabs,
         AskForLink(t) \/ OpenLink(t) \/ SetPassword(t) \/ ResetAnswer(t) \/ ForgetAgain(t)
  PROVE  ResetInv'
<1>0. /\ reset \in [ResetTabs -> ResetTab] /\ reset[t] \in ResetTab /\ AtForgot \in ResetTab
      /\ resets \in 0..MaxResets /\ MaxResets \in Nat /\ linksSent \subseteq 0..MaxLinks
      /\ reset[t].page = "reset" => reset[t].link \in linksSent
      /\ reset[t].page = "reset" /\ (reset[t].step = "done" \/ reset[t].told = "set")
         => reset[t].link \in UsedLinks
  BY ResetAssumption DEF ResetInv, ResetTypeOK, ResetTab, AtForgot, LinksAreSent, DoneIsDone, Links
<1>1. /\ UNCHANGED <<link, linkLeft, linksAsked, linksSent, password, setBy, raced>>
      /\ UsedLinks' = UsedLinks
  BY DEF AskForLink, OpenLink, SetPassword, ResetAnswer, ForgetAgain, UsedLinks
<1>2. /\ resets' \in 0..MaxResets
      /\ \E r \in ResetTab :
           /\ reset' = [reset EXCEPT ![t] = r]
           /\ r.step # "found"
           /\ r.page = "reset" => r.link \in linksSent
           /\ r.page = "reset" /\ (r.step = "done" \/ r.told = "set") => r.link \in UsedLinks
  <2>1. CASE AskForLink(t)
    <3>1. resets' = resets /\ reset[t].step = "idle" /\ ForgotView(t).form
      BY <2>1 DEF AskForLink, ForgotView
    <3>2. CASE reset' = [reset EXCEPT ![t].step = "sent", ![t].told = "none"]
      <4> DEFINE r == [reset[t] EXCEPT !.step = "sent", !.told = "none"]
      <4>1. r \in ResetTab /\ r.page = reset[t].page /\ r.link = reset[t].link /\ r.step = "sent" /\ r.told = "none"
        BY <1>0 DEF ResetTab
      <4>2. reset' = [reset EXCEPT ![t] = r]
        BY <1>0, <3>2
      <4>3. QED
        BY <1>0, <3>1, <4>1, <4>2
    <3>3. CASE reset' = [reset EXCEPT ![t].told = "wrong"]
      <4> DEFINE r == [reset[t] EXCEPT !.told = "wrong"]
      <4>1. r \in ResetTab /\ r.page = reset[t].page /\ r.link = reset[t].link /\ r.step = "idle" /\ r.told = "wrong"
        BY <1>0, <3>1 DEF ResetTab
      <4>2. reset' = [reset EXCEPT ![t] = r]
        BY <1>0, <3>3
      <4>3. QED
        BY <1>0, <3>1, <4>1, <4>2
    <3>4. QED
      BY <2>1, <3>2, <3>3 DEF AskForLink
  <2>2. CASE OpenLink(t)
    <3>1. PICK l \in linksSent : reset' = [reset EXCEPT ![t] = [page |-> "reset", link |-> l, typed |-> FirstPassword,
                                                             step |-> "idle", told |-> "none"]]
      BY <2>2 DEF OpenLink
    <3>2. [page |-> "reset", link |-> l, typed |-> FirstPassword, step |-> "idle", told |-> "none"] \in ResetTab
      BY <1>0, ResetAssumption DEF ResetTab
    <3>3. resets' = resets
      BY <2>2 DEF OpenLink
    <3>4. QED
      BY <1>0, <3>1, <3>2, <3>3
  <2>3. CASE SetPassword(t)
    <3>1. reset[t].step = "idle"
      BY <2>3 DEF SetPassword, ResetView
    <3>2. CASE resets < MaxResets /\ resets' = resets + 1
               /\ \E p \in Passwords : reset' = [reset EXCEPT ![t].step = "sent", ![t].typed = p, ![t].told = "none"]
      <4>1. PICK p \in Passwords : reset' = [reset EXCEPT ![t].step = "sent", ![t].typed = p, ![t].told = "none"]
        BY <3>2
      <4> DEFINE r == [reset[t] EXCEPT !.step = "sent", !.typed = p, !.told = "none"]
      <4>2. r \in ResetTab /\ r.page = reset[t].page /\ r.link = reset[t].link /\ r.step = "sent" /\ r.told = "none"
        BY <1>0 DEF ResetTab
      <4>3. reset' = [reset EXCEPT ![t] = r]
        BY <1>0, <4>1
      <4>4. resets' \in 0..MaxResets
        BY <1>0, <3>2
      <4>5. QED
        BY <1>0, <4>2, <4>3, <4>4
    <3>3. CASE reset' = [reset EXCEPT ![t].told = "wrong"] /\ resets' = resets
      <4> DEFINE r == [reset[t] EXCEPT !.told = "wrong"]
      <4>1. r \in ResetTab /\ r.page = reset[t].page /\ r.link = reset[t].link /\ r.step = "idle" /\ r.told = "wrong"
        BY <1>0, <3>1 DEF ResetTab
      <4>2. reset' = [reset EXCEPT ![t] = r]
        BY <1>0, <3>3
      <4>3. QED
        BY <1>0, <3>3, <4>1, <4>2
    <3>4. QED
      BY <2>3, <3>2, <3>3 DEF SetPassword
  <2>4. CASE ResetAnswer(t)
    <3>1. PICK heard \in BOOLEAN :
            reset' = [reset EXCEPT ![t].step = "idle",
                       ![t].told = IF ~heard THEN "failed"
                                   ELSE IF reset[t].step = "refused" THEN "refused"
                                   ELSE IF reset[t].page = "forgot" THEN "sent" ELSE "set"]
      BY <2>4 DEF ResetAnswer
    <3> DEFINE answer == IF ~heard THEN "failed"
                         ELSE IF reset[t].step = "refused" THEN "refused"
                         ELSE IF reset[t].page = "forgot" THEN "sent" ELSE "set"
    <3> DEFINE r == [reset[t] EXCEPT !.step = "idle", !.told = answer]
    <3>2. /\ answer \in {"failed", "refused", "sent", "set"}
          /\ answer = "set" => reset[t].step # "refused"
      OBVIOUS
    <3>3. resets' = resets /\ reset[t].step \in {"done", "refused"}
      BY <2>4 DEF ResetAnswer
    <3>4. reset' = [reset EXCEPT ![t] = r]
      BY <1>0, <3>1
    <3> HIDE DEF answer
    <3>5. r \in ResetTab /\ r.page = reset[t].page /\ r.link = reset[t].link /\ r.step = "idle" /\ r.told = answer
      BY <1>0, <3>2 DEF ResetTab
    <3>6. QED
      BY <1>0, <3>2, <3>3, <3>4, <3>5
  <2>5. CASE ForgetAgain(t)
    BY <1>0, <2>5 DEF ForgetAgain, AtForgot
  <2>6. QED
    BY <2>1, <2>2, <2>3, <2>4, <2>5
<1>21. /\ reset' \in [ResetTabs -> ResetTab]
       /\ \A u \in ResetTabs \ {t} : reset'[u] = reset[u]
       /\ reset'[t].step # "found"
       /\ reset'[t].page = "reset" => reset'[t].link \in linksSent
       /\ reset'[t].page = "reset" /\ (reset'[t].step = "done" \/ reset'[t].told = "set")
          => reset'[t].link \in UsedLinks
  BY <1>0, <1>2
<1>3. ResetTypeOK'
  BY <1>1, <1>2, <1>21 DEF ResetInv, ResetTypeOK, ResetTab
<1>4. LinksAreSent' /\ LinkIsFresh'
  BY <1>1, <1>21 DEF ResetInv, LinksAreSent, LinkIsFresh
<1>5. FoundTogether' /\ LateWasTogether'
  BY <1>1, <1>21 DEF ResetInv, FoundTogether, LateWasTogether
<1>6. DoneIsDone'
  BY <1>1, <1>21 DEF ResetInv, DoneIsDone
<1>7. LinkWorksOnce'
  BY <1>1 DEF ResetInv, LinkWorksOnce
<1>8. QED
  BY <1>3, <1>4, <1>5, <1>6, <1>7 DEF ResetInv

(* A new link has a number of its own: no tab and no use has it. *)
LEMMA RequestKeepsInv ==
  ASSUME ResetInv, NEW t \in ResetTabs, request_password_reset(t)
  PROVE  ResetInv'
<1>1. /\ linksAsked \in Nat /\ linksAsked < MaxLinks /\ MaxLinks \in Nat /\ ResetTime \in Nat
      /\ linksAsked' = linksAsked + 1
      /\ UsedLinks' = UsedLinks
      /\ UNCHANGED <<password, resets, setBy, raced>>
      /\ \/ UNCHANGED <<link, linkLeft, linksSent>>
         \/ link' = linksAsked + 1 /\ linkLeft' = ResetTime /\ linksSent' = linksSent \cup {linksAsked + 1}
  BY ResetAssumption DEF request_password_reset, UsedLinks, ResetInv, ResetTypeOK
<1>2. /\ reset[t].page = "forgot" /\ reset' = [reset EXCEPT ![t].step = "done"]
      /\ reset'[t] = [reset[t] EXCEPT !.step = "done"]
      /\ \A u \in ResetTabs \ {t} : reset'[u] = reset[u]
      /\ reset'[t].page = "forgot" /\ reset'[t].step = "done"
  BY DEF request_password_reset, ResetInv, ResetTypeOK
<1>3. ResetTypeOK'
  <2>1. reset \in [ResetTabs -> ResetTab]
    BY DEF ResetInv, ResetTypeOK, ResetTab
  <2>2. reset' \in [ResetTabs -> ResetTab]
    BY <1>2, <2>1 DEF ResetTab
  <2>3. linksAsked' \in 0..MaxLinks /\ link' \in 0..MaxLinks /\ linkLeft' \in 0..ResetTime /\ linksSent' \subseteq Links
    <3>1. linksAsked + 1 \in 1..MaxLinks /\ ResetTime \in 0..ResetTime
      BY <1>1
    <3>2. link \in 0..MaxLinks /\ linkLeft \in 0..ResetTime /\ linksSent \subseteq Links
      BY DEF ResetInv, ResetTypeOK
    <3>3. linksAsked' \in 0..MaxLinks /\ link' \in 0..MaxLinks /\ linkLeft' \in 0..ResetTime
      BY <1>1, <3>1, <3>2
    <3>4. linksSent' \subseteq Links
      BY <1>1, <3>1, <3>2 DEF Links
    <3>5. QED
      BY <3>3, <3>4
  <2>4. QED
    BY <1>1, <2>2, <2>3 DEF ResetInv, ResetTypeOK, ResetTab
<1>4. LinksAreSent'
  BY <1>1, <1>2 DEF ResetInv, LinksAreSent
<1>5. LinkIsFresh'
  BY <1>1 DEF ResetInv, LinksAreSent, LinkIsFresh
<1>6. FoundTogether' /\ LateWasTogether' /\ DoneIsDone'
  BY <1>1, <1>2 DEF ResetInv, FoundTogether, LateWasTogether, DoneIsDone
<1>7. LinkWorksOnce'
  BY <1>1 DEF ResetInv, LinkWorksOnce
<1>8. QED
  BY <1>3, <1>4, <1>5, <1>6, <1>7 DEF ResetInv

(* The user found is the one of the row's link, which is fresh; if another *)
(* request holds it, the two are together.                                 *)
LEMMA FindKeepsInv ==
  ASSUME ResetInv, NEW t \in ResetTabs, reset_password(t)
  PROVE  ResetInv'
<1>1. /\ UsedLinks' = UsedLinks
      /\ UNCHANGED <<password, link, linkLeft, linksAsked, linksSent, resets, setBy>>
  BY DEF reset_password, UsedLinks
<1>2. /\ \A u \in ResetTabs \ {t} : reset'[u] = reset[u]
      /\ reset'[t].page = "reset" /\ reset'[t].link = reset[t].link /\ reset'[t].told = reset[t].told
      /\ reset[t].page = "reset"
      /\ reset'[t].step \in {"found", "refused"}
      /\ reset'[t].step = "found" => reset[t].link = link
      /\ raced' = raced \/ (reset'[t].step = "found" /\ raced' = raced \cup {link})
      /\ \A u \in ResetTabs \ {t} :
           reset'[t].step = "found" /\ reset[u].step = "found" /\ reset[u].link = link => link \in raced'
  BY DEF reset_password, ResetInv, ResetTypeOK
<1>3. ResetTypeOK'
  <2>1. raced' \subseteq Links
    <3>1. CASE raced' = raced
      BY <3>1 DEF ResetInv, ResetTypeOK
    <3>2. CASE reset'[t].step = "found" /\ raced' = raced \cup {link}
      <4>1. link \in linksSent
        BY <1>2, <3>2 DEF ResetInv, LinksAreSent
      <4>2. QED
        BY <3>2, <4>1 DEF ResetInv, ResetTypeOK
    <3>3. QED
      BY <1>2, <3>1, <3>2
  <2>2. reset \in [ResetTabs -> ResetTab]
    BY DEF ResetInv, ResetTypeOK, ResetTab
  <2>3. reset' = [reset EXCEPT ![t].step = "found"] \/ reset' = [reset EXCEPT ![t].step = "refused"]
    BY DEF reset_password
  <2>4. reset' \in [ResetTabs -> ResetTab]
    BY <2>2, <2>3 DEF ResetTab
  <2>5. QED
    BY <1>1, <2>1, <2>4 DEF ResetInv, ResetTypeOK, ResetTab
<1>4. LinksAreSent' /\ LinkIsFresh'
  BY <1>1, <1>2 DEF ResetInv, LinksAreSent, LinkIsFresh
<1>5. FoundTogether'
  BY <1>2 DEF ResetInv, FoundTogether
<1>6. LateWasTogether'
  BY <1>1, <1>2 DEF ResetInv, LateWasTogether, LinkIsFresh
<1>7. DoneIsDone'
  BY <1>1, <1>2 DEF ResetInv, DoneIsDone
<1>8. LinkWorksOnce'
  BY <1>1, <1>2 DEF ResetInv, LinkWorksOnce
<1>9. QED
  BY <1>3, <1>4, <1>5, <1>6, <1>7, <1>8 DEF ResetInv

(* The write empties the row: a request that still holds the link was      *)
(* together with this one, and so was this one if the link had been used.  *)
LEMMA WriteKeepsInv ==
  ASSUME ResetInv, NEW t \in ResetTabs, WritePassword(t)
  PROVE  ResetInv'
<1> DEFINE n == reset[t].link
<1>1. /\ n \in Links /\ n \in linksSent /\ n \in 1..linksAsked
      /\ reset[t].page = "reset" /\ reset[t].step = "found"
      /\ reset[t].typed \in Passwords
  BY DEF WritePassword, ResetInv, ResetTypeOK, LinksAreSent
<1>2. /\ link' = 0 /\ linkLeft' = 0 /\ password' = reset[t].typed
      /\ UNCHANGED <<linksAsked, linksSent, resets, raced>>
      /\ setBy' = Append(setBy, n)
      /\ reset' = [reset EXCEPT ![t].step = "done"]
  BY DEF WritePassword
<1>3. /\ \A u \in ResetTabs \ {t} : reset'[u] = reset[u]
      /\ reset'[t].page = "reset" /\ reset'[t].step = "done" /\ reset'[t].link = n
      /\ reset' \in [ResetTabs -> ResetTab]
  <2>1. reset \in [ResetTabs -> ResetTab] /\ reset[t] \in ResetTab
    BY DEF ResetInv, ResetTypeOK, ResetTab
  <2> DEFINE r == [reset[t] EXCEPT !.step = "done"]
  <2>2. r \in ResetTab /\ r.page = reset[t].page /\ r.step = "done" /\ r.link = n
    BY <2>1 DEF ResetTab
  <2>3. reset' = [reset EXCEPT ![t] = r]
    BY <1>2, <2>1
  <2>4. QED
    BY <1>1, <2>1, <2>2, <2>3
<1>4. /\ UsedLinks' = UsedLinks \cup {n}
      /\ setBy' \in Seq(Links)
      /\ DOMAIN setBy' = 1..(Len(setBy) + 1)
      /\ setBy'[Len(setBy) + 1] = n
      /\ \A i \in DOMAIN setBy : setBy'[i] = setBy[i]
  BY <1>1, <1>2, UseOfALink DEF ResetInv
<1>5. ResetTypeOK'
  <2>1. 0 \in 0..MaxLinks /\ 0 \in 0..ResetTime
    BY ResetAssumption
  <2>2. QED
    BY <1>1, <1>2, <1>3, <1>4, <2>1 DEF ResetInv, ResetTypeOK, ResetTab
<1>6. LinksAreSent'
  <2>1. 0 \in 0..linksAsked
    BY DEF ResetInv, ResetTypeOK
  <2>2. (UsedLinks \subseteq 1..linksAsked)'
    BY <1>1, <1>2, <1>4 DEF ResetInv, LinksAreSent
  <2>3. ASSUME NEW u \in ResetTabs
        PROVE  /\ reset'[u].page = "reset" => reset'[u].link \in linksSent
               /\ reset'[u].step = "found" => reset'[u].page = "reset"
    BY <1>1, <1>3 DEF ResetInv, LinksAreSent
  <2>4. QED
    BY <1>2, <2>1, <2>2, <2>3 DEF ResetInv, LinksAreSent
<1>7. LinkIsFresh'
  BY <1>2, <1>6 DEF LinksAreSent, LinkIsFresh
<1>8. FoundTogether'
  BY <1>2, <1>3 DEF ResetInv, FoundTogether
<1>9. LateWasTogether'
  BY <1>1, <1>2, <1>3, <1>4 DEF ResetInv, FoundTogether, LateWasTogether
<1>10. DoneIsDone'
  BY <1>3, <1>4 DEF ResetInv, DoneIsDone
<1>11. LinkWorksOnce'
  <2>1. SUFFICES ASSUME NEW i \in DOMAIN setBy', NEW j \in DOMAIN setBy', i < j, setBy'[i] = setBy'[j]
                 PROVE  setBy'[i] \in raced'
    BY DEF LinkWorksOnce
  <2>2. Len(setBy) \in Nat /\ DOMAIN setBy = 1..Len(setBy)
    BY DEF ResetInv, ResetTypeOK
  <2>3. i \in DOMAIN setBy
    BY <1>4, <2>1, <2>2
  <2>4. CASE j \in DOMAIN setBy
    BY <1>2, <1>4, <2>1, <2>3, <2>4 DEF ResetInv, LinkWorksOnce
  <2>5. CASE j = Len(setBy) + 1
    <3>1. n \in UsedLinks /\ setBy'[i] = n
      BY <1>4, <2>1, <2>3, <2>5 DEF UsedLinks
    <3>2. QED
      BY <1>1, <1>2, <3>1 DEF ResetInv, LateWasTogether
  <2>6. QED
    BY <1>4, <2>1, <2>2, <2>4, <2>5
<1>12. QED
  BY <1>5, <1>6, <1>7, <1>8, <1>9, <1>10, <1>11 DEF ResetInv

LEMMA ResetInvKept == ResetInv /\ [ResetNext]_resetVars => ResetInv'
<1>1. SUFFICES ASSUME ResetInv, [ResetNext]_resetVars PROVE ResetInv'
  OBVIOUS
<1>2. CASE UNCHANGED resetVars
  BY <1>1, <1>2
     DEF resetVars, ResetInv, ResetTypeOK, LinksAreSent, LinkIsFresh, FoundTogether, LateWasTogether,
         DoneIsDone, LinkWorksOnce, UsedLinks
<1>3. CASE LinkAges
  <2>1. /\ linkLeft' \in 0..ResetTime
        /\ UNCHANGED <<password, link, linksAsked, linksSent, reset, resets, setBy, raced>>
    BY <1>1, <1>3, ResetAssumption DEF LinkAges, ResetInv, ResetTypeOK
  <2>2. QED
    BY <1>1, <2>1
       DEF ResetInv, ResetTypeOK, LinksAreSent, LinkIsFresh, FoundTogether, LateWasTogether,
           DoneIsDone, LinkWorksOnce, UsedLinks
<1>4. ASSUME NEW t \in ResetTabs, ResetStep(t) PROVE ResetInv'
  BY <1>1, <1>4, PagesKeepInv, RequestKeepsInv, FindKeepsInv, WriteKeepsInv DEF ResetStep
<1>5. QED
  BY <1>1, <1>2, <1>3, <1>4 DEF ResetNext

(* forgot_password.py:52-74: a link sets a password once, or again only    *)
(* for requests that had found its user before the first of them wrote:    *)
(* newer links, expiry and lost answers do not revive one.                 *)
THEOREM LinkWorksOnceAlways == ResetSpec => []LinkWorksOnce
<1>1. ResetInv => LinkWorksOnce
  BY DEF ResetInv
<1>2. QED
  BY <1>1, ResetStarts, ResetInvKept, PTL DEF ResetSpec

(* reset-password.tsx: a page that says the password is set came with a    *)
(* link that did set it.                                                   *)
THEOREM SaidIsSetAlways == ResetSpec => []SaidIsSet
<1>1. ResetInv => SaidIsSet
  BY DEF ResetInv, DoneIsDone, SaidIsSet, UsedLinks
<1>2. QED
  BY <1>1, ResetStarts, ResetInvKept, PTL DEF ResetSpec

-----------------------------------------------------------------------------
Switch == [on : BOOLEAN, loading : BOOLEAN, step : {"idle", "sent", "done"}, next : BOOLEAN,
           notice : {"none", "enabled", "disabled", "failed"}, sure : BOOLEAN]
InfoForm == [show : {"user", "name", "password"}, step : {"idle", "sent", "done", "refused"},
             typed : Names, old : PassWords, new : PassWords, error : BOOLEAN,
             done : {"none", "name", "password"}, sure : BOOLEAN]

(* A switch of a tab that made the last change: what it shows is the row's *)
(* until it is sure of nothing, what it has done is the row's, and what it *)
(* tells of a change is gone when it makes another.                        *)
SwitchKnows(s, t) ==
  /\ s.loading => s.step = "idle"
  /\ s.step # "idle" => s.notice \notin {"enabled", "disabled"}
  /\ lastBy.on = {t} =>
       /\ ~s.loading /\ s.sure /\ s.step # "done" => s.on = row.on
       /\ s.step = "done" => s.next = row.on
       /\ s.step = "idle" /\ s.notice = "enabled" => row.on = TRUE
       /\ s.step = "idle" /\ s.notice = "disabled" => row.on = FALSE

(* The same of the form of the name, with the name on display. *)
FormKnows(f, name, t) ==
  /\ f.show = "user" => f.step = "idle"
  /\ lastBy.name \subseteq {t} =>
       /\ f.sure /\ ~(f.step = "done" /\ f.show = "name") => name = row.name
       /\ f.step = "done" /\ f.show = "name" => f.typed = row.name

ProfileInv ==
  /\ ProfileTypeOK
  /\ \A t \in ProfileTabs : SwitchKnows(toggle[t], t) /\ FormKnows(info[t], shownUser[t], t)

-----------------------------------------------------------------------------
LEMMA ProfileStarts == ProfileInit => ProfileInv
  BY ProfileAssumption DEF ProfileInit, ProfileInv, ProfileTypeOK, SwitchKnows, FormKnows

LEMMA ProfileFacts ==
  ASSUME ProfileInv
  PROVE  /\ toggle \in [ProfileTabs -> Switch] /\ info \in [ProfileTabs -> InfoForm]
         /\ shownUser \in [ProfileTabs -> Names]
         /\ row \in [name : Names, pass : PassWords, on : BOOLEAN]
         /\ lastBy \in [name : SUBSET ProfileTabs, on : SUBSET ProfileTabs]
         /\ profileForms \in 0..MaxProfileForms /\ MaxProfileForms \in Nat
         /\ \A t \in ProfileTabs : SwitchKnows(toggle[t], t) /\ FormKnows(info[t], shownUser[t], t)
  BY ProfileAssumption DEF ProfileInv, ProfileTypeOK, Switch, InfoForm

(* A step of one tab's switch that leaves the row alone. *)
LEMMA SwitchStep ==
  ASSUME ProfileInv, NEW t \in ProfileTabs, NEW s \in Switch, toggle' = [toggle EXCEPT ![t] = s],
         UNCHANGED <<row, info, shownUser, lastBy>>, profileForms' \in 0..MaxProfileForms, SwitchKnows(s, t)
  PROVE  ProfileInv'
<1>1. /\ toggle' \in [ProfileTabs -> Switch] /\ toggle'[t] = s
      /\ \A u \in ProfileTabs \ {t} : toggle'[u] = toggle[u]
  BY ProfileFacts
<1>2. ProfileTypeOK'
  BY <1>1 DEF ProfileInv, ProfileTypeOK, Switch
<1>3. ASSUME NEW u \in ProfileTabs PROVE SwitchKnows(toggle[u], u)' /\ FormKnows(info[u], shownUser[u], u)'
  BY <1>1 DEF ProfileInv, SwitchKnows, FormKnows
<1>4. QED
  BY <1>2, <1>3 DEF ProfileInv

(* A step of one tab's form that leaves the row alone. *)
LEMMA FormStep ==
  ASSUME ProfileInv, NEW t \in ProfileTabs, NEW f \in InfoForm, NEW name \in Names,
         info' = [info EXCEPT ![t] = f], shownUser' = [shownUser EXCEPT ![t] = name],
         UNCHANGED <<row, toggle, lastBy>>, profileForms' \in 0..MaxProfileForms, FormKnows(f, name, t)
  PROVE  ProfileInv'
<1>1. /\ info' \in [ProfileTabs -> InfoForm] /\ info'[t] = f
      /\ \A u \in ProfileTabs \ {t} : info'[u] = info[u]
      /\ shownUser' \in [ProfileTabs -> Names] /\ shownUser'[t] = name
      /\ \A u \in ProfileTabs \ {t} : shownUser'[u] = shownUser[u]
  BY ProfileFacts
<1>2. ProfileTypeOK'
  BY <1>1 DEF ProfileInv, ProfileTypeOK, InfoForm
<1>3. ASSUME NEW u \in ProfileTabs PROVE SwitchKnows(toggle[u], u)' /\ FormKnows(info[u], shownUser[u], u)'
  BY <1>1 DEF ProfileInv, SwitchKnows, FormKnows
<1>4. QED
  BY <1>2, <1>3 DEF ProfileInv

LEMMA SwitchKeepsProfile ==
  ASSUME ProfileInv, NEW t \in ProfileTabs,
         fetchStatus(t) \/ handleToggle(t) \/ ToggleAnswer(t)
  PROVE  ProfileInv'
<1>1. /\ toggle \in [ProfileTabs -> Switch] /\ toggle[t] \in Switch /\ SwitchKnows(toggle[t], t)
      /\ profileForms \in 0..MaxProfileForms /\ MaxProfileForms \in Nat /\ row.on \in BOOLEAN
  BY ProfileFacts
<1>2. UNCHANGED <<row, info, shownUser, lastBy>> /\ profileForms' \in 0..MaxProfileForms
  <2>1. /\ UNCHANGED <<row, info, shownUser, lastBy>>
        /\ profileForms' = profileForms \/ (profileForms < MaxProfileForms /\ profileForms' = profileForms + 1)
    BY DEF fetchStatus, handleToggle, ToggleAnswer
  <2>2. QED
    BY <1>1, <2>1
<1>3. SUFFICES \E s \in Switch : toggle' = [toggle EXCEPT ![t] = s] /\ SwitchKnows(s, t)
  BY <1>2, SwitchStep
<1>4. CASE fetchStatus(t)
  <2>1. PICK heard \in BOOLEAN, on \in BOOLEAN :
          /\ on = IF heard THEN row.on ELSE toggle[t].on
          /\ toggle' = [toggle EXCEPT ![t].loading = FALSE, ![t].on = on, ![t].sure = heard]
    <3>1. PICK heard \in BOOLEAN :
            toggle' = [toggle EXCEPT ![t].loading = FALSE, ![t].on = IF heard THEN row.on ELSE @, ![t].sure = heard]
      BY <1>4 DEF fetchStatus
    <3>2. CASE heard
      BY <1>1, <3>1, <3>2
    <3>3. CASE ~heard
      BY <1>1, <3>1, <3>3 DEF Switch
    <3>4. QED
      BY <3>2, <3>3
  <2> DEFINE s == [toggle[t] EXCEPT !.loading = FALSE, !.on = on, !.sure = heard]
  <2>2. /\ s \in Switch /\ s.step = toggle[t].step /\ s.notice = toggle[t].notice /\ s.on = on /\ s.sure = heard
        /\ s.next = toggle[t].next /\ toggle' = [toggle EXCEPT ![t] = s]
    BY <1>1, <2>1 DEF Switch
  <2>3. toggle[t].loading
    BY <1>4 DEF fetchStatus
  <2>4. SwitchKnows(s, t)
    BY <1>1, <2>1, <2>2, <2>3 DEF SwitchKnows
  <2>5. QED
    BY <2>2, <2>4
<1>5. CASE handleToggle(t)
  <2>1. PICK next \in BOOLEAN : toggle' = [toggle EXCEPT ![t].step = "sent", ![t].next = next, ![t].notice = "none"]
    BY <1>5 DEF handleToggle
  <2> DEFINE s == [toggle[t] EXCEPT !.step = "sent", !.next = next, !.notice = "none"]
  <2>2. /\ s \in Switch /\ s.step = "sent" /\ s.notice = "none" /\ s.on = toggle[t].on /\ s.sure = toggle[t].sure
        /\ s.loading = toggle[t].loading /\ toggle' = [toggle EXCEPT ![t] = s]
    BY <1>1, <2>1 DEF Switch
  <2>3. ~toggle[t].loading /\ toggle[t].step = "idle"
    BY <1>5 DEF handleToggle, SwitchView
  <2>4. SwitchKnows(s, t)
    BY <1>1, <2>2, <2>3 DEF SwitchKnows
  <2>5. QED
    BY <2>2, <2>4
<1>6. CASE ToggleAnswer(t)
  <2>1. CASE /\ toggle[t].step = "done"
             /\ toggle' = [toggle EXCEPT ![t].step = "idle", ![t].on = toggle[t].next, ![t].next = FALSE,
                             ![t].sure = TRUE, ![t].notice = IF toggle[t].next THEN "enabled" ELSE "disabled"]
    <3> DEFINE notice == IF toggle[t].next THEN "enabled" ELSE "disabled"
               s == [toggle[t] EXCEPT !.step = "idle", !.on = toggle[t].next, !.next = FALSE,
                             !.sure = TRUE, !.notice = notice]
    <3>1. /\ s \in Switch /\ s.step = "idle" /\ s.notice = notice /\ s.on = toggle[t].next /\ s.sure
          /\ toggle' = [toggle EXCEPT ![t] = s]
      BY <1>1, <2>1 DEF Switch
    <3>2. SwitchKnows(s, t)
      BY <1>1, <2>1, <3>1 DEF SwitchKnows, Switch
    <3>3. QED
      BY <3>1, <3>2
  <2>2. CASE /\ toggle[t].step \in {"sent", "done"}
             /\ toggle' = [toggle EXCEPT ![t].step = "idle", ![t].next = FALSE, ![t].notice = "failed",
                             ![t].sure = IF toggle[t].step = "done" THEN FALSE ELSE @]
    <3>1. PICK sure \in BOOLEAN :
            /\ toggle[t].step = "done" => ~sure
            /\ toggle[t].step # "done" => sure = toggle[t].sure
            /\ toggle' = [toggle EXCEPT ![t].step = "idle", ![t].next = FALSE, ![t].notice = "failed", ![t].sure = sure]
      <4>1. CASE toggle[t].step = "done"
        BY <1>1, <2>2, <4>1
      <4>2. CASE toggle[t].step # "done"
        BY <1>1, <2>2, <4>2 DEF Switch
      <4>3. QED
        BY <4>1, <4>2
    <3> DEFINE s == [toggle[t] EXCEPT !.step = "idle", !.next = FALSE, !.notice = "failed", !.sure = sure]
    <3>2. /\ s \in Switch /\ s.step = "idle" /\ s.notice = "failed" /\ s.on = toggle[t].on /\ s.sure = sure
          /\ s.loading = toggle[t].loading /\ toggle' = [toggle EXCEPT ![t] = s]
      BY <1>1, <3>1 DEF Switch
    <3>3. SwitchKnows(s, t)
      BY <1>1, <2>2, <3>1, <3>2 DEF SwitchKnows
    <3>4. QED
      BY <3>2, <3>3
  <2>3. QED
    BY <1>6, <2>1, <2>2 DEF ToggleAnswer
<1>7. QED
  BY <1>4, <1>5, <1>6

LEMMA FormKeepsProfile ==
  ASSUME ProfileInv, NEW t \in ProfileTabs,
         startEdit(t) \/ openPassword(t) \/ cancelEdit(t) \/ handleSave(t) \/ SaveAnswer(t)
  PROVE  ProfileInv'
<1>1. /\ info \in [ProfileTabs -> InfoForm] /\ info[t] \in InfoForm /\ FormKnows(info[t], shownUser[t], t)
      /\ shownUser \in [ProfileTabs -> Names] /\ shownUser[t] \in Names
      /\ profileForms \in 0..MaxProfileForms /\ MaxProfileForms \in Nat
      /\ FirstName \in Names /\ FirstPass \in PassWords
  BY ProfileFacts, ProfileAssumption
<1>2. UNCHANGED <<row, toggle, lastBy>> /\ profileForms' \in 0..MaxProfileForms
  <2>1. /\ UNCHANGED <<row, toggle, lastBy>>
        /\ profileForms' = profileForms \/ (profileForms < MaxProfileForms /\ profileForms' = profileForms + 1)
    BY DEF startEdit, openPassword, cancelEdit, handleSave, SaveAnswer
  <2>2. QED
    BY <1>1, <2>1
<1>3. SUFFICES \E f \in InfoForm, name \in Names :
                 /\ info' = [info EXCEPT ![t] = f] /\ shownUser' = [shownUser EXCEPT ![t] = name]
                 /\ FormKnows(f, name, t)
  BY <1>2, FormStep
<1>4. shownUser = [shownUser EXCEPT ![t] = shownUser[t]]
  BY <1>1
<1>5. CASE startEdit(t)
  <2>1. PICK done \in {"none", "name", "password"} :
          info' = [info EXCEPT ![t].show = "name", ![t].typed = shownUser[t], ![t].error = FALSE, ![t].done = done]
    BY <1>1, <1>5 DEF startEdit, InfoForm
  <2> DEFINE f == [info[t] EXCEPT !.show = "name", !.typed = shownUser[t], !.error = FALSE, !.done = done]
  <2>2. /\ f \in InfoForm /\ f.show = "name" /\ f.step = info[t].step /\ f.sure = info[t].sure
        /\ info' = [info EXCEPT ![t] = f]
    BY <1>1, <2>1 DEF InfoForm
  <2>3. info[t].show = "user" /\ shownUser' = shownUser
    BY <1>5 DEF startEdit
  <2>4. FormKnows(f, shownUser[t], t)
    BY <1>1, <2>2, <2>3 DEF FormKnows
  <2>5. QED
    BY <1>1, <1>4, <2>2, <2>3, <2>4
<1>6. CASE openPassword(t)
  <2> DEFINE f == [info[t] EXCEPT !.show = "password", !.done = "none"]
  <2>1. /\ f \in InfoForm /\ f.show = "password" /\ f.step = info[t].step /\ f.sure = info[t].sure
        /\ info' = [info EXCEPT ![t] = f] /\ shownUser' = shownUser
    BY <1>1, <1>6 DEF InfoForm, openPassword
  <2>2. info[t].show = "user"
    BY <1>6 DEF openPassword, InfoView
  <2>3. FormKnows(f, shownUser[t], t)
    BY <1>1, <2>1, <2>2 DEF FormKnows
  <2>4. QED
    BY <1>1, <1>4, <2>1, <2>3
<1>7. CASE cancelEdit(t)
  <2> DEFINE f == [info[t] EXCEPT !.show = "user", !.error = FALSE, !.typed = FirstName, !.old = FirstPass,
                                  !.new = FirstPass]
  <2>1. /\ f \in InfoForm /\ f.show = "user" /\ f.step = info[t].step /\ f.sure = info[t].sure
        /\ info' = [info EXCEPT ![t] = f] /\ shownUser' = shownUser
    BY <1>1, <1>7 DEF InfoForm, cancelEdit
  <2>2. info[t].step = "idle"
    BY <1>7 DEF cancelEdit, InfoView
  <2>3. FormKnows(f, shownUser[t], t)
    BY <1>1, <2>1, <2>2 DEF FormKnows
  <2>4. QED
    BY <1>1, <1>4, <2>1, <2>3
<1>8. CASE handleSave(t)
  <2>0. info[t].step = "idle" /\ info[t].show # "user" /\ shownUser' = shownUser
    BY <1>8 DEF handleSave, InfoView
  <2>1. \E f \in InfoForm :
          /\ info' = [info EXCEPT ![t] = f]
          /\ f.show = info[t].show /\ f.step \in {"idle", "sent"} /\ f.sure = info[t].sure
    <3>1. CASE \E n \in Names :
                 info' = [info EXCEPT ![t].step = "sent", ![t].typed = n, ![t].error = FALSE]
      <4>1. PICK n \in Names : info' = [info EXCEPT ![t].step = "sent", ![t].typed = n, ![t].error = FALSE]
        BY <3>1
      <4> DEFINE f == [info[t] EXCEPT !.step = "sent", !.typed = n, !.error = FALSE]
      <4>2. f \in InfoForm /\ f.show = info[t].show /\ f.step = "sent" /\ f.sure = info[t].sure
        BY <1>1 DEF InfoForm
      <4>3. info' = [info EXCEPT ![t] = f]
        BY <1>1, <4>1
      <4>4. QED
        BY <4>2, <4>3
    <3>2. CASE \E o, n \in PassWords :
                 info' = [info EXCEPT ![t].step = "sent", ![t].old = o, ![t].new = n, ![t].error = FALSE]
      <4>1. PICK o \in PassWords, n \in PassWords :
              info' = [info EXCEPT ![t].step = "sent", ![t].old = o, ![t].new = n, ![t].error = FALSE]
        BY <3>2
      <4> DEFINE f == [info[t] EXCEPT !.step = "sent", !.old = o, !.new = n, !.error = FALSE]
      <4>2. f \in InfoForm /\ f.show = info[t].show /\ f.step = "sent" /\ f.sure = info[t].sure
        BY <1>1 DEF InfoForm
      <4>3. info' = [info EXCEPT ![t] = f]
        BY <1>1, <4>1
      <4>4. QED
        BY <4>2, <4>3
    <3>3. CASE info' = [info EXCEPT ![t].error = TRUE]
      <4> DEFINE f == [info[t] EXCEPT !.error = TRUE]
      <4>1. f \in InfoForm /\ f.show = info[t].show /\ f.step = "idle" /\ f.sure = info[t].sure
        BY <1>1, <2>0 DEF InfoForm
      <4>2. info' = [info EXCEPT ![t] = f]
        BY <1>1, <3>3
      <4>3. QED
        BY <4>1, <4>2
    <3>4. QED
      BY <1>8, <3>1, <3>2, <3>3 DEF handleSave
  <2>2. PICK f \in InfoForm :
          /\ info' = [info EXCEPT ![t] = f]
          /\ f.show = info[t].show /\ f.step \in {"idle", "sent"} /\ f.sure = info[t].sure
    BY <2>1
  <2>3. FormKnows(f, shownUser[t], t)
    BY <1>1, <2>0, <2>2 DEF FormKnows
  <2>4. QED
    BY <1>1, <1>4, <2>0, <2>2, <2>3
<1>9. CASE SaveAnswer(t)
  <2>1. CASE /\ info[t].step = "done"
             /\ info' = [info EXCEPT ![t].step = "idle", ![t].show = "user", ![t].done = info[t].show,
                      ![t].typed = FirstName, ![t].old = FirstPass, ![t].new = FirstPass,
                      ![t].sure = IF info[t].show = "name" THEN TRUE ELSE @]
             /\ shownUser' = IF info[t].show = "name" THEN [shownUser EXCEPT ![t] = info[t].typed] ELSE shownUser
    <3>1. PICK sure \in BOOLEAN, name \in Names :
            /\ info[t].show = "name" => sure /\ name = info[t].typed
            /\ info[t].show # "name" => sure = info[t].sure /\ name = shownUser[t]
            /\ info' = [info EXCEPT ![t].step = "idle", ![t].show = "user", ![t].done = info[t].show,
                      ![t].typed = FirstName, ![t].old = FirstPass, ![t].new = FirstPass, ![t].sure = sure]
            /\ shownUser' = [shownUser EXCEPT ![t] = name]
      <4>1. CASE info[t].show = "name"
        <5>1. info[t].typed \in Names
          BY <1>1 DEF InfoForm
        <5>2. QED
          BY <1>1, <2>1, <4>1, <5>1
      <4>2. CASE info[t].show # "name"
        BY <1>1, <1>4, <2>1, <4>2 DEF InfoForm
      <4>3. QED
        BY <4>1, <4>2
    <3> DEFINE f == [info[t] EXCEPT !.step = "idle", !.show = "user", !.done = info[t].show,
                      !.typed = FirstName, !.old = FirstPass, !.new = FirstPass, !.sure = sure]
    <3>2. info[t].show \in {"name", "password"}
      BY <1>1, <2>1 DEF FormKnows, InfoForm
    <3>3. /\ f \in InfoForm /\ f.show = "user" /\ f.step = "idle" /\ f.sure = sure
          /\ info' = [info EXCEPT ![t] = f]
      BY <1>1, <3>1, <3>2 DEF InfoForm
    <3>4. FormKnows(f, name, t)
      BY <1>1, <2>1, <3>1, <3>3 DEF FormKnows
    <3>5. QED
      BY <3>1, <3>3, <3>4
  <2>2. CASE /\ info' = [info EXCEPT ![t].step = "idle", ![t].error = TRUE,
                      ![t].sure = IF info[t].show = "name" THEN FALSE ELSE @]
             /\ UNCHANGED shownUser
    <3>1. PICK sure \in BOOLEAN :
            /\ info[t].show = "name" => ~sure
            /\ info[t].show # "name" => sure = info[t].sure
            /\ info' = [info EXCEPT ![t].step = "idle", ![t].error = TRUE, ![t].sure = sure]
      <4>1. CASE info[t].show = "name"
        BY <1>1, <2>2, <4>1
      <4>2. CASE info[t].show # "name"
        BY <1>1, <2>2, <4>2 DEF InfoForm
      <4>3. QED
        BY <4>1, <4>2
    <3> DEFINE f == [info[t] EXCEPT !.step = "idle", !.error = TRUE, !.sure = sure]
    <3>2. /\ f \in InfoForm /\ f.show = info[t].show /\ f.step = "idle" /\ f.sure = sure
          /\ info' = [info EXCEPT ![t] = f]
      BY <1>1, <3>1 DEF InfoForm
    <3>3. FormKnows(f, shownUser[t], t)
      BY <1>1, <3>1, <3>2 DEF FormKnows
    <3>4. QED
      BY <1>1, <1>4, <2>2, <3>2, <3>3
  <2>3. QED
    BY <1>9, <2>1, <2>2 DEF SaveAnswer
<1>10. QED
  BY <1>5, <1>6, <1>7, <1>8, <1>9

(* The server's writes: what a tab has done is in the row, and is the last *)
(* change of no other tab.                                                 *)
LEMMA ServerKeepsProfile ==
  ASSUME ProfileInv, NEW t \in ProfileTabs, set_2fa(t) \/ ServerSaves(t)
  PROVE  ProfileInv'
<1>1. /\ toggle \in [ProfileTabs -> Switch] /\ info \in [ProfileTabs -> InfoForm]
      /\ toggle[t] \in Switch /\ info[t] \in InfoForm
      /\ SwitchKnows(toggle[t], t) /\ FormKnows(info[t], shownUser[t], t)
      /\ shownUser \in [ProfileTabs -> Names]
      /\ row \in [name : Names, pass : PassWords, on : BOOLEAN]
      /\ lastBy \in [name : SUBSET ProfileTabs, on : SUBSET ProfileTabs]
      /\ UNCHANGED <<shownUser, profileForms>>
  BY ProfileFacts DEF set_2fa, ServerSaves
<1>2. CASE set_2fa(t)
  <2> DEFINE s == [toggle[t] EXCEPT !.step = "done"]
  <2>1. /\ s \in Switch /\ s.step = "done" /\ s.next = toggle[t].next /\ s.loading = toggle[t].loading
        /\ s.notice = toggle[t].notice /\ toggle' = [toggle EXCEPT ![t] = s]
    BY <1>1, <1>2 DEF Switch, set_2fa
  <2>2. /\ row' = [row EXCEPT !.on = toggle[t].next] /\ lastBy' = [lastBy EXCEPT !.on = {t}] /\ info' = info
        /\ toggle[t].step = "sent"
    BY <1>2 DEF set_2fa
  <2>3. /\ row' \in [name : Names, pass : PassWords, on : BOOLEAN] /\ row'.on = toggle[t].next
        /\ row'.name = row.name
        /\ lastBy' \in [name : SUBSET ProfileTabs, on : SUBSET ProfileTabs]
        /\ lastBy'.on = {t} /\ lastBy'.name = lastBy.name
    BY <1>1, <2>2 DEF Switch
  <2> HIDE DEF s
  <2>4. /\ toggle' \in [ProfileTabs -> Switch] /\ toggle'[t] = s
        /\ \A u \in ProfileTabs \ {t} : toggle'[u] = toggle[u]
    BY <1>1, <2>1
  <2>5. ASSUME NEW u \in ProfileTabs PROVE SwitchKnows(toggle[u], u)'
    <3>1. CASE u = t
      BY <1>1, <2>1, <2>2, <2>3, <2>4, <3>1 DEF SwitchKnows
    <3>2. CASE u # t
      BY <2>3, <2>4, <3>2 DEF ProfileInv, SwitchKnows
    <3>3. QED
      BY <3>1, <3>2
  <2>6. ASSUME NEW u \in ProfileTabs PROVE FormKnows(info[u], shownUser[u], u)'
    BY <1>1, <2>2, <2>3 DEF ProfileInv, FormKnows
  <2>7. ProfileTypeOK'
    BY <1>1, <2>2, <2>3, <2>4 DEF ProfileInv, ProfileTypeOK, Switch
  <2>8. QED
    BY <2>5, <2>6, <2>7 DEF ProfileInv
<1>3. CASE ServerSaves(t) /\ info[t].show = "name"
  <2> DEFINE f == [info[t] EXCEPT !.step = "done"]
  <2>1. /\ f \in InfoForm /\ f.step = "done" /\ f.show = "name" /\ f.typed = info[t].typed
        /\ info' = [info EXCEPT ![t] = f]
    BY <1>1, <1>3 DEF InfoForm, ServerSaves
  <2>2. /\ row' = [row EXCEPT !.name = info[t].typed] /\ lastBy' = [lastBy EXCEPT !.name = {t}]
        /\ toggle' = toggle
    BY <1>3 DEF ServerSaves
  <2>3. /\ row' \in [name : Names, pass : PassWords, on : BOOLEAN] /\ row'.on = row.on
        /\ row'.name = info[t].typed
        /\ lastBy' \in [name : SUBSET ProfileTabs, on : SUBSET ProfileTabs]
        /\ lastBy'.name = {t} /\ lastBy'.on = lastBy.on
    BY <1>1, <2>2 DEF InfoForm
  <2> HIDE DEF f
  <2>4. /\ info' \in [ProfileTabs -> InfoForm] /\ info'[t] = f
        /\ \A u \in ProfileTabs \ {t} : info'[u] = info[u]
    BY <1>1, <2>1
  <2>5. ASSUME NEW u \in ProfileTabs PROVE FormKnows(info[u], shownUser[u], u)'
    <3>1. CASE u = t
      BY <1>1, <2>1, <2>2, <2>3, <2>4, <3>1 DEF FormKnows
    <3>2. CASE u # t
      BY <1>1, <2>3, <2>4, <3>2 DEF ProfileInv, FormKnows
    <3>3. QED
      BY <3>1, <3>2
  <2>6. ASSUME NEW u \in ProfileTabs PROVE SwitchKnows(toggle[u], u)'
    BY <2>2, <2>3 DEF ProfileInv, SwitchKnows
  <2>7. ProfileTypeOK'
    BY <1>1, <2>2, <2>3, <2>4 DEF ProfileInv, ProfileTypeOK, InfoForm
  <2>8. QED
    BY <2>5, <2>6, <2>7 DEF ProfileInv
<1>4. CASE ServerSaves(t) /\ info[t].show # "name"
  <2>1. PICK step \in {"done", "refused"} : info' = [info EXCEPT ![t].step = step]
    BY <1>4 DEF ServerSaves
  <2> DEFINE f == [info[t] EXCEPT !.step = step]
  <2>2. /\ f \in InfoForm /\ f.show = "password" /\ f.step = step /\ f.sure = info[t].sure
        /\ info' = [info EXCEPT ![t] = f] /\ info[t].show = "password"
    BY <1>1, <1>4, <2>1 DEF InfoForm, ServerSaves
  <2>3. /\ row' = row \/ row' = [row EXCEPT !.pass = info[t].new]
        /\ lastBy' = lastBy /\ toggle' = toggle
    BY <1>4 DEF ServerSaves
  <2>4. /\ row' \in [name : Names, pass : PassWords, on : BOOLEAN] /\ row'.on = row.on /\ row'.name = row.name
    BY <1>1, <2>3 DEF InfoForm
  <2> HIDE DEF f
  <2>5. /\ info' \in [ProfileTabs -> InfoForm] /\ info'[t] = f
        /\ \A u \in ProfileTabs \ {t} : info'[u] = info[u]
    BY <1>1, <2>2
  <2>6. ASSUME NEW u \in ProfileTabs PROVE FormKnows(info[u], shownUser[u], u)'
    BY <1>1, <2>2, <2>3, <2>4, <2>5 DEF ProfileInv, FormKnows
  <2>7. ASSUME NEW u \in ProfileTabs PROVE SwitchKnows(toggle[u], u)'
    BY <2>3, <2>4 DEF ProfileInv, SwitchKnows
  <2>8. ProfileTypeOK'
    BY <1>1, <2>3, <2>4, <2>5 DEF ProfileInv, ProfileTypeOK, InfoForm
  <2>9. QED
    BY <2>6, <2>7, <2>8 DEF ProfileInv
<1>5. QED
  BY <1>2, <1>3, <1>4

LEMMA FadingKeepsProfile ==
  ASSUME ProfileInv, NEW t \in ProfileTabs, NoticeFades(t)
  PROVE  ProfileInv'
<1>1. /\ toggle \in [ProfileTabs -> Switch] /\ info \in [ProfileTabs -> InfoForm]
      /\ toggle[t] \in Switch /\ info[t] \in InfoForm /\ shownUser[t] \in Names
      /\ SwitchKnows(toggle[t], t) /\ FormKnows(info[t], shownUser[t], t)
      /\ UNCHANGED <<row, shownUser, profileForms, lastBy>>
      /\ profileForms \in 0..MaxProfileForms
      /\ shownUser' = [shownUser EXCEPT ![t] = shownUser[t]]
  BY ProfileFacts DEF NoticeFades
<1>2. CASE toggle' = [toggle EXCEPT ![t].notice = "none"] /\ UNCHANGED info
  <2> DEFINE s == [toggle[t] EXCEPT !.notice = "none"]
  <2>1. /\ s \in Switch /\ s.step = toggle[t].step /\ s.notice = "none" /\ s.on = toggle[t].on
        /\ s.sure = toggle[t].sure /\ s.loading = toggle[t].loading /\ s.next = toggle[t].next
        /\ toggle' = [toggle EXCEPT ![t] = s]
    BY <1>1, <1>2 DEF Switch
  <2>2. SwitchKnows(s, t)
    BY <1>1, <2>1 DEF SwitchKnows
  <2>3. QED
    BY <1>1, <1>2, <2>1, <2>2, SwitchStep
<1>3. CASE info' = [info EXCEPT ![t].done = "none"] /\ UNCHANGED toggle
  <2> DEFINE f == [info[t] EXCEPT !.done = "none"]
  <2>1. /\ f \in InfoForm /\ f.step = info[t].step /\ f.show = info[t].show /\ f.sure = info[t].sure
        /\ f.typed = info[t].typed /\ info' = [info EXCEPT ![t] = f]
    BY <1>1, <1>3 DEF InfoForm
  <2>2. FormKnows(f, shownUser[t], t)
    BY <1>1, <2>1 DEF FormKnows
  <2>3. QED
    BY <1>1, <1>3, <2>1, <2>2, FormStep
<1>4. QED
  BY <1>2, <1>3 DEF NoticeFades

LEMMA ProfileKept == ProfileInv /\ [ProfileNext]_profileVars => ProfileInv'
<1>1. SUFFICES ASSUME ProfileInv, [ProfileNext]_profileVars PROVE ProfileInv'
  OBVIOUS
<1>2. CASE UNCHANGED profileVars
  BY <1>1, <1>2 DEF profileVars, ProfileInv, ProfileTypeOK, SwitchKnows, FormKnows
<1>3. ASSUME NEW t \in ProfileTabs, ProfileStep(t) PROVE ProfileInv'
  BY <1>1, <1>3, SwitchKeepsProfile, FormKeepsProfile, ServerKeepsProfile, FadingKeepsProfile DEF ProfileStep
<1>4. QED
  BY <1>1, <1>2, <1>3 DEF ProfileNext

LEMMA ProfileHolds == ProfileInv => ProfileTypeOK /\ ProfileIsTheRow /\ NoticesAreTrue
<1>1. SUFFICES ASSUME ProfileInv PROVE ProfileIsTheRow /\ NoticesAreTrue
  BY DEF ProfileInv
<1>2. ProfileIsTheRow
  BY <1>1 DEF ProfileInv, ProfileIsTheRow, SwitchKnows, FormKnows
<1>3. NoticesAreTrue
  BY <1>1 DEF ProfileInv, NoticesAreTrue, SwitchKnows
<1>4. QED
  BY <1>2, <1>3

(* TwoFactorToggle.tsx and Info.tsx: a tab that heard all its answers      *)
(* shows the switch and the name of the row as long as no other tab        *)
(* changed them, and a notice that a factor was switched tells the truth.  *)
THEOREM ProfileAlwaysHolds == ProfileSpec => [](ProfileTypeOK /\ ProfileIsTheRow /\ NoticesAreTrue)
  BY ProfileStarts, ProfileKept, ProfileHolds, PTL DEF ProfileSpec

-----------------------------------------------------------------------------
SessionTab == [page : protectedRoutes \cup {"/login"}, of : 0..MaxCookies, leaving : BOOLEAN,
               me : {"asked", "nobody", "admin", "firefighter", "user"}]

(* The tokens given out are owners', with a role of theirs; the browser    *)
(* holds one of them or none, and knows when it is over.                   *)
TokensAreOwners ==
  /\ roleNow \in [Owners -> {"admin", "firefighter", "user"}]
  /\ DOMAIN tokenRole = 1..MaxCookies
  /\ \A n \in 1..cookies : tokenRole[n].owner \in Owners /\ tokenRole[n].role \in {"admin", "firefighter", "user"}
  /\ cookie.n \in 0..cookies
  /\ cookie.live => cookie.n # 0
  /\ cookie.n # 0 /\ ~cookie.live => cookie.n \in ended
  /\ \A t \in SessionTabs : tab[t].of \in 0..cookies

(* A tab that was sent back has an answer, and its answer is out of date.  *)
BouncedKnow ==
  \A t \in bounced :
    tab[t].page = "/login" =>
      /\ tab[t].me # "asked"
      /\ tab[t].of # cookie.n \/ ~cookie.live \/ tab[t].me # tokenRole[tab[t].of].role

SessionInv == SessionTypeOK /\ TokensAreOwners /\ BouncedKnow /\ SessionsEndForAReason

-----------------------------------------------------------------------------
LEMMA SessionFacts ==
  ASSUME SessionInv
  PROVE  /\ tab \in [SessionTabs -> SessionTab] /\ cookie \in [n : 0..MaxCookies, live : BOOLEAN]
         /\ cookies \in 0..MaxCookies /\ MaxCookies \in Nat /\ ended \subseteq 1..cookies
         /\ NoCookie \in [n : 0..MaxCookies, live : BOOLEAN] /\ NoCookie.n = 0 /\ ~NoCookie.live
         /\ \A p \in protectedRoutes \cup {"/login"} : Loaded(p) \in SessionTab /\ Loaded(p).of = 0
                  /\ Loaded(p).me = "asked" /\ Loaded(p).page = p
<1>1. /\ tab \in [SessionTabs -> SessionTab] /\ cookie \in [n : 0..MaxCookies, live : BOOLEAN]
      /\ cookies \in 0..MaxCookies /\ MaxCookies \in Nat /\ ended \subseteq 1..cookies
  BY SessionAssumption DEF SessionInv, SessionTypeOK, SessionTab
<1>2. NoCookie \in [n : 0..MaxCookies, live : BOOLEAN] /\ NoCookie.n = 0 /\ ~NoCookie.live
  BY <1>1 DEF NoCookie
<1>3. ASSUME NEW p \in protectedRoutes \cup {"/login"}
      PROVE  Loaded(p) \in SessionTab /\ Loaded(p).of = 0 /\ Loaded(p).me = "asked" /\ Loaded(p).page = p
  <2>1. 0 \in 0..MaxCookies
    BY <1>1
  <2>2. QED
    BY <2>1 DEF Loaded, SessionTab
<1>4. QED
  BY <1>1, <1>2, <1>3

LEMMA SessionStarts == SessionInit => SessionInv
<1>1. SUFFICES ASSUME SessionInit PROVE SessionInv
  OBVIOUS
<1>2. /\ cookie = [n |-> 0, live |-> FALSE] /\ cookies = 0 /\ roleChanges = 0 /\ ended = {} /\ bounced = {} /\ logouts = {}
      /\ MaxCookies \in Nat /\ MaxRoleChanges \in Nat /\ 1..cookies = {} /\ 0 \in 0..MaxCookies
  BY <1>1, SessionAssumption DEF SessionInit, NoCookie
<1>3. tab \in [SessionTabs -> SessionTab] /\ \A t \in SessionTabs : tab[t].of = 0
  <2>1. Loaded("/login") \in SessionTab /\ Loaded("/login").of = 0
    BY <1>2 DEF Loaded, SessionTab
  <2>2. QED
    BY <1>1, <2>1 DEF SessionInit
<1>4. \A o \in Owners : roleNow[o] \in RoleOf[o].all /\ RoleOf[o].all \subseteq {"admin", "firefighter", "user"}
  BY <1>1, SessionAssumption DEF SessionInit
<1>5. roleNow \in [Owners -> {"admin", "firefighter", "user"}]
  BY <1>1, <1>4 DEF SessionInit
<1>6. DOMAIN tokenRole = 1..MaxCookies
  BY <1>1 DEF SessionInit
<1>7. SessionTypeOK
  BY <1>2, <1>3, <1>4 DEF SessionTypeOK, SessionTab
<1>8. TokensAreOwners
  BY <1>2, <1>3, <1>5, <1>6 DEF TokensAreOwners
<1>9. QED
  BY <1>2, <1>7, <1>8 DEF SessionInv, BouncedKnow, SessionsEndForAReason

(* What a visit does to the cookie: it stays, or a token that is over is   *)
(* thrown away.                                                            *)
LEMMA VisitsCookie ==
  ASSUME SessionInv, NEW p
  PROVE  /\ CookieAfter(p) = cookie \/ CookieAfter(p) = NoCookie
         /\ CookieAfter(p) = NoCookie => CookieAfter(p) = cookie \/ (cookie.n # 0 /\ ~cookie.live /\ cookie.n \in ended)
         /\ middleware(p) \in {p, "/login"}
  BY DEF CookieAfter, middleware, SessionInv, TokensAreOwners

(* A step that writes no token and no role: a tab is changed, and the      *)
(* cookie stays or is over.                                                *)
LEMMA TabKeepsSession ==
  ASSUME SessionInv, NEW t \in SessionTabs, NEW r \in SessionTab, tab' = [tab EXCEPT ![t] = r],
         UNCHANGED <<roleNow, cookies, roleChanges, tokenRole>>,
         logouts' \subseteq SessionTabs, bounced' \subseteq bounced \cup {t},
         r.of \in 0..cookies,
         t \in bounced' /\ r.page = "/login" =>
            r.me # "asked" /\ (r.of # cookie'.n \/ ~cookie'.live \/ r.me # tokenRole[r.of].role),
         ended \subseteq ended', ended' \subseteq 1..cookies,
         cookie' = cookie \/ (cookie' = NoCookie /\ (cookie.n # 0 => cookie.n \in ended'))
  PROVE  SessionInv'
<1>1. /\ tab' \in [SessionTabs -> SessionTab] /\ tab'[t] = r
      /\ \A u \in SessionTabs \ {t} : tab'[u] = tab[u]
  BY SessionFacts
<1>2. cookie' \in [n : 0..MaxCookies, live : BOOLEAN]
  BY SessionFacts
<1>3. SessionTypeOK'
  BY <1>1, <1>2 DEF SessionInv, SessionTypeOK, SessionTab
<1>4. TokensAreOwners'
  <2>1. cookie'.n \in 0..cookies /\ (cookie'.live => cookie'.n # 0)
        /\ (cookie'.n # 0 /\ ~cookie'.live => cookie'.n \in ended')
    BY SessionFacts DEF SessionInv, TokensAreOwners
  <2>2. \A u \in SessionTabs : tab'[u].of \in 0..cookies
    BY <1>1 DEF SessionInv, TokensAreOwners
  <2>3. QED
    BY <2>1, <2>2 DEF SessionInv, TokensAreOwners
<1>5. BouncedKnow'
  <2>1. SUFFICES ASSUME NEW u \in bounced', tab'[u].page = "/login"
                 PROVE  /\ tab'[u].me # "asked"
                        /\ tab'[u].of # cookie'.n \/ ~cookie'.live \/ tab'[u].me # tokenRole[tab'[u].of].role
    BY DEF BouncedKnow
  <2>2. CASE u = t
    BY <1>1, <2>1, <2>2
  <2>3. CASE u # t
    <3>1. u \in bounced /\ u \in SessionTabs /\ tab'[u] = tab[u]
      BY <1>1, <2>3 DEF SessionInv, SessionTypeOK
    <3>2. cookie' = cookie \/ ~cookie'.live
      BY SessionFacts
    <3>3. QED
      BY <2>1, <3>1, <3>2 DEF SessionInv, BouncedKnow
  <2>4. QED
    BY <2>2, <2>3
<1>6. SessionsEndForAReason'
  <2>1. SUFFICES ASSUME cookies > 0 PROVE cookie'.n = cookies \/ cookies \in ended'
    BY DEF SessionsEndForAReason
  <2>2. cookie.n = cookies \/ cookies \in ended'
    BY <2>1 DEF SessionInv, SessionsEndForAReason
  <2>3. cookie.n = cookies => cookie.n # 0
    BY <2>1, SessionFacts
  <2>4. QED
    BY <2>2, <2>3
<1>7. QED
  BY <1>3, <1>4, <1>5, <1>6 DEF SessionInv

LEMMA TabsKeepSession ==
  ASSUME SessionInv, NEW t \in SessionTabs,
         \/ \E p \in protectedRoutes \cup {"/login"} : Visit(t, p)
         \/ checkAuth(t) \/ RedirectByRole(t) \/ apiCall(t) \/ logout(t) \/ LogoutEnds(t)
  PROVE  SessionInv'
<1>1. /\ tab \in [SessionTabs -> SessionTab] /\ tab[t] \in SessionTab /\ logouts \subseteq SessionTabs
      /\ bounced \subseteq SessionTabs /\ ended \subseteq 1..cookies /\ tab[t].of \in 0..cookies
      /\ cookies \in 0..MaxCookies /\ MaxCookies \in Nat /\ 0 \in 0..cookies /\ 0..cookies \subseteq 0..MaxCookies
      /\ cookie \in [n : 0..MaxCookies, live : BOOLEAN]
      /\ cookie.n \in 0..cookies /\ (cookie.live => cookie.n # 0)
      /\ (cookie.n # 0 /\ ~cookie.live => cookie.n \in ended)
  <2>1. cookies \in 0..MaxCookies /\ MaxCookies \in Nat
    BY SessionFacts
  <2>2. 0 \in 0..cookies /\ 0..cookies \subseteq 0..MaxCookies
    BY <2>1
  <2>3. QED
    BY <2>1, <2>2, SessionFacts DEF SessionInv, SessionTypeOK, TokensAreOwners
<1>2. CASE \E p \in protectedRoutes \cup {"/login"} : Visit(t, p)
  <2>1. PICK p \in protectedRoutes \cup {"/login"} : Visit(t, p)
    BY <1>2
  <2> DEFINE r == Loaded(middleware(p))
  <2>2. middleware(p) \in protectedRoutes \cup {"/login"}
    BY VisitsCookie
  <2>3. r \in SessionTab /\ r.of = 0
    BY <2>2, SessionFacts
  <2>4. /\ tab' = [tab EXCEPT ![t] = r] /\ bounced' = bounced \ {t} /\ ended' = ended /\ logouts' = logouts
        /\ UNCHANGED <<roleNow, cookies, roleChanges, tokenRole>> /\ cookie' = CookieAfter(p)
    BY <2>1 DEF Visit
  <2>5. cookie' = cookie \/ (cookie' = NoCookie /\ (cookie.n # 0 => cookie.n \in ended'))
    BY <2>4, VisitsCookie
  <2> HIDE DEF r
  <2>6. QED
    BY <1>1, <2>3, <2>4, <2>5, TabKeepsSession
<1>3. CASE checkAuth(t)
  <2>1. PICK me \in {"nobody", "admin", "firefighter", "user"}, of \in 0..cookies :
          tab' = [tab EXCEPT ![t].me = me, ![t].of = of]
    <3>1. PICK heard \in BOOLEAN :
            tab' = [tab EXCEPT
                     ![t].me = IF heard /\ cookie.live THEN roleNow[tokenRole[cookie.n].owner] ELSE "nobody",
                     ![t].of = IF heard /\ cookie.live THEN cookie.n ELSE 0]
      BY <1>3 DEF checkAuth
    <3>2. CASE heard /\ cookie.live
      <4>1. cookie.n \in 1..cookies
        BY <1>1, <3>2
      <4>2. roleNow[tokenRole[cookie.n].owner] \in {"nobody", "admin", "firefighter", "user"}
        BY <4>1 DEF SessionInv, TokensAreOwners
      <4>3. QED
        BY <1>1, <3>1, <3>2, <4>2
    <3>3. CASE ~(heard /\ cookie.live)
      BY <1>1, <3>1, <3>3
    <3>4. QED
      BY <3>2, <3>3
  <2> DEFINE r == [tab[t] EXCEPT !.me = me, !.of = of]
  <2>2. r \in SessionTab /\ r.of = of /\ r.page = tab[t].page
    <3>1. of \in 0..MaxCookies
      BY <1>1, <2>1
    <3>2. QED
      BY <1>1, <2>1, <3>1 DEF SessionTab
  <2>3. tab' = [tab EXCEPT ![t] = r]
    BY <1>1, <2>1
  <2>4. t \notin bounced \/ tab[t].page # "/login"
    BY <1>3 DEF checkAuth, SessionInv, BouncedKnow
  <2>5. UNCHANGED <<roleNow, cookie, logouts, cookies, roleChanges, tokenRole, ended, bounced>>
    BY <1>3 DEF checkAuth
  <2> HIDE DEF r
  <2>6. QED
    BY <1>1, <2>1, <2>2, <2>3, <2>4, <2>5, TabKeepsSession
<1>4. CASE RedirectByRole(t)
  <2> DEFINE p == ROLE_REDIRECTS[tab[t].me]
  <2>1. /\ tab[t].page = "/login" /\ tab[t].me \in {"admin", "firefighter", "user"}
        /\ UNCHANGED <<roleNow, logouts, cookies, roleChanges, tokenRole, ended>> /\ cookie' = CookieAfter(p)
    BY <1>1, <1>4 DEF RedirectByRole, PublicView, SessionTab
  <2>2. p \in protectedRoutes /\ p # "/login" /\ tab[t].me \in rolesOf(p)
    BY <2>1 DEF ROLE_REDIRECTS, protectedRoutes, rolesOf
  <2>3. cookie' = cookie \/ (cookie' = NoCookie /\ (cookie.n # 0 => cookie.n \in ended'))
    BY <2>1, VisitsCookie
  <2>4. CASE middleware(p) = p
    <3>1. /\ tab' = [tab EXCEPT ![t] = Loaded(p)] /\ bounced' = bounced
      BY <1>4, <2>4 DEF RedirectByRole
    <3>2. Loaded(p) \in SessionTab /\ Loaded(p).of = 0 /\ Loaded(p).page # "/login"
      BY <2>2, SessionFacts
    <3>3. QED
      BY <1>1, <2>1, <2>3, <3>1, <3>2, TabKeepsSession
  <2>5. CASE middleware(p) # p
    <3>1. /\ tab' = tab /\ bounced' = bounced \cup {t}
      BY <1>4, <2>5 DEF RedirectByRole
    <3>2. tab' = [tab EXCEPT ![t] = tab[t]]
      BY <1>1, <3>1
    <3>3. cookie.n = 0 \/ ~cookie.live \/ tokenRole[cookie.n].role \notin rolesOf(p)
      BY <2>2, <2>5 DEF middleware
    <3>4. ~cookie'.live \/ (cookie' = cookie /\ tokenRole[cookie.n].role # tab[t].me)
      BY <1>1, <2>2, <2>3, <3>3, SessionFacts
    <3>5. tab[t].of # cookie'.n \/ ~cookie'.live \/ tab[t].me # tokenRole[tab[t].of].role
      BY <3>4
    <3>6. QED
      BY <1>1, <2>1, <2>3, <3>1, <3>2, <3>5, TabKeepsSession
  <2>6. QED
    BY <2>4, <2>5
<1>5. CASE apiCall(t) \/ logout(t)
  <2> DEFINE r == [tab[t] EXCEPT !.leaving = TRUE]
  <2>1. r \in SessionTab /\ r.of = tab[t].of /\ r.page = tab[t].page
    BY <1>1 DEF SessionTab
  <2>2. /\ tab' = [tab EXCEPT ![t] = r] /\ logouts' = logouts \cup {t} /\ tab[t].page \in protectedRoutes
        /\ UNCHANGED <<roleNow, cookie, cookies, roleChanges, tokenRole, ended, bounced>>
    BY <1>1, <1>5 DEF apiCall, logout
  <2>3. tab[t].page # "/login"
    BY <2>2 DEF protectedRoutes
  <2> HIDE DEF r
  <2>4. QED
    BY <1>1, <2>1, <2>2, <2>3, TabKeepsSession
<1>6. CASE LogoutEnds(t)
  <2>1. /\ tab' = [tab EXCEPT ![t] = Loaded("/login")] /\ logouts' = logouts \ {t} /\ bounced' = bounced \ {t}
        /\ UNCHANGED <<roleNow, cookies, roleChanges, tokenRole>>
        /\ \/ cookie' = NoCookie /\ ended' = IF cookie.n # 0 THEN ended \cup {cookie.n} ELSE ended
           \/ UNCHANGED <<cookie, ended>>
    BY <1>6 DEF LogoutEnds
  <2>2. Loaded("/login") \in SessionTab /\ Loaded("/login").of = 0
    BY SessionFacts
  <2>3. cookie.n # 0 => cookie.n \in 1..cookies
    BY <1>1
  <2>4. ended \subseteq ended' /\ ended' \subseteq 1..cookies
    BY <1>1, <2>1, <2>3
  <2>5. cookie' = cookie \/ (cookie' = NoCookie /\ (cookie.n # 0 => cookie.n \in ended'))
    BY <2>1
  <2>6. QED
    BY <1>1, <2>1, <2>2, <2>4, <2>5, TabKeepsSession
<1>7. QED
  BY <1>2, <1>3, <1>4, <1>5, <1>6

(* A sign-in writes a token of a number that no answer is for. *)
LEMMA SignsInKeepsSession == ASSUME SessionInv, NEW t \in SessionTabs, SignsIn(t) PROVE SessionInv'
<1>1. PICK o \in Owners :
        /\ cookie' = [n |-> cookies + 1, live |-> TRUE]
        /\ tokenRole' = [tokenRole EXCEPT ![cookies + 1] = [owner |-> o, role |-> roleNow[o]]]
        /\ tab' = [tab EXCEPT ![t] = Loaded(ROLE_REDIRECTS[roleNow[o]])]
  BY DEF SignsIn
<1>2. /\ cookies' = cookies + 1 /\ cookies < MaxCookies /\ bounced' = bounced \ {t}
      /\ UNCHANGED <<roleNow, logouts, roleChanges, ended>>
  BY DEF SignsIn
<1>3. /\ cookies \in 0..MaxCookies /\ MaxCookies \in Nat /\ cookies' \in 1..MaxCookies /\ cookies' > 0
      /\ 0..cookies \subseteq 0..cookies' /\ 1..cookies' = (1..cookies) \cup {cookies'} /\ cookies' \notin 0..cookies
      /\ 0 \in 0..cookies' /\ cookies' \in 0..cookies' /\ 0..cookies' \subseteq 0..MaxCookies /\ 1..cookies \subseteq 1..cookies'
  BY <1>2, SessionFacts
<1>4. roleNow[o] \in {"admin", "firefighter", "user"} /\ roleNow[o] \in RoleOf[o].all
  BY DEF SessionInv, TokensAreOwners, SessionTypeOK
<1> DEFINE r == Loaded(ROLE_REDIRECTS[roleNow[o]])
<1>5. r \in SessionTab /\ r.of = 0
  BY <1>4, SessionFacts DEF ROLE_REDIRECTS, protectedRoutes
<1>6. tab' = [tab EXCEPT ![t] = r]
  BY <1>1
<1> HIDE DEF r
<1>7. /\ tab' \in [SessionTabs -> SessionTab] /\ tab'[t] = r
      /\ \A u \in SessionTabs \ {t} : tab'[u] = tab[u]
  BY <1>5, <1>6, SessionFacts
<1>8. /\ DOMAIN tokenRole' = 1..MaxCookies /\ tokenRole'[cookies'] = [owner |-> o, role |-> roleNow[o]]
      /\ \A n \in 1..cookies : tokenRole'[n] = tokenRole[n]
  <2>1. DOMAIN tokenRole = 1..MaxCookies
    BY DEF SessionInv, TokensAreOwners
  <2>2. \A n \in 1..cookies : n # cookies + 1
    BY <1>3
  <2>3. QED
    BY <1>1, <1>2, <1>3, <2>1, <2>2
<1>9. cookie' \in [n : 0..MaxCookies, live : BOOLEAN] /\ cookie'.n = cookies' /\ cookie'.live
  BY <1>1, <1>2, <1>3
<1>10. SessionTypeOK'
  <2>1. \A n \in 1..cookies' : tokenRole'[n].role \in RoleOf[tokenRole'[n].owner].all
    BY <1>3, <1>4, <1>8 DEF SessionInv, SessionTypeOK
  <2>2. cookies' \in 0..MaxCookies
    BY <1>3
  <2>3. QED
    BY <1>2, <1>3, <1>7, <1>9, <2>1, <2>2 DEF SessionInv, SessionTypeOK, SessionTab
<1>11. TokensAreOwners'
  <2>1. \A n \in 1..cookies' : tokenRole'[n].owner \in Owners /\ tokenRole'[n].role \in {"admin", "firefighter", "user"}
    BY <1>3, <1>4, <1>8 DEF SessionInv, TokensAreOwners
  <2>2. \A u \in SessionTabs : tab'[u].of \in 0..cookies'
    BY <1>3, <1>5, <1>7 DEF SessionInv, TokensAreOwners
  <2>3. cookie'.n \in 0..cookies' /\ cookie'.n # 0
    BY <1>3, <1>9
  <2>4. QED
    BY <1>2, <1>8, <1>9, <2>1, <2>2, <2>3 DEF SessionInv, TokensAreOwners
<1>12. BouncedKnow'
  <2>1. SUFFICES ASSUME NEW u \in bounced', tab'[u].page = "/login"
                 PROVE  tab'[u].me # "asked" /\ tab'[u].of # cookie'.n
    BY DEF BouncedKnow
  <2>2. u \in bounced /\ u \in SessionTabs /\ tab'[u] = tab[u]
    BY <1>2, <1>7, <2>1 DEF SessionInv, SessionTypeOK
  <2>3. tab[u].of \in 0..cookies
    BY <2>2 DEF SessionInv, TokensAreOwners
  <2>4. QED
    BY <1>3, <1>9, <2>1, <2>2, <2>3 DEF SessionInv, BouncedKnow
<1>13. QED
  BY <1>9, <1>10, <1>11, <1>12 DEF SessionInv, SessionsEndForAReason

(* The time of a token ends it and no other. *)
LEMMA ExpiryKeepsSession == ASSUME SessionInv, TokenExpires PROVE SessionInv'
<1>1. /\ cookie.live /\ cookie' \in {[cookie EXCEPT !.live = FALSE], NoCookie} /\ ended' = ended \cup {cookie.n}
      /\ UNCHANGED <<roleNow, tab, logouts, cookies, roleChanges, tokenRole, bounced>>
  BY DEF TokenExpires
<1>2. cookie.n \in 1..cookies
  BY <1>1, SessionFacts DEF SessionInv, TokensAreOwners
<1>3. /\ cookie' \in [n : 0..MaxCookies, live : BOOLEAN] /\ ~cookie'.live
      /\ cookie'.n = cookie.n \/ cookie'.n = 0
  BY <1>1, SessionFacts
<1>4. SessionTypeOK'
  BY <1>1, <1>2, <1>3 DEF SessionInv, SessionTypeOK
<1>5. TokensAreOwners'
  <2>1. cookie'.n \in 0..cookies /\ (cookie'.n # 0 => cookie'.n \in ended')
    BY <1>1, <1>2, <1>3, SessionFacts
  <2>2. QED
    BY <1>1, <1>3, <2>1 DEF SessionInv, TokensAreOwners
<1>6. BouncedKnow'
  BY <1>1, <1>3 DEF SessionInv, BouncedKnow
<1>7. SessionsEndForAReason'
  BY <1>1, <1>3 DEF SessionInv, SessionsEndForAReason
<1>8. QED
  BY <1>4, <1>5, <1>6, <1>7 DEF SessionInv

LEMMA RolesKeepSession == ASSUME SessionInv, RoleChanges PROVE SessionInv'
<1>1. PICK o \in Owners, r \in {"admin", "firefighter", "user"} :
        r \in RoleOf[o].all /\ roleNow' = [roleNow EXCEPT ![o] = r]
  BY SessionAssumption DEF RoleChanges
<1>2. /\ roleChanges < MaxRoleChanges /\ roleChanges' = roleChanges + 1
      /\ UNCHANGED <<cookie, tab, logouts, cookies, tokenRole, ended, bounced>>
  BY DEF RoleChanges
<1>3. roleChanges' \in 0..MaxRoleChanges
  BY <1>2, SessionAssumption DEF SessionInv, SessionTypeOK
<1>4. roleNow' \in [Owners -> {"admin", "firefighter", "user"}] /\ \A p \in Owners : roleNow'[p] \in RoleOf[p].all
  BY <1>1 DEF SessionInv, TokensAreOwners, SessionTypeOK
<1>5. SessionTypeOK'
  BY <1>2, <1>3, <1>4 DEF SessionInv, SessionTypeOK
<1>6. TokensAreOwners' /\ BouncedKnow' /\ SessionsEndForAReason'
  BY <1>2, <1>4 DEF SessionInv, TokensAreOwners, BouncedKnow, SessionsEndForAReason
<1>7. QED
  BY <1>5, <1>6 DEF SessionInv

LEMMA SessionKept == SessionInv /\ [SessionNext]_sessionVars => SessionInv'
<1>1. ASSUME SessionInv, UNCHANGED sessionVars PROVE SessionInv'
  <2>1. SessionTypeOK' /\ TokensAreOwners' /\ BouncedKnow' /\ SessionsEndForAReason'
    BY <1>1 DEF sessionVars, SessionInv, SessionTypeOK, TokensAreOwners, BouncedKnow, SessionsEndForAReason
  <2>2. QED
    BY <2>1 DEF SessionInv
<1>2. ASSUME SessionInv, NEW t \in SessionTabs, SessionTabStep(t) PROVE SessionInv'
  BY <1>2, TabsKeepSession, SignsInKeepsSession DEF SessionTabStep
<1>3. QED
  BY <1>1, <1>2, ExpiryKeepsSession, RolesKeepSession DEF SessionNext

LEMMA SessionHolds == SessionInv => SessionTypeOK /\ BounceHasACause /\ SessionsEndForAReason
  BY DEF SessionInv, BouncedKnow, BounceHasACause

-----------------------------------------------------------------------------
RequestRow == [user : Applicants, wants : Wants, from : Roles, status : Statuses]
RolePage == [waits : Wants \cup {"none"}, loading : BOOLEAN, knows : Roles, does : {"nothing", "request", "cancel"},
             step : {"idle", "sent", "read", "done", "refused"}, wants : Wants, from : Roles,
             id : 0..MaxRequests]
RoleList == [list : [Ids -> Statuses], loading : BOOLEAN, open : 0..MaxRequests]
DecisionRow == [by : Desks, does : {"approve", "reject", "revoke"}, id : 0..MaxRequests,
                step : {"sent", "read", "done", "refused", "heard", "lost"}]

(* Who has read a row and has not written it yet. *)
Asks(u, p) == page[<<u, p>>].does = "request" /\ page[<<u, p>>].step = "read"
Cancels(u, p, n) == page[<<u, p>>].does = "cancel" /\ page[<<u, p>>].step = "read" /\ page[<<u, p>>].id = n
Decides(k, n) == decision[k].step = "read" /\ decision[k].id = n

(* Whatever is named by a desk, a decision or a page has been a row. *)
RequestsAreThere ==
  /\ \A d \in Desks : /\ desk[d].open \in {0} \cup DOMAIN request
                      /\ \A n \in Ids : desk[d].list[n] # "none" => n \in DOMAIN request
  /\ \A k \in DOMAIN decision : decision[k].id \in DOMAIN request
  /\ \A u \in Applicants, p \in Pages :
       Cancels(u, p, page[<<u, p>>].id) =>
         page[<<u, p>>].id \in DOMAIN request /\ request[page[<<u, p>>].id].user = u

DecidedStays ==
  \A k \in DOMAIN decision :
    decision[k].step \in {"done", "heard"} => request[decision[k].id].status # "pending"

(* A user who never submits twice at once has one request that waits, and  *)
(* none while a page is about to write one.                                *)
OneAsks ==
  \A u \in Applicants \ twice :
    /\ \A n, k \in PendingIn(u) : n = k
    /\ \A p \in Pages : Asks(u, p) => PendingIn(u) = {} /\ \A q \in Pages : Asks(u, q) => q = p

(* A row whose user's grants are not tangled is held by one, and is what   *)
(* it was when that one read it.                                           *)
HeldByOne(u, n) ==
  /\ \A k \in DOMAIN decision : Decides(k, n) =>
       /\ request[n].status = Needs[decision[k].does]
       /\ \A l \in DOMAIN decision : Decides(l, n) => l = k
       /\ \A p \in Pages : ~Cancels(u, p, n)
  /\ \A p \in Pages : Cancels(u, p, n) =>
       /\ request[n].status = "pending"
       /\ \A q \in Pages : Cancels(u, q, n) => q = p
OneHolds == \A n \in DOMAIN request : request[n].user \notin tangled => HeldByOne(request[n].user, n)

(* The approved requests of a user lead, from the role each noted to the   *)
(* role each gave, from "user" to the role of now: every role but these    *)
(* two is entered as often as it is left.                                  *)
Approved(u) == {n \in DOMAIN request : request[n].user = u /\ request[n].status = "approved"}
Into(u, r) == {n \in Approved(u) : request[n].wants = r}
OutOf(u, r) == {n \in Approved(u) : request[n].from = r}
One(b) == IF b THEN 1 ELSE 0
GrantsBalance ==
  \A u \in Applicants \ tangled, r \in Roles :
    Cardinality(Into(u, r)) + One(r = "user") = Cardinality(OutOf(u, r)) + One(r = role[u])

RoleInv ==
  /\ RoleTypeOK /\ Len(request) <= MaxRequests
  /\ RequestsAreThere /\ DecidedStays /\ DeskLearns /\ OneAsks /\ OneHolds /\ GrantsBalance

-----------------------------------------------------------------------------
(* Of some requests one is the first. *)
LEMMA FirstRequest ==
  ASSUME NEW S, S \subseteq Nat, S # {}
  PROVE  \E j \in S : \A k \in S : j <= k
<1>1. IsWellFoundedOn(OpToRel(<, Nat), Nat)
  BY NatLessThanWellFounded
<1>2. PICK j \in S : \A k \in S : <<k, j>> \notin OpToRel(<, Nat)
  BY <1>1, WFMin
<1>3. \A k \in S : ~(k < j)
  BY <1>2 DEF OpToRel
<1>4. QED
  BY <1>3

LEMMA RoleFacts ==
  ASSUME RoleInv
  PROVE  /\ role \in [Applicants -> Roles] /\ page \in [Applicants \X Pages -> RolePage]
         /\ request \in Seq(RequestRow) /\ Len(request) \in 0..MaxRequests
         /\ request \in [1..Len(request) -> RequestRow] /\ DOMAIN request = 1..Len(request)
         /\ desk \in [Desks -> RoleList]
         /\ decision \in Seq(DecisionRow) /\ Len(decision) \in Nat
         /\ decision \in [1..Len(decision) -> DecisionRow] /\ DOMAIN decision = 1..Len(decision)
         /\ MaxRequests \in Nat /\ DOMAIN request \subseteq Ids
<1>1. /\ role \in [Applicants -> Roles] /\ page \in [Applicants \X Pages -> RolePage]
      /\ request \in Seq(RequestRow) /\ Len(request) <= MaxRequests
      /\ desk \in [Desks -> RoleList] /\ decision \in Seq(DecisionRow)
  BY DEF RoleInv, RoleTypeOK, RequestRow, RolePage, RoleList, DecisionRow
<1>2. Len(request) \in Nat /\ request \in [1..Len(request) -> RequestRow] /\ DOMAIN request = 1..Len(request)
  BY <1>1
<1>3. Len(decision) \in Nat /\ decision \in [1..Len(decision) -> DecisionRow] /\ DOMAIN decision = 1..Len(decision)
  BY <1>1
<1>4. 1..Len(request) \subseteq Ids
  BY <1>1, <1>2, RoleAssumption DEF Ids
<1>5. QED
  BY <1>1, <1>2, <1>3, <1>4, RoleAssumption

LEMMA RolesStart == RoleInit => RoleInv
<1>1. SUFFICES ASSUME RoleInit PROVE RoleInv
  OBVIOUS
<1>2. /\ request = <<>> /\ decision = <<>> /\ Len(request) = 0 /\ DOMAIN request = {} /\ DOMAIN decision = {}
      /\ runs = 0 /\ twice = {} /\ tangled = {}
      /\ MaxRequests \in Nat /\ MaxRuns \in Nat /\ 0 \in 0..MaxRequests
      /\ request \in Seq(RequestRow) /\ decision \in Seq(DecisionRow)
  BY <1>1, RoleAssumption DEF RoleInit
<1>3. page \in [Applicants \X Pages -> RolePage] /\ \A u \in Applicants, p \in Pages : page[<<u, p>>].step = "idle"
  BY <1>1, <1>2 DEF RoleInit, RolePage, Wants, Roles
<1>4. /\ desk \in [Desks -> RoleList]
      /\ \A d \in Desks : desk[d].open = 0 /\ \A n \in Ids : desk[d].list[n] = "none"
  BY <1>1, <1>2 DEF RoleInit, RoleList, Unheard, Statuses
<1>5. role \in [Applicants -> Roles] /\ \A u \in Applicants : role[u] = "user"
  BY <1>1 DEF RoleInit, Roles
<1>6. RoleTypeOK
  BY <1>2, <1>3, <1>4, <1>5 DEF RoleTypeOK, RequestRow, RolePage, RoleList, DecisionRow
<1>7. RequestsAreThere /\ DecidedStays /\ DeskLearns
  BY <1>2, <1>3, <1>4 DEF RequestsAreThere, DecidedStays, DeskLearns, Cancels
<1>8. OneAsks /\ OneHolds
  BY <1>2, <1>3 DEF OneAsks, OneHolds, HeldByOne, PendingIn, Row, Asks
<1>9. GrantsBalance
  <2>1. ASSUME NEW u \in Applicants, NEW r \in Roles PROVE Into(u, r) = {} /\ OutOf(u, r) = {}
    BY <1>2 DEF Into, OutOf, Approved
  <2>2. QED
    BY <1>5, <2>1 DEF GrantsBalance
<1>10. QED
  BY <1>2, <1>6, <1>7, <1>8, <1>9 DEF RoleInv

-----------------------------------------------------------------------------
(* What does not change a user's approved requests or role keeps the       *)
(* balance.                                                                *)
LEMMA BalanceStays ==
  ASSUME GrantsBalance, tangled \subseteq tangled',
         \A u \in Applicants \ tangled' :
           role'[u] = role[u] /\ \A r \in Roles : Into(u, r)' = Into(u, r) /\ OutOf(u, r)' = OutOf(u, r)
  PROVE  GrantsBalance'
<1>1. SUFFICES ASSUME NEW u \in Applicants \ tangled', NEW r \in Roles
               PROVE  Cardinality(Into(u, r)') + One(r = "user") = Cardinality(OutOf(u, r)') + One(r = role'[u])
  BY DEF GrantsBalance
<1>2. QED
  BY DEF GrantsBalance

(* A page that does not come to hold a row disturbs nothing: it may be     *)
(* about to write one, if none waits.                                      *)
LEMMA PageKeepsRoles ==
  ASSUME RoleInv, NEW u \in Applicants, NEW p \in Pages, NEW r \in RolePage,
         page' = [page EXCEPT ![<<u, p>>] = r],
         r.does = "cancel" /\ r.step = "read" => Cancels(u, p, r.id),
         r.does = "request" /\ r.step = "read" =>
           Asks(u, p) \/ (PendingIn(u) = {} /\ (u \in twice' \/ \A q \in Pages : ~Asks(u, q))),
         twice \subseteq twice', twice' \subseteq Applicants,
         runs' \in 0..MaxRuns, UNCHANGED <<role, request, desk, decision, tangled>>
  PROVE  RoleInv'
<1>1. /\ page' \in [Applicants \X Pages -> RolePage] /\ page'[<<u, p>>] = r
      /\ \A v \in Applicants, q \in Pages : <<v, q>> # <<u, p>> => page'[<<v, q>>] = page[<<v, q>>]
  BY RoleFacts
<1>2. ASSUME NEW v \in Applicants, NEW q \in Pages
      PROVE  /\ Asks(v, q)' => Asks(v, q) \/ (v = u /\ q = p /\ r.does = "request" /\ r.step = "read")
             /\ \A n : Cancels(v, q, n)' => Cancels(v, q, n)
  <2>1. CASE <<v, q>> = <<u, p>>
    BY <1>1, <2>1 DEF Asks, Cancels
  <2>2. CASE <<v, q>> # <<u, p>>
    BY <1>1, <2>2 DEF Asks, Cancels
  <2>3. QED
    BY <2>1, <2>2
<1>3. RoleTypeOK' /\ Len(request') <= MaxRequests
  BY <1>1 DEF RoleInv, RoleTypeOK, RolePage
<1>4. RequestsAreThere'
  <2>1. ASSUME NEW v \in Applicants, NEW q \in Pages, Cancels(v, q, page[<<v, q>>].id)'
        PROVE  page'[<<v, q>>].id \in DOMAIN request /\ request[page'[<<v, q>>].id].user = v
    <3>1. Cancels(v, q, page'[<<v, q>>].id)
      BY <1>2, <2>1 DEF Cancels
    <3>2. Cancels(v, q, page[<<v, q>>].id) /\ page'[<<v, q>>].id = page[<<v, q>>].id
      BY <3>1 DEF Cancels
    <3>3. QED
      BY <3>2 DEF RoleInv, RequestsAreThere
  <2>2. QED
    BY <2>1 DEF RoleInv, RequestsAreThere, Cancels
<1>5. DecidedStays' /\ DeskLearns'
  BY DEF RoleInv, DecidedStays, DeskLearns
<1>6. OneAsks'
  <2>1. \A v \in Applicants : PendingIn(v)' = PendingIn(v)
    BY DEF PendingIn, Row
  <2>2. SUFFICES ASSUME NEW v \in Applicants, v \notin twice', NEW q \in Pages, Asks(v, q)'
                 PROVE  PendingIn(v) = {} /\ \A x \in Pages : Asks(v, x)' => x = q
    BY <2>1 DEF RoleInv, OneAsks, Asks
  <2>3. CASE \A x \in Pages : Asks(v, x)' => Asks(v, x)
    BY <2>2, <2>3 DEF RoleInv, OneAsks
  <2>4. CASE ~\A x \in Pages : Asks(v, x)' => Asks(v, x)
    <3>1. /\ v = u /\ r.does = "request" /\ r.step = "read" /\ ~Asks(u, p)
          /\ \A x \in Pages : Asks(u, x)' => Asks(u, x) \/ x = p
      BY <1>2, <2>4
    <3>2. PendingIn(u) = {} /\ \A x \in Pages : ~Asks(u, x)
      BY <2>2, <3>1
    <3>3. QED
      BY <2>2, <3>1, <3>2
  <2>5. QED
    BY <2>3, <2>4
<1>7. OneHolds'
  <2>1. \A k, n : Decides(k, n)' <=> Decides(k, n)
    BY DEF Decides
  <2>2. \A n \in DOMAIN request : request[n].user \in Applicants
    BY RoleFacts DEF RequestRow
  <2>3. QED
    BY <1>2, <2>1, <2>2 DEF RoleInv, OneHolds, HeldByOne, Decides, Cancels
<1>8. GrantsBalance'
  BY BalanceStays DEF RoleInv, Into, OutOf, Approved
<1>9. QED
  BY <1>3, <1>4, <1>5, <1>6, <1>7, <1>8 DEF RoleInv

LEMMA CreateKeepsRoles == ASSUME RoleInv, NEW u \in Applicants, NEW p \in Pages, create_role_request(u, p) PROVE RoleInv'
<1>1. /\ page[<<u, p>>] \in RolePage /\ page \in [Applicants \X Pages -> RolePage] /\ role[u] \in Roles
      /\ runs \in 0..MaxRuns /\ twice \subseteq Applicants
  BY RoleFacts DEF RoleInv, RoleTypeOK
<1>2. /\ page[<<u, p>>].does = "request" /\ page[<<u, p>>].step = "sent"
      /\ UNCHANGED <<role, request, desk, decision, runs, tangled>>
  BY DEF create_role_request
<1>3. CASE PendingIn(u) # {}
  <2> DEFINE r == [page[<<u, p>>] EXCEPT !.step = "refused"]
  <2>1. r \in RolePage /\ r.step = "refused"
    BY <1>1 DEF RolePage
  <2>2. page' = [page EXCEPT ![<<u, p>>] = r] /\ twice' = twice
    BY <1>1, <1>3 DEF create_role_request
  <2> HIDE DEF r
  <2>3. QED
    BY <1>1, <1>2, <2>1, <2>2, PageKeepsRoles
<1>4. CASE PendingIn(u) = {}
  <2> DEFINE r == [page[<<u, p>>] EXCEPT !.step = "read", !.from = role[u]]
  <2>1. r \in RolePage /\ r.does = "request"
    BY <1>1, <1>2 DEF RolePage
  <2>2. /\ page' = [page EXCEPT ![<<u, p>>] = r]
        /\ twice' = IF \E q \in Pages : page[<<u, q>>].does = "request" /\ page[<<u, q>>].step = "read"
                    THEN twice \cup {u} ELSE twice
    BY <1>1, <1>4 DEF create_role_request
  <2>3. twice \subseteq twice' /\ twice' \subseteq Applicants /\ (u \in twice' \/ \A q \in Pages : ~Asks(u, q))
    BY <1>1, <2>2 DEF Asks
  <2> HIDE DEF r
  <2>4. QED
    BY <1>1, <1>2, <1>4, <2>1, <2>2, <2>3, PageKeepsRoles
<1>5. QED
  BY <1>3, <1>4

(* A page comes to hold a row that waits: its user's grants are tangled    *)
(* from now on if another holds it.                                        *)
LEMMA CancelKeepsRoles == ASSUME RoleInv, NEW u \in Applicants, NEW p \in Pages, cancel_role_request(u, p) PROVE RoleInv'
<1>1. /\ page[<<u, p>>] \in RolePage /\ page \in [Applicants \X Pages -> RolePage]
      /\ runs \in 0..MaxRuns /\ twice \subseteq Applicants /\ tangled \subseteq Applicants
  BY RoleFacts DEF RoleInv, RoleTypeOK
<1>2. /\ page[<<u, p>>].does = "cancel" /\ page[<<u, p>>].step = "sent"
      /\ UNCHANGED <<role, request, desk, decision, runs, twice>>
  BY DEF cancel_role_request
<1>3. CASE PendingIn(u) = {}
  <2> DEFINE r == [page[<<u, p>>] EXCEPT !.step = "refused"]
  <2>1. r \in RolePage /\ r.step = "refused"
    BY <1>1 DEF RolePage
  <2>2. page' = [page EXCEPT ![<<u, p>>] = r] /\ tangled' = tangled
    BY <1>1, <1>3 DEF cancel_role_request
  <2> HIDE DEF r
  <2>3. QED
    BY <1>1, <1>2, <2>1, <2>2, PageKeepsRoles
<1>4. CASE PendingIn(u) # {}
  <2>1. PICK n \in PendingIn(u) :
          /\ page' = [page EXCEPT ![<<u, p>>].step = "read", ![<<u, p>>].id = n]
          /\ tangled' = Tangles(n)
    BY <1>4 DEF cancel_role_request
  <2>2. n \in DOMAIN request /\ request[n].user = u /\ request[n].status = "pending"
    BY <2>1 DEF PendingIn, Row
  <2>3. n \in 0..MaxRequests
    BY <2>2, RoleFacts
  <2> DEFINE r == [page[<<u, p>>] EXCEPT !.step = "read", !.id = n]
  <2>4. r \in RolePage /\ r.does = "cancel" /\ r.step = "read" /\ r.id = n
    BY <1>1, <1>2, <2>3 DEF RolePage
  <2>5. page' = [page EXCEPT ![<<u, p>>] = r]
    BY <1>1, <2>1
  <2> HIDE DEF r
  <2>6. /\ page' \in [Applicants \X Pages -> RolePage] /\ page'[<<u, p>>] = r
        /\ \A v \in Applicants, q \in Pages : <<v, q>> # <<u, p>> => page'[<<v, q>>] = page[<<v, q>>]
    BY <1>1, <2>4, <2>5
  <2>7. ASSUME NEW v \in Applicants, NEW q \in Pages
        PROVE  /\ Asks(v, q)' => Asks(v, q)
               /\ \A j : Cancels(v, q, j)' => Cancels(v, q, j) \/ (v = u /\ q = p /\ j = n)
    <3>1. CASE <<v, q>> = <<u, p>>
      BY <2>4, <2>6, <3>1 DEF Asks, Cancels
    <3>2. CASE <<v, q>> # <<u, p>>
      BY <2>6, <3>2 DEF Asks, Cancels
    <3>3. QED
      BY <3>1, <3>2
  <2>8. /\ tangled \subseteq tangled' /\ tangled' \subseteq Applicants
        /\ u \notin tangled' => /\ \A k \in DOMAIN decision : ~Decides(k, n)
                                /\ \A q \in Pages : ~Cancels(u, q, n)
    BY <1>1, <2>1, <2>2 DEF Tangles, Held, Decides, Cancels
  <2>9. RoleTypeOK' /\ Len(request') <= MaxRequests
    BY <1>2, <2>6, <2>8 DEF RoleInv, RoleTypeOK, RolePage
  <2>10. RequestsAreThere'
    <3>1. ASSUME NEW v \in Applicants, NEW q \in Pages, Cancels(v, q, page[<<v, q>>].id)'
          PROVE  page'[<<v, q>>].id \in DOMAIN request /\ request[page'[<<v, q>>].id].user = v
      <4>1. CASE <<v, q>> = <<u, p>>
        BY <2>2, <2>4, <2>6, <4>1
      <4>2. CASE <<v, q>> # <<u, p>>
        BY <2>6, <3>1, <4>2 DEF RoleInv, RequestsAreThere, Cancels
      <4>3. QED
        BY <4>1, <4>2
    <3>2. QED
      BY <1>2, <3>1 DEF RoleInv, RequestsAreThere, Cancels
  <2>11. DecidedStays' /\ DeskLearns'
    BY <1>2 DEF RoleInv, DecidedStays, DeskLearns
  <2>12. OneAsks'
    <3>1. \A v \in Applicants : PendingIn(v)' = PendingIn(v)
      BY <1>2 DEF PendingIn, Row
    <3>2. QED
      BY <1>2, <2>7, <3>1 DEF RoleInv, OneAsks, Asks
  <2>13. OneHolds'
    <3>1. SUFFICES ASSUME NEW j \in DOMAIN request, request[j].user \notin tangled'
                   PROVE  /\ \A k \in DOMAIN decision : Decides(k, j) =>
                               /\ request[j].status = Needs[decision[k].does]
                               /\ \A l \in DOMAIN decision : Decides(l, j) => l = k
                               /\ \A q \in Pages : ~Cancels(request[j].user, q, j)'
                          /\ \A q \in Pages : Cancels(request[j].user, q, j)' =>
                               /\ request[j].status = "pending"
                               /\ \A x \in Pages : Cancels(request[j].user, x, j)' => x = q
      BY <1>2 DEF OneHolds, HeldByOne, Decides, Cancels
    <3>2. request[j].user \in Applicants /\ request[j].user \notin tangled
      BY <2>8, <3>1, RoleFacts DEF RequestRow
    <3>3. /\ \A k \in DOMAIN decision : Decides(k, j) =>
               /\ request[j].status = Needs[decision[k].does]
               /\ \A l \in DOMAIN decision : Decides(l, j) => l = k
               /\ \A q \in Pages : ~Cancels(request[j].user, q, j)
          /\ \A q \in Pages : Cancels(request[j].user, q, j) =>
               /\ request[j].status = "pending"
               /\ \A x \in Pages : Cancels(request[j].user, x, j) => x = q
      BY <3>1, <3>2 DEF RoleInv, OneHolds, HeldByOne
    <3>4. CASE j = n
      <4>1. \A q \in Pages : Cancels(u, q, n)' => q = p
        BY <2>2, <2>7, <2>8, <3>1, <3>4
      <4>2. QED
        BY <1>2, <2>2, <2>8, <3>1, <3>4, <4>1 DEF Cancels
    <3>5. CASE j # n
      <4>1. \A q \in Pages : Cancels(request[j].user, q, j)' => Cancels(request[j].user, q, j)
        <5>1. SUFFICES ASSUME NEW v \in Applicants, NEW q \in Pages, Cancels(v, q, j)' PROVE Cancels(v, q, j)
          BY <1>2, <3>2 DEF Cancels
        <5>2. QED
          BY <2>7, <3>5, <5>1
      <4>2. QED
        BY <1>2, <3>3, <4>1 DEF Cancels
    <3>6. QED
      BY <3>4, <3>5
  <2>14. GrantsBalance'
    BY <1>2, <2>8, BalanceStays DEF RoleInv, Into, OutOf, Approved
  <2>15. QED
    BY <2>9, <2>10, <2>11, <2>12, <2>13, <2>14 DEF RoleInv
<1>5. QED
  BY <1>3, <1>4

(* A row is appended: it waits, and every other is what it was. *)
LEMMA InsertKeepsRoles == ASSUME RoleInv, NEW u \in Applicants, NEW p \in Pages, InsertRequest(u, p) PROVE RoleInv'
<1>0. PICK n : n = Len(request) + 1
  OBVIOUS
<1> DEFINE added == [user |-> u, wants |-> page[<<u, p>>].wants, from |-> page[<<u, p>>].from, status |-> "pending"]
<1>1. /\ page[<<u, p>>] \in RolePage /\ page \in [Applicants \X Pages -> RolePage]
      /\ request \in Seq(RequestRow) /\ DOMAIN request = 1..Len(request) /\ Len(request) \in Nat
  BY RoleFacts
<1>2. /\ page[<<u, p>>].does = "request" /\ page[<<u, p>>].step = "read" /\ Len(request) < MaxRequests
      /\ request' = Append(request, added)
      /\ page' = [page EXCEPT ![<<u, p>>].step = "done"]
      /\ UNCHANGED <<role, desk, decision, runs, twice, tangled>>
  BY DEF InsertRequest
<1>3. added \in RequestRow /\ added.user = u /\ added.status = "pending"
  BY <1>1 DEF RolePage, RequestRow, Statuses
<1> HIDE DEF added
<1>4. /\ request' \in Seq(RequestRow) /\ Len(request') = n /\ DOMAIN request' = 1..n /\ Len(request') <= MaxRequests
      /\ n \notin DOMAIN request /\ DOMAIN request' = DOMAIN request \cup {n} /\ request'[n] = added
      /\ \A j \in DOMAIN request : request'[j] = request[j]
  BY <1>0, <1>1, <1>2, <1>3, RoleAssumption
<1> DEFINE r == [page[<<u, p>>] EXCEPT !.step = "done"]
<1>5. r \in RolePage /\ r.step = "done"
  BY <1>1 DEF RolePage
<1>6. page' = [page EXCEPT ![<<u, p>>] = r]
  BY <1>1, <1>2
<1> HIDE DEF r
<1>7. /\ page' \in [Applicants \X Pages -> RolePage] /\ page'[<<u, p>>] = r
      /\ \A v \in Applicants, q \in Pages : <<v, q>> # <<u, p>> => page'[<<v, q>>] = page[<<v, q>>]
  BY <1>1, <1>5, <1>6
<1>8. ASSUME NEW v \in Applicants, NEW q \in Pages
      PROVE  /\ Asks(v, q)' => Asks(v, q) /\ ~(v = u /\ q = p)
             /\ \A j : Cancels(v, q, j)' => Cancels(v, q, j)
  <2>1. CASE <<v, q>> = <<u, p>>
    BY <1>5, <1>7, <2>1 DEF Asks, Cancels
  <2>2. CASE <<v, q>> # <<u, p>>
    BY <1>7, <2>2 DEF Asks, Cancels
  <2>3. QED
    BY <2>1, <2>2
<1>9. RoleTypeOK'
  BY <1>2, <1>4, <1>7 DEF RoleInv, RoleTypeOK, RolePage, RequestRow
<1>10. RequestsAreThere'
  <2>1. ASSUME NEW v \in Applicants, NEW q \in Pages, Cancels(v, q, page[<<v, q>>].id)'
        PROVE  page'[<<v, q>>].id \in DOMAIN request' /\ request'[page'[<<v, q>>].id].user = v
    <3>1. Cancels(v, q, page'[<<v, q>>].id)
      BY <1>8, <2>1 DEF Cancels
    <3>2. Cancels(v, q, page[<<v, q>>].id) /\ page'[<<v, q>>].id = page[<<v, q>>].id
      BY <3>1 DEF Cancels
    <3>3. page[<<v, q>>].id \in DOMAIN request /\ request[page[<<v, q>>].id].user = v
      BY <3>2 DEF RoleInv, RequestsAreThere
    <3>4. QED
      BY <1>4, <3>2, <3>3
  <2>2. QED
    BY <1>2, <1>4, <2>1 DEF RoleInv, RequestsAreThere, Cancels
<1>11. DecidedStays' /\ DeskLearns'
  BY <1>2, <1>4 DEF RoleInv, DecidedStays, DeskLearns, RequestsAreThere
<1>12. \A v \in Applicants : PendingIn(v)' = IF v = u THEN PendingIn(v) \cup {n} ELSE PendingIn(v)
  <2>1. SUFFICES ASSUME NEW v \in Applicants, NEW j
                 PROVE  j \in PendingIn(v)' <=> j \in PendingIn(v) \/ (v = u /\ j = n)
    OBVIOUS
  <2>2. QED
    BY <1>3, <1>4 DEF PendingIn, Row
<1>13. OneAsks'
  <2>1. SUFFICES ASSUME NEW v \in Applicants, v \notin twice
                 PROVE  /\ \A i, j \in PendingIn(v)' : i = j
                        /\ \A q \in Pages : Asks(v, q)' => PendingIn(v)' = {} /\ \A x \in Pages : Asks(v, x)' => x = q
    BY <1>2 DEF OneAsks, Asks
  <2>2. /\ \A i, j \in PendingIn(v) : i = j
        /\ \A q \in Pages : Asks(v, q) => PendingIn(v) = {} /\ \A x \in Pages : Asks(v, x) => x = q
    BY <2>1 DEF RoleInv, OneAsks
  <2>3. CASE v = u
    <3>1. Asks(u, p)
      BY <1>2 DEF Asks
    <3>2. PendingIn(u) = {} /\ \A q \in Pages : ~Asks(u, q)'
      BY <1>8, <2>2, <2>3, <3>1
    <3>3. QED
      BY <1>12, <2>3, <3>2
  <2>4. CASE v # u
    BY <1>8, <1>12, <2>2, <2>4
  <2>5. QED
    BY <2>3, <2>4
<1>14. OneHolds'
  <2>1. SUFFICES ASSUME NEW j \in DOMAIN request', NEW v \in Applicants, v = request'[j].user, v \notin tangled
                 PROVE  HeldByOne(v, j)'
    <3>1. \A i \in DOMAIN request' : request'[i].user \in Applicants
      BY <1>3, <1>4, RoleFacts DEF RequestRow
    <3>2. QED
      BY <1>2, <3>1 DEF OneHolds
  <2>2. CASE j = n
    <3>1. \A k \in DOMAIN decision : ~Decides(k, n)
      BY <1>4 DEF RoleInv, RequestsAreThere, Decides
    <3>2. \A q \in Pages : ~Cancels(v, q, n)
      BY <1>4 DEF RoleInv, RequestsAreThere, Cancels
    <3>3. QED
      BY <1>2, <1>3, <1>4, <1>8, <2>2, <3>1, <3>2 DEF HeldByOne, Decides, Cancels
  <2>3. CASE j # n
    <3>1. j \in DOMAIN request /\ request'[j] = request[j] /\ request[j].user = v
      BY <1>4, <2>1, <2>3
    <3>2. /\ \A k \in DOMAIN decision : Decides(k, j) =>
               /\ request[j].status = Needs[decision[k].does]
               /\ \A l \in DOMAIN decision : Decides(l, j) => l = k
               /\ \A q \in Pages : ~Cancels(v, q, j)
          /\ \A q \in Pages : Cancels(v, q, j) =>
               /\ request[j].status = "pending"
               /\ \A x \in Pages : Cancels(v, x, j) => x = q
      BY <2>1, <3>1 DEF RoleInv, OneHolds, HeldByOne
    <3>3. \A q \in Pages : Cancels(v, q, j)' => Cancels(v, q, j)
      BY <1>8, <3>1 DEF Cancels
    <3>4. QED
      BY <1>2, <3>1, <3>2, <3>3 DEF HeldByOne, Decides, Cancels
  <2>4. QED
    BY <2>2, <2>3
<1>15. GrantsBalance'
  <2>1. ASSUME NEW v \in Applicants PROVE Approved(v)' = Approved(v)
    BY <1>3, <1>4 DEF Approved
  <2>2. ASSUME NEW v \in Applicants, NEW x \in Roles PROVE Into(v, x)' = Into(v, x) /\ OutOf(v, x)' = OutOf(v, x)
    <3>1. \A j \in Approved(v) : request'[j] = request[j]
      BY <1>4 DEF Approved
    <3>2. QED
      BY <2>1, <3>1 DEF Into, OutOf
  <2>3. QED
    BY <1>2, <2>2, BalanceStays DEF RoleInv
<1>16. QED
  BY <1>4, <1>9, <1>10, <1>11, <1>13, <1>14, <1>15 DEF RoleInv

-----------------------------------------------------------------------------
(* A row gets another status, and nothing else. *)
LEMMA StatusChanges ==
  ASSUME RoleInv, NEW n \in DOMAIN request, NEW s \in Statuses, request' = [request EXCEPT ![n].status = s]
  PROVE  /\ request' \in Seq(RequestRow) /\ Len(request') = Len(request) /\ DOMAIN request' = DOMAIN request
         /\ request'[n].status = s
         /\ \A j \in DOMAIN request : /\ request'[j].user = request[j].user /\ request'[j].wants = request[j].wants
                                      /\ request'[j].from = request[j].from
                                      /\ j # n => request'[j] = request[j]
<1>1. /\ request \in [1..Len(request) -> RequestRow] /\ DOMAIN request = 1..Len(request) /\ Len(request) \in Nat
      /\ n \in 1..Len(request) /\ request[n] \in RequestRow
  BY RoleFacts
<1> DEFINE r == [request[n] EXCEPT !.status = s]
<1>2. /\ r \in RequestRow /\ r.status = s /\ r.user = request[n].user /\ r.wants = request[n].wants
      /\ r.from = request[n].from
  BY <1>1 DEF RequestRow
<1>3. request' = [request EXCEPT ![n] = r]
  BY <1>1
<1> HIDE DEF r
<1>4. request' \in [1..Len(request) -> RequestRow] /\ DOMAIN request' = 1..Len(request)
  BY <1>1, <1>2, <1>3
<1>5. request' \in Seq(RequestRow) /\ Len(request') = Len(request)
  BY <1>1, <1>4
<1>6. request'[n] = r /\ \A j \in DOMAIN request : j # n => request'[j] = request[j]
  BY <1>1, <1>3
<1>7. QED
  BY <1>1, <1>2, <1>4, <1>5, <1>6

(* A row that waited is gone, and its user's grants are as they were,      *)
(* unless they are tangled.                                                *)
LEMMA DeleteKeepsRoles == ASSUME RoleInv, NEW u \in Applicants, NEW p \in Pages, DeleteRequest(u, p) PROVE RoleInv'
<1>0. PICK n : n = page[<<u, p>>].id
  OBVIOUS
<1>1. /\ page[<<u, p>>] \in RolePage /\ page \in [Applicants \X Pages -> RolePage]
      /\ request \in Seq(RequestRow) /\ DOMAIN request = 1..Len(request) /\ Len(request) \in Nat
  BY RoleFacts
<1>2. /\ Cancels(u, p, n)
      /\ request' = [request EXCEPT ![n].status = "none"]
      /\ page' = [page EXCEPT ![<<u, p>>].step = "done"]
      /\ UNCHANGED <<role, desk, decision, runs, twice, tangled>>
  BY <1>0 DEF DeleteRequest, Cancels
<1>3. n \in DOMAIN request /\ request[n].user = u
  BY <1>0, <1>2 DEF RoleInv, RequestsAreThere
<1>4. /\ request' \in Seq(RequestRow) /\ Len(request') = Len(request) /\ DOMAIN request' = DOMAIN request
      /\ request'[n].status = "none"
      /\ \A j \in DOMAIN request : /\ request'[j].user = request[j].user /\ request'[j].wants = request[j].wants
                                   /\ request'[j].from = request[j].from
                                   /\ j # n => request'[j] = request[j]
  BY <1>2, <1>3, StatusChanges DEF Statuses
<1> DEFINE r == [page[<<u, p>>] EXCEPT !.step = "done"]
<1>5. r \in RolePage /\ r.step = "done"
  BY <1>1 DEF RolePage
<1>6. page' = [page EXCEPT ![<<u, p>>] = r]
  BY <1>1, <1>2
<1> HIDE DEF r
<1>7. /\ page' \in [Applicants \X Pages -> RolePage] /\ page'[<<u, p>>] = r
      /\ \A v \in Applicants, q \in Pages : <<v, q>> # <<u, p>> => page'[<<v, q>>] = page[<<v, q>>]
  BY <1>1, <1>5, <1>6
<1>8. ASSUME NEW v \in Applicants, NEW q \in Pages
      PROVE  /\ Asks(v, q)' => Asks(v, q)
             /\ \A j : Cancels(v, q, j)' => Cancels(v, q, j) /\ ~(v = u /\ q = p)
  <2>1. CASE <<v, q>> = <<u, p>>
    BY <1>5, <1>7, <2>1 DEF Asks, Cancels
  <2>2. CASE <<v, q>> # <<u, p>>
    BY <1>7, <2>2 DEF Asks, Cancels
  <2>3. QED
    BY <2>1, <2>2
<1>9. RoleTypeOK'
  BY <1>2, <1>4, <1>7 DEF RoleInv, RoleTypeOK, RolePage, RequestRow
<1>10. RequestsAreThere'
  <2>1. ASSUME NEW v \in Applicants, NEW q \in Pages, Cancels(v, q, page[<<v, q>>].id)'
        PROVE  page'[<<v, q>>].id \in DOMAIN request' /\ request'[page'[<<v, q>>].id].user = v
    <3>1. Cancels(v, q, page'[<<v, q>>].id)
      BY <1>8, <2>1 DEF Cancels
    <3>2. Cancels(v, q, page[<<v, q>>].id) /\ page'[<<v, q>>].id = page[<<v, q>>].id
      BY <3>1 DEF Cancels
    <3>3. page[<<v, q>>].id \in DOMAIN request /\ request[page[<<v, q>>].id].user = v
      BY <3>2 DEF RoleInv, RequestsAreThere
    <3>4. QED
      BY <1>4, <3>2, <3>3
  <2>2. QED
    BY <1>2, <1>4, <2>1 DEF RoleInv, RequestsAreThere, Cancels
<1>11. DecidedStays' /\ DeskLearns'
  BY <1>2, <1>4 DEF RoleInv, DecidedStays, DeskLearns, RequestsAreThere
<1>12. \A v \in Applicants : PendingIn(v)' \subseteq PendingIn(v)
  BY <1>4 DEF PendingIn, Row
<1>13. OneAsks'
  BY <1>2, <1>8, <1>12 DEF RoleInv, OneAsks, Asks
<1>14. ASSUME NEW j \in DOMAIN request, request[j].user \notin tangled
       PROVE  /\ \A k \in DOMAIN decision : Decides(k, j) =>
                   /\ request[j].status = Needs[decision[k].does]
                   /\ \A l \in DOMAIN decision : Decides(l, j) => l = k
                   /\ \A q \in Pages : ~Cancels(request[j].user, q, j)
              /\ \A q \in Pages : Cancels(request[j].user, q, j) =>
                   /\ request[j].status = "pending"
                   /\ \A x \in Pages : Cancels(request[j].user, x, j) => x = q
  BY <1>14 DEF RoleInv, OneHolds, HeldByOne
<1>15. OneHolds'
  <2>1. SUFFICES ASSUME NEW j \in DOMAIN request, request[j].user \notin tangled
                 PROVE  /\ \A k \in DOMAIN decision : Decides(k, j) =>
                             /\ request'[j].status = Needs[decision[k].does]
                             /\ \A l \in DOMAIN decision : Decides(l, j) => l = k
                             /\ \A q \in Pages : ~Cancels(request[j].user, q, j)'
                        /\ \A q \in Pages : Cancels(request[j].user, q, j)' =>
                             /\ request'[j].status = "pending"
                             /\ \A x \in Pages : Cancels(request[j].user, x, j)' => x = q
    BY <1>2, <1>4 DEF OneHolds, HeldByOne, Decides, Cancels
  <2>2. request[j].user \in Applicants
    BY <2>1, RoleFacts DEF RequestRow
  <2>3. CASE j = n
    <3>1. \A q \in Pages : Cancels(u, q, n) => q = p
      BY <1>2, <1>3, <1>14, <2>1, <2>3
    <3>2. \A q \in Pages : ~Cancels(u, q, n)'
      BY <1>8, <3>1
    <3>3. \A k \in DOMAIN decision : ~Decides(k, n)
      BY <1>2, <1>3, <1>14, <2>1, <2>3
    <3>4. QED
      BY <1>3, <1>4, <2>3, <3>2, <3>3 DEF Cancels
  <2>4. CASE j # n
    <3>1. \A q \in Pages : Cancels(request[j].user, q, j)' => Cancels(request[j].user, q, j)
      BY <1>4, <1>8, <2>2 DEF Cancels
    <3>2. request'[j] = request[j]
      BY <1>4, <2>4
    <3>3. QED
      BY <1>14, <2>1, <3>1, <3>2 DEF Cancels
  <2>5. QED
    BY <2>3, <2>4
<1>16. GrantsBalance'
  <2>1. ASSUME NEW v \in Applicants \ tangled PROVE Approved(v)' = Approved(v)
    <3>1. v = u => request[n].status = "pending"
      BY <1>2, <1>3, <1>14
    <3>2. QED
      BY <1>3, <1>4, <3>1 DEF Approved
  <2>2. ASSUME NEW v \in Applicants \ tangled, NEW x \in Roles PROVE Into(v, x)' = Into(v, x) /\ OutOf(v, x)' = OutOf(v, x)
    <3>1. \A j \in Approved(v) : request'[j].wants = request[j].wants /\ request'[j].from = request[j].from
      BY <1>4 DEF Approved
    <3>2. QED
      BY <2>1, <3>1 DEF Into, OutOf
  <2>3. QED
    BY <1>2, <2>2, BalanceStays DEF RoleInv
<1>17. QED
  BY <1>4, <1>9, <1>10, <1>11, <1>13, <1>15, <1>16, RoleFacts DEF RoleInv

-----------------------------------------------------------------------------
(* A desk is changed, and what it shows are rows. *)
ListIsOfRows(r, d) ==
  /\ r.open \in {0} \cup DOMAIN request
  /\ \A n \in Ids : r.list[n] # "none" => n \in DOMAIN request
  /\ \A k \in DOMAIN decision :
       decision[k].step = "heard" /\ decision[k].by = d /\ ~r.loading => r.list[decision[k].id] # "pending"
LEMMA DeskKeepsRoles ==
  ASSUME RoleInv, NEW d \in Desks, NEW r \in RoleList, desk' = [desk EXCEPT ![d] = r],
         UNCHANGED <<role, request, page, decision, runs, twice, tangled>>, ListIsOfRows(r, d)
  PROVE  RoleInv'
<1>0. /\ r.open \in {0} \cup DOMAIN request
      /\ \A n \in Ids : r.list[n] # "none" => n \in DOMAIN request
      /\ \A k \in DOMAIN decision :
           decision[k].step = "heard" /\ decision[k].by = d /\ ~r.loading => r.list[decision[k].id] # "pending"
  BY DEF ListIsOfRows
<1>1. desk' \in [Desks -> RoleList] /\ desk'[d] = r /\ \A e \in Desks \ {d} : desk'[e] = desk[e]
  BY RoleFacts
<1>2. RoleTypeOK'
  BY <1>1 DEF RoleInv, RoleTypeOK, RoleList
<1>3. RequestsAreThere'
  BY <1>0, <1>1 DEF RoleInv, RequestsAreThere, Cancels
<1>4. DecidedStays'
  BY DEF RoleInv, DecidedStays
<1>5. DeskLearns'
  <2>1. \A k \in DOMAIN decision : decision[k].by \in Desks
    BY RoleFacts DEF DecisionRow
  <2>2. QED
    BY <1>0, <1>1, <2>1 DEF RoleInv, DeskLearns
<1>6. OneAsks'
  BY DEF RoleInv, OneAsks, Asks, PendingIn, Row
<1>7. OneHolds'
  BY DEF RoleInv, OneHolds, HeldByOne, Decides, Cancels
<1>8. GrantsBalance'
  BY DEF RoleInv, GrantsBalance, Into, OutOf, Approved
<1>9. QED
  BY <1>2, <1>3, <1>4, <1>5, <1>6, <1>7, <1>8 DEF RoleInv

LEMMA DesksKeepRoles ==
  ASSUME RoleInv, NEW d \in Desks, DeskListArrives(d) \/ OpenRequest(d) \/ CloseRequest(d)
  PROVE  RoleInv'
<1>1. /\ desk[d] \in RoleList /\ desk \in [Desks -> RoleList] /\ DOMAIN request \subseteq Ids /\ 0 \in 0..MaxRequests
      /\ request \in [DOMAIN request -> RequestRow] /\ Ids \subseteq 0..MaxRequests
  BY RoleFacts DEF Ids
<1>2. /\ desk[d].open \in {0} \cup DOMAIN request
      /\ \A n \in Ids : desk[d].list[n] # "none" => n \in DOMAIN request
      /\ \A k \in DOMAIN decision : decision[k].id \in DOMAIN request
      /\ \A k \in DOMAIN decision :
           decision[k].step = "heard" /\ decision[k].by = d /\ ~desk[d].loading => desk[d].list[decision[k].id] # "pending"
  BY DEF RoleInv, RequestsAreThere, DeskLearns
<1>3. CASE DeskListArrives(d)
  <2>1. PICK heard \in BOOLEAN :
          desk' = [desk EXCEPT ![d].loading = FALSE,
                     ![d].list = [n \in Ids |-> IF heard /\ n \in DOMAIN request THEN request[n].status ELSE "none"]]
    BY <1>3 DEF DeskListArrives
  <2> DEFINE l == [n \in Ids |-> IF heard /\ n \in DOMAIN request THEN request[n].status ELSE "none"]
  <2>2. l \in [Ids -> Statuses]
    BY <1>1 DEF RequestRow, Statuses
  <2>3. \A n \in Ids : l[n] # "none" => n \in DOMAIN request /\ l[n] = request[n].status
    OBVIOUS
  <2>4. desk' = [desk EXCEPT ![d].loading = FALSE, ![d].list = l]
    BY <2>1
  <2> HIDE DEF l
  <2> DEFINE r == [desk[d] EXCEPT !.loading = FALSE, !.list = l]
  <2>5. r \in RoleList /\ r.list = l /\ r.open = desk[d].open
    BY <1>1, <2>2 DEF RoleList
  <2>6. desk' = [desk EXCEPT ![d] = r]
    BY <1>1, <2>4
  <2> HIDE DEF r
  <2>7. \A k \in DOMAIN decision : decision[k].step = "heard" => l[decision[k].id] # "pending"
    <3>1. SUFFICES ASSUME NEW k \in DOMAIN decision, decision[k].step = "heard", l[decision[k].id] = "pending" PROVE FALSE
      OBVIOUS
    <3>2. decision[k].id \in Ids /\ request[decision[k].id].status # "pending"
      BY <1>1, <1>2, <3>1 DEF RoleInv, DecidedStays
    <3>3. QED
      BY <2>3, <3>1, <3>2
  <2>8. UNCHANGED <<role, request, page, decision, runs, twice, tangled>>
    BY <1>3 DEF DeskListArrives
  <2>9. ListIsOfRows(r, d)
    <3>1. r.open \in {0} \cup DOMAIN request
      BY <1>2, <2>5
    <3>2. \A n \in Ids : r.list[n] # "none" => n \in DOMAIN request
      BY <1>2, <2>3, <2>5
    <3>3. \A k \in DOMAIN decision :
            decision[k].step = "heard" /\ decision[k].by = d /\ ~r.loading => r.list[decision[k].id] # "pending"
      <4>1. r.list = l
        BY <2>5
      <4>2. SUFFICES ASSUME NEW k \in DOMAIN decision, decision[k].step = "heard" PROVE r.list[decision[k].id] # "pending"
        OBVIOUS
      <4>3. l[decision[k].id] # "pending"
        BY <2>7, <4>2
      <4>4. QED
        BY <4>1, <4>3
    <3>4. QED
      BY <3>1, <3>2, <3>3 DEF ListIsOfRows
  <2>10. QED
    BY <2>9, <2>5, <2>6, <2>8, DeskKeepsRoles
<1>4. CASE OpenRequest(d) \/ CloseRequest(d)
  <2>1. PICK n \in {0} \cup DOMAIN request : desk' = [desk EXCEPT ![d].open = n]
    BY <1>2, <1>4 DEF OpenRequest, CloseRequest, RoleRequestsTable
  <2> DEFINE r == [desk[d] EXCEPT !.open = n]
  <2>2. r \in RoleList /\ r.open = n /\ r.list = desk[d].list /\ r.loading = desk[d].loading
    BY <1>1, <2>1 DEF RoleList
  <2>3. desk' = [desk EXCEPT ![d] = r]
    BY <1>1, <2>1
  <2> HIDE DEF r
  <2>4. UNCHANGED <<role, request, page, decision, runs, twice, tangled>>
    BY <1>4 DEF OpenRequest, CloseRequest
  <2>5. ListIsOfRows(r, d)
    BY <1>2, <2>1, <2>2 DEF ListIsOfRows
  <2>6. QED
    BY <2>5, <2>2, <2>3, <2>4, DeskKeepsRoles
<1>5. QED
  BY <1>3, <1>4

(* A decision is sent: it is about a row, and nobody has read it. *)
LEMMA DecideKeepsRoles == ASSUME RoleInv, NEW d \in Desks, Decide(d) PROVE RoleInv'
<1>1. PICK b \in ModalButtons(d) :
        decision' = Append(decision, [by |-> d, does |-> b, id |-> desk[d].open, step |-> "sent"])
  BY DEF Decide
<1>2. UNCHANGED <<role, request, page, desk, runs, twice, tangled>>
  BY DEF Decide
<1>3. /\ b \in {"approve", "reject", "revoke"} /\ desk[d].open # 0
  BY <1>1 DEF ModalButtons
<1>4. /\ desk[d].open \in DOMAIN request /\ desk[d].open \in 0..MaxRequests
      /\ decision \in Seq(DecisionRow) /\ Len(decision) \in Nat /\ DOMAIN decision = 1..Len(decision)
  BY <1>3, RoleFacts DEF RoleInv, RequestsAreThere, RoleList
<1> DEFINE sent == [by |-> d, does |-> b, id |-> desk[d].open, step |-> "sent"]
<1>5. sent \in DecisionRow /\ sent.id \in DOMAIN request /\ sent.step = "sent"
  BY <1>3, <1>4 DEF DecisionRow
<1>6. decision' = Append(decision, sent)
  BY <1>1
<1> HIDE DEF sent
<1>7. PICK j : j = Len(decision) + 1
  OBVIOUS
<1>8. /\ decision' \in Seq(DecisionRow) /\ DOMAIN decision' = DOMAIN decision \cup {j} /\ decision'[j] = sent
      /\ \A k \in DOMAIN decision : decision'[k] = decision[k]
  BY <1>4, <1>5, <1>6, <1>7
<1>9. RoleTypeOK'
  BY <1>2, <1>8 DEF RoleInv, RoleTypeOK, DecisionRow
<1>10. RequestsAreThere'
  BY <1>2, <1>5, <1>8 DEF RoleInv, RequestsAreThere, Cancels
<1>11. DecidedStays' /\ DeskLearns'
  BY <1>2, <1>5, <1>8 DEF RoleInv, DecidedStays, DeskLearns
<1>12. OneAsks'
  BY <1>2 DEF RoleInv, OneAsks, Asks, PendingIn, Row
<1>13. \A n : \A k \in DOMAIN decision' : Decides(k, n)' => k \in DOMAIN decision /\ Decides(k, n)
  BY <1>5, <1>8 DEF Decides
<1>14. OneHolds'
  <2>1. SUFFICES ASSUME NEW n \in DOMAIN request, NEW v, v = request[n].user, v \notin tangled PROVE HeldByOne(v, n)'
    BY <1>2 DEF OneHolds
  <2>2. HeldByOne(v, n)
    BY <2>1 DEF RoleInv, OneHolds
  <2>3. QED
    BY <1>2, <1>8, <1>13, <2>2 DEF HeldByOne, Cancels
<1>15. GrantsBalance'
  BY <1>2 DEF RoleInv, GrantsBalance, Into, OutOf, Approved
<1>16. QED
  BY <1>2, <1>9, <1>10, <1>11, <1>12, <1>14, <1>15 DEF RoleInv

(* A decision moves on. *)
LEMMA DecisionMoves ==
  ASSUME RoleInv, NEW k \in DOMAIN decision, NEW s \in {"sent", "read", "done", "refused", "heard", "lost"},
         decision' = [decision EXCEPT ![k].step = s]
  PROVE  /\ decision' \in Seq(DecisionRow) /\ DOMAIN decision' = DOMAIN decision /\ decision'[k].step = s
         /\ \A l \in DOMAIN decision : /\ decision'[l].by = decision[l].by /\ decision'[l].does = decision[l].does
                                       /\ decision'[l].id = decision[l].id
                                       /\ l # k => decision'[l] = decision[l]
<1>1. /\ decision \in [1..Len(decision) -> DecisionRow] /\ DOMAIN decision = 1..Len(decision) /\ Len(decision) \in Nat
      /\ k \in 1..Len(decision) /\ decision[k] \in DecisionRow
  BY RoleFacts
<1> DEFINE r == [decision[k] EXCEPT !.step = s]
<1>2. r \in DecisionRow /\ r.step = s /\ r.by = decision[k].by /\ r.does = decision[k].does /\ r.id = decision[k].id
  BY <1>1 DEF DecisionRow
<1>3. decision' = [decision EXCEPT ![k] = r]
  BY <1>1
<1> HIDE DEF r
<1>4. decision' \in [1..Len(decision) -> DecisionRow] /\ DOMAIN decision' = 1..Len(decision)
  BY <1>1, <1>2, <1>3
<1>5. decision' \in Seq(DecisionRow)
  BY <1>1, <1>4
<1>6. decision'[k] = r /\ \A l \in DOMAIN decision : l # k => decision'[l] = decision[l]
  BY <1>1, <1>3
<1>7. QED
  BY <1>1, <1>2, <1>4, <1>5, <1>6

(* A decision that does not come to hold a row disturbs no grant; one that *)
(* is told to its desk was written, and the desk fetches its list.         *)
LEMMA QuietDecisionKeepsRoles ==
  ASSUME RoleInv, NEW k \in DOMAIN decision, NEW s \in {"sent", "refused", "heard", "lost"},
         decision' = [decision EXCEPT ![k].step = s], NEW r \in RoleList,
         desk' = [desk EXCEPT ![decision[k].by] = r],
         r.open \in {0, desk[decision[k].by].open}, r.list = desk[decision[k].by].list,
         desk[decision[k].by].loading => r.loading,
         s = "heard" => decision[k].step = "done" /\ r.loading,
         UNCHANGED <<role, request, page, runs, twice, tangled>>
  PROVE  RoleInv'
<1>1. /\ decision' \in Seq(DecisionRow) /\ DOMAIN decision' = DOMAIN decision /\ decision'[k].step = s
      /\ \A l \in DOMAIN decision : /\ decision'[l].by = decision[l].by /\ decision'[l].does = decision[l].does
                                    /\ decision'[l].id = decision[l].id
                                    /\ l # k => decision'[l] = decision[l]
  BY DecisionMoves
<1>2. \A l \in DOMAIN decision : decision[l].by \in Desks /\ decision[l].id \in DOMAIN request
  BY RoleFacts DEF RoleInv, RequestsAreThere, DecisionRow
<1>3. /\ desk' \in [Desks -> RoleList] /\ desk'[decision[k].by] = r
      /\ \A e \in Desks \ {decision[k].by} : desk'[e] = desk[e]
  BY <1>2, RoleFacts
<1>4. RoleTypeOK'
  BY <1>1, <1>3 DEF RoleInv, RoleTypeOK, RoleList, DecisionRow
<1>5. RequestsAreThere'
  <2>1. ASSUME NEW e \in Desks
        PROVE  desk'[e].open \in {0} \cup DOMAIN request /\ \A n \in Ids : desk'[e].list[n] # "none" => n \in DOMAIN request
    BY <1>3 DEF RoleInv, RequestsAreThere
  <2>2. QED
    BY <1>1, <1>2, <2>1 DEF RoleInv, RequestsAreThere, Cancels
<1>6. DecidedStays'
  BY <1>1 DEF RoleInv, DecidedStays
<1>7. DeskLearns'
  <2>1. SUFFICES ASSUME NEW l \in DOMAIN decision, decision'[l].step = "heard", ~desk'[decision[l].by].loading
                 PROVE  desk'[decision[l].by].list[decision[l].id] # "pending"
    BY <1>1 DEF DeskLearns
  <2>2. l # k /\ decision[l].step = "heard"
    BY <1>1, <1>3, <2>1
  <2>3. ~desk[decision[l].by].loading /\ desk'[decision[l].by].list = desk[decision[l].by].list
    BY <1>2, <1>3, <2>1
  <2>4. QED
    BY <2>2, <2>3 DEF RoleInv, DeskLearns
<1>8. OneAsks'
  BY DEF RoleInv, OneAsks, Asks, PendingIn, Row
<1>9. \A n : \A l \in DOMAIN decision : Decides(l, n)' => Decides(l, n)
  BY <1>1 DEF Decides
<1>10. OneHolds'
  <2>1. SUFFICES ASSUME NEW n \in DOMAIN request, NEW v, v = request[n].user, v \notin tangled PROVE HeldByOne(v, n)'
    BY DEF OneHolds
  <2>2. HeldByOne(v, n)
    BY <2>1 DEF RoleInv, OneHolds
  <2>3. QED
    BY <1>1, <1>9, <2>2 DEF HeldByOne, Cancels
<1>11. GrantsBalance'
  BY DEF RoleInv, GrantsBalance, Into, OutOf, Approved
<1>12. QED
  BY <1>4, <1>5, <1>6, <1>7, <1>8, <1>10, <1>11 DEF RoleInv

(* A decision that is refused, by a read or by a write. *)
LEMMA RefusalKeepsRoles ==
  ASSUME RoleInv, NEW k \in DOMAIN decision, decision' = [decision EXCEPT ![k].step = "refused"],
         UNCHANGED <<role, request, page, desk, runs, twice, tangled>>
  PROVE  RoleInv'
<1>1. decision[k].by \in Desks
  BY RoleFacts DEF DecisionRow
<1>2. /\ desk[decision[k].by] \in RoleList
      /\ desk' = [desk EXCEPT ![decision[k].by] = desk[decision[k].by]]
  BY <1>1, RoleFacts
<1>3. QED
  BY <1>2, QuietDecisionKeepsRoles

LEMMA EndKeepsRoles == ASSUME RoleInv, NEW k \in DOMAIN decision, DecisionEnds(k) PROVE RoleInv'
<1>1. PICK ok \in BOOLEAN :
        /\ ok => decision[k].step = "done"
        /\ decision' = [decision EXCEPT ![k].step = IF ok THEN "heard" ELSE "lost"]
        /\ desk' = [desk EXCEPT ![decision[k].by].open = 0, ![decision[k].by].loading = @ \/ ok]
  BY DEF DecisionEnds
<1>2. /\ decision[k].by \in Desks /\ desk[decision[k].by] \in RoleList /\ desk \in [Desks -> RoleList]
      /\ 0 \in 0..MaxRequests
  BY RoleFacts DEF DecisionRow
<1> DEFINE s == IF ok THEN "heard" ELSE "lost"
<1> DEFINE r == [desk[decision[k].by] EXCEPT !.open = 0, !.loading = @ \/ ok]
<1>3. /\ r \in RoleList /\ r.open = 0 /\ r.list = desk[decision[k].by].list
      /\ desk[decision[k].by].loading => r.loading
      /\ ok => r.loading
  BY <1>2 DEF RoleList
<1>4. desk' = [desk EXCEPT ![decision[k].by] = r]
  BY <1>1, <1>2
<1> HIDE DEF r
<1>5. s \in {"sent", "refused", "heard", "lost"} /\ decision' = [decision EXCEPT ![k].step = s]
  BY <1>1
<1>6. s = "heard" => decision[k].step = "done" /\ r.loading
  BY <1>1, <1>3
<1> HIDE DEF s
<1>7. UNCHANGED <<role, request, page, runs, twice, tangled>>
  BY DEF DecisionEnds
<1>8. QED
  BY <1>3, <1>4, <1>5, <1>6, <1>7, QuietDecisionKeepsRoles

(* A decision comes to hold a row, which is as it needs it: the grants of  *)
(* its user are tangled from now on if another holds it.                   *)
LEMMA ReadKeepsRoles == ASSUME RoleInv, NEW k \in DOMAIN decision, ReadForDecision(k) PROVE RoleInv'
<1>0. PICK n \in DOMAIN request : n = decision[k].id
  BY DEF RoleInv, RequestsAreThere
<1>1. UNCHANGED <<role, request, page, desk, runs, twice>>
  BY DEF ReadForDecision
<1>2. CASE request[n].status # Needs[decision[k].does]
  BY <1>0, <1>1, <1>2, RefusalKeepsRoles DEF ReadForDecision
<1>3. CASE request[n].status = Needs[decision[k].does]
  <2>1. decision' = [decision EXCEPT ![k].step = "read"] /\ tangled' = Tangles(n)
    BY <1>0, <1>3 DEF ReadForDecision
  <2>2. /\ decision' \in Seq(DecisionRow) /\ DOMAIN decision' = DOMAIN decision /\ decision'[k].step = "read"
        /\ \A l \in DOMAIN decision : /\ decision'[l].by = decision[l].by /\ decision'[l].does = decision[l].does
                                      /\ decision'[l].id = decision[l].id
                                      /\ l # k => decision'[l] = decision[l]
    BY <2>1, DecisionMoves
  <2>3. request[n].user \in Applicants /\ tangled \subseteq Applicants
    BY RoleFacts DEF RequestRow, RoleInv, RoleTypeOK
  <2>4. /\ tangled \subseteq tangled' /\ tangled' \subseteq Applicants
        /\ request[n].user \notin tangled' =>
             /\ \A l \in DOMAIN decision : ~Decides(l, n)
             /\ \A q \in Pages : ~Cancels(request[n].user, q, n)
    BY <2>1, <2>3 DEF Tangles, Held, Decides, Cancels
  <2>5. RoleTypeOK'
    BY <1>1, <2>2, <2>4 DEF RoleInv, RoleTypeOK, DecisionRow
  <2>6. RequestsAreThere'
    BY <1>1, <2>2 DEF RoleInv, RequestsAreThere, Cancels
  <2>7. DecidedStays' /\ DeskLearns'
    BY <1>1, <2>2 DEF RoleInv, DecidedStays, DeskLearns
  <2>8. OneAsks'
    BY <1>1 DEF RoleInv, OneAsks, Asks, PendingIn, Row
  <2>9. \A i : \A l \in DOMAIN decision : Decides(l, i)' => Decides(l, i) \/ (l = k /\ i = n)
    BY <1>0, <2>2 DEF Decides
  <2>10. OneHolds'
    <3>1. SUFFICES ASSUME NEW i \in DOMAIN request, NEW v, v = request[i].user, v \notin tangled' PROVE HeldByOne(v, i)'
      BY <1>1 DEF OneHolds
    <3>2. HeldByOne(v, i)
      BY <2>4, <3>1 DEF RoleInv, OneHolds
    <3>3. CASE i = n
      <4>1. /\ \A l \in DOMAIN decision : Decides(l, n)' => l = k
            /\ \A q \in Pages : ~Cancels(v, q, n)
        BY <2>4, <2>9, <3>1, <3>3
      <4>2. request[n].status = Needs[decision'[k].does]
        BY <1>3, <2>2
      <4>3. QED
        BY <1>1, <2>2, <3>3, <4>1, <4>2 DEF HeldByOne, Cancels
    <3>4. CASE i # n
      BY <1>1, <2>2, <2>9, <3>2, <3>4 DEF HeldByOne, Cancels
    <3>5. QED
      BY <3>3, <3>4
  <2>11. GrantsBalance'
    BY <1>1, <2>4, BalanceStays DEF RoleInv, Into, OutOf, Approved
  <2>12. QED
    BY <1>1, <2>5, <2>6, <2>7, <2>8, <2>10, <2>11 DEF RoleInv
<1>4. QED
  BY <1>2, <1>3

-----------------------------------------------------------------------------
(* An approved request is one more way into the role it gives, and out of  *)
(* the one it noted.                                                       *)
LEMMA GrantsAreFinite == ASSUME RoleInv, NEW u PROVE IsFiniteSet(Approved(u))
<1>1. DOMAIN request = 1..Len(request) /\ Len(request) \in Nat
  BY RoleFacts
<1>2. IsFiniteSet(1..Len(request))
  BY <1>1, FS_Interval
<1>3. Approved(u) \subseteq 1..Len(request)
  BY <1>1 DEF Approved
<1>4. QED
  BY <1>2, <1>3, FS_Subset

(* A set of a finite size with one member more. *)
LEMMA OneMore ==
  ASSUME NEW S, NEW T, NEW n, NEW b \in BOOLEAN, IsFiniteSet(S), n \notin S,
         T = IF b THEN S \cup {n} ELSE S
  PROVE  Cardinality(S) \in Nat /\ Cardinality(T) = Cardinality(S) + One(b)
<1>1. Cardinality(S) \in Nat
  BY FS_CardinalityType
<1>2. CASE b
  <2>1. Cardinality(S \cup {n}) = Cardinality(S) + 1
    BY FS_AddElement
  <2>2. QED
    BY <1>1, <1>2, <2>1 DEF One
<1>3. CASE ~b
  BY <1>1, <1>3 DEF One
<1>4. QED
  BY <1>2, <1>3

LEMMA ApprovalBalances ==
  ASSUME RoleInv, NEW n \in DOMAIN request, NEW u \in Applicants \ tangled, u = request[n].user,
         request[n].status # "approved", role[u] = request[n].from, role'[u] = request[n].wants,
         Approved(u)' = Approved(u) \cup {n},
         \A j \in DOMAIN request : request'[j].wants = request[j].wants /\ request'[j].from = request[j].from,
         NEW r \in Roles
  PROVE  Cardinality(Into(u, r)') + One(r = "user") = Cardinality(OutOf(u, r)') + One(r = role'[u])
<1>1. /\ n \notin Into(u, r) /\ n \notin OutOf(u, r) /\ Into(u, r) \subseteq Approved(u) /\ OutOf(u, r) \subseteq Approved(u)
      /\ Approved(u) \subseteq DOMAIN request
  BY DEF Into, OutOf, Approved
<1>2. IsFiniteSet(Into(u, r)) /\ IsFiniteSet(OutOf(u, r))
  BY <1>1, GrantsAreFinite, FS_Subset
<1>3. Into(u, r)' = IF r = request[n].wants THEN Into(u, r) \cup {n} ELSE Into(u, r)
  BY <1>1 DEF Into
<1>4. OutOf(u, r)' = IF r = request[n].from THEN OutOf(u, r) \cup {n} ELSE OutOf(u, r)
  BY <1>1 DEF OutOf
<1>5. Cardinality(Into(u, r)) \in Nat /\ Cardinality(Into(u, r)') = Cardinality(Into(u, r)) + One(r = request[n].wants)
  BY <1>1, <1>2, <1>3, OneMore
<1>6. Cardinality(OutOf(u, r)) \in Nat /\ Cardinality(OutOf(u, r)') = Cardinality(OutOf(u, r)) + One(r = request[n].from)
  BY <1>1, <1>2, <1>4, OneMore
<1>7. Cardinality(Into(u, r)) + One(r = "user") = Cardinality(OutOf(u, r)) + One(r = request[n].from)
  BY DEF RoleInv, GrantsBalance
<1>8. One(r = request[n].wants) \in Int /\ One(r = request[n].from) \in Int /\ One(r = "user") \in Int
  BY DEF One
<1>9. QED
  BY <1>5, <1>6, <1>7, <1>8

LEMMA RevocationBalances ==
  ASSUME RoleInv, NEW n \in DOMAIN request, NEW u \in Applicants \ tangled, u = request[n].user,
         request[n].status = "approved", role[u] = request[n].wants, role'[u] = request[n].from,
         Approved(u)' = Approved(u) \ {n},
         \A j \in DOMAIN request : request'[j].wants = request[j].wants /\ request'[j].from = request[j].from,
         NEW r \in Roles
  PROVE  Cardinality(Into(u, r)') + One(r = "user") = Cardinality(OutOf(u, r)') + One(r = role'[u])
<1>1. /\ n \in Approved(u) /\ Into(u, r) \subseteq Approved(u) /\ OutOf(u, r) \subseteq Approved(u)
      /\ Approved(u) \subseteq DOMAIN request
  BY DEF Into, OutOf, Approved
<1>2. IsFiniteSet(Into(u, r)) /\ IsFiniteSet(OutOf(u, r))
  BY <1>1, GrantsAreFinite, FS_Subset
<1>3. Into(u, r) = (IF r = request[n].wants THEN Into(u, r)' \cup {n} ELSE Into(u, r)') /\ n \notin Into(u, r)'
  BY <1>1 DEF Into
<1>4. OutOf(u, r) = (IF r = request[n].from THEN OutOf(u, r)' \cup {n} ELSE OutOf(u, r)') /\ n \notin OutOf(u, r)'
  BY <1>1 DEF OutOf
<1>5. IsFiniteSet(Into(u, r)') /\ IsFiniteSet(OutOf(u, r)')
  <2>1. Into(u, r)' \subseteq Into(u, r) /\ OutOf(u, r)' \subseteq OutOf(u, r)
    BY <1>3, <1>4
  <2>2. QED
    BY <1>2, <2>1, FS_Subset
<1>6. Cardinality(Into(u, r)') \in Nat /\ Cardinality(Into(u, r)) = Cardinality(Into(u, r)') + One(r = request[n].wants)
  BY <1>3, <1>5, OneMore
<1>7. Cardinality(OutOf(u, r)') \in Nat /\ Cardinality(OutOf(u, r)) = Cardinality(OutOf(u, r)') + One(r = request[n].from)
  BY <1>4, <1>5, OneMore
<1>8. Cardinality(Into(u, r)) + One(r = "user") = Cardinality(OutOf(u, r)) + One(r = request[n].wants)
  BY DEF RoleInv, GrantsBalance
<1>9. One(r = request[n].wants) \in Int /\ One(r = request[n].from) \in Int /\ One(r = "user") \in Int
  BY DEF One
<1>10. QED
  BY <1>6, <1>7, <1>8, <1>9

(* A decision is written: a role that is given or taken away is the one    *)
(* the row notes, or the user's grants are tangled from now on.            *)
LEMMA WriteKeepsRoles == ASSUME RoleInv, NEW k \in DOMAIN decision, WriteDecision(k) PROVE RoleInv'
<1>0. PICK n \in DOMAIN request : n = decision[k].id
  BY DEF RoleInv, RequestsAreThere
<1>1. UNCHANGED <<page, desk, runs, twice>> /\ Decides(k, n)
  BY <1>0 DEF WriteDecision, Decides
<1>2. CASE request[n].status = "none"
  BY <1>0, <1>1, <1>2, RefusalKeepsRoles DEF WriteDecision
<1>3. CASE request[n].status # "none"
  <2>1. PICK u \in Applicants : u = request[n].user
    BY RoleFacts DEF RequestRow
  <2>2. /\ decision[k].does \in {"approve", "reject", "revoke"} /\ request[n] \in RequestRow
        /\ role \in [Applicants -> Roles] /\ tangled \subseteq Applicants
    BY RoleFacts DEF DecisionRow, RoleInv, RoleTypeOK
  <2>3. PICK s \in {"approved", "rejected", "revoked"} :
          /\ s = Becomes[decision[k].does] /\ request' = [request EXCEPT ![n].status = s]
          /\ s = "approved" <=> decision[k].does = "approve"
    BY <1>0, <1>3, <2>2 DEF WriteDecision, Becomes
  <2>4. PICK x \in Roles :
          /\ role' = (IF decision[k].does = "reject" THEN role ELSE [role EXCEPT ![u] = x])
          /\ decision[k].does = "approve" => x = request[n].wants
          /\ decision[k].does = "revoke" => x = request[n].from
    <3>1. request[n].wants \in Roles /\ request[n].from \in Roles
      BY <2>2 DEF RequestRow, Roles
    <3>2. role' = (IF decision[k].does = "reject" THEN role ELSE [role EXCEPT ![u] = Grants(k)[decision[k].does]])
      BY <1>0, <1>3, <2>1 DEF WriteDecision
    <3>3. /\ decision[k].does = "approve" => Grants(k)[decision[k].does] = request[n].wants
          /\ decision[k].does = "revoke" => Grants(k)[decision[k].does] = request[n].from
      BY <1>0 DEF Grants
    <3>4. QED
      BY <2>2, <3>1, <3>2, <3>3
  <2>5. /\ tangled \subseteq tangled' /\ tangled' \subseteq Applicants
        /\ u \notin tangled' => /\ decision[k].does = "approve" => role[u] = request[n].from
                                /\ decision[k].does = "revoke" => role[u] = request[n].wants
    <3>1. tangled' = IF OutOfOrder(k) THEN tangled \cup {u} ELSE tangled
      BY <1>0, <1>3, <2>1 DEF WriteDecision
    <3>2. ~OutOfOrder(k) => /\ decision[k].does = "approve" => role[u] = request[n].from
                            /\ decision[k].does = "revoke" => role[u] = request[n].wants
      BY <1>0, <2>1 DEF OutOfOrder
    <3>3. QED
      BY <2>2, <3>1, <3>2
  <2>6. decision' = [decision EXCEPT ![k].step = "done"]
    BY <1>0, <1>3 DEF WriteDecision
  <2>7. /\ decision' \in Seq(DecisionRow) /\ DOMAIN decision' = DOMAIN decision /\ decision'[k].step = "done"
        /\ \A l \in DOMAIN decision : /\ decision'[l].by = decision[l].by /\ decision'[l].does = decision[l].does
                                      /\ decision'[l].id = decision[l].id
                                      /\ l # k => decision'[l] = decision[l]
    BY <2>6, DecisionMoves
  <2>8. /\ request' \in Seq(RequestRow) /\ Len(request') = Len(request) /\ DOMAIN request' = DOMAIN request
        /\ request'[n].status = s
        /\ \A j \in DOMAIN request : /\ request'[j].user = request[j].user /\ request'[j].wants = request[j].wants
                                     /\ request'[j].from = request[j].from
                                     /\ j # n => request'[j] = request[j]
    BY <2>3, StatusChanges DEF Statuses
  <2>9. role' \in [Applicants -> Roles] /\ \A v \in Applicants \ {u} : role'[v] = role[v]
    BY <2>2, <2>4
  <2>10. u \notin tangled' => HeldByOne(u, n)
    BY <2>1, <2>5 DEF RoleInv, OneHolds
  <2>11. u \notin tangled' => request[n].status = Needs[decision[k].does]
    BY <1>1, <2>10 DEF HeldByOne
  <2>12. RoleTypeOK'
    <3>1. /\ request' \in Seq([user : Applicants, wants : Wants, from : Roles, status : Statuses])
          /\ decision' \in Seq([by : Desks, does : {"approve", "reject", "revoke"}, id : 0..MaxRequests,
                               step : {"sent", "read", "done", "refused", "heard", "lost"}])
      BY <2>7, <2>8 DEF DecisionRow, RequestRow
    <3>2. RoleTypeOK
      BY DEF RoleInv
    <3>3. QED
      BY <1>1, <2>5, <2>9, <3>1, <3>2 DEF RoleTypeOK
  <2>13. RequestsAreThere'
    <3>1. /\ \A d \in Desks : /\ desk[d].open \in {0} \cup DOMAIN request'
                              /\ \A j \in Ids : desk[d].list[j] # "none" => j \in DOMAIN request'
          /\ \A l \in DOMAIN decision : decision'[l].id \in DOMAIN request'
      BY <2>7, <2>8 DEF RoleInv, RequestsAreThere
    <3>2. \A v \in Applicants, q \in Pages :
            Cancels(v, q, page[<<v, q>>].id) =>
              page[<<v, q>>].id \in DOMAIN request /\ request'[page[<<v, q>>].id].user = v
      BY <2>8 DEF RoleInv, RequestsAreThere
    <3>3. QED
      BY <1>1, <2>7, <2>8, <3>1, <3>2 DEF RequestsAreThere, Cancels
  <2>14. DecidedStays'
    <3>1. SUFFICES ASSUME NEW l \in DOMAIN decision, decision'[l].step \in {"done", "heard"}
                   PROVE  request'[decision[l].id].status # "pending"
      BY <2>7 DEF DecidedStays
    <3>2. decision[l].id \in DOMAIN request
      BY DEF RoleInv, RequestsAreThere
    <3>3. CASE decision[l].id = n
      BY <2>3, <2>8, <3>3
    <3>4. CASE decision[l].id # n
      BY <1>0, <2>7, <2>8, <3>1, <3>2, <3>4 DEF RoleInv, DecidedStays
    <3>5. QED
      BY <3>3, <3>4
  <2>15. DeskLearns'
    BY <1>1, <2>7 DEF RoleInv, DeskLearns
  <2>16. OneAsks'
    <3>1. \A v \in Applicants : PendingIn(v)' \subseteq PendingIn(v)
      BY <2>3, <2>8 DEF PendingIn, Row
    <3>2. QED
      BY <1>1, <3>1 DEF RoleInv, OneAsks, Asks
  <2>17. \A i : \A l \in DOMAIN decision : Decides(l, i)' => Decides(l, i) /\ l # k
    BY <2>7 DEF Decides
  <2>18. OneHolds'
    <3>1. SUFFICES ASSUME NEW i \in DOMAIN request, NEW v, v = request[i].user, v \notin tangled' PROVE HeldByOne(v, i)'
      BY <2>8 DEF OneHolds
    <3>2. HeldByOne(v, i)
      BY <2>5, <3>1 DEF RoleInv, OneHolds
    <3>3. CASE i = n
      <4>1. /\ \A l \in DOMAIN decision : ~Decides(l, n)'
            /\ \A q \in Pages : ~Cancels(v, q, n)
        BY <1>1, <2>17, <3>2, <3>3 DEF HeldByOne
      <4>2. QED
        BY <1>1, <2>7, <3>3, <4>1 DEF HeldByOne, Cancels
    <3>4. CASE i # n
      BY <1>1, <2>7, <2>8, <2>17, <3>2, <3>4 DEF HeldByOne, Cancels
    <3>5. QED
      BY <3>3, <3>4
  <2>19. GrantsBalance'
    <3>1. SUFFICES ASSUME NEW v \in Applicants \ tangled', NEW r \in Roles
                   PROVE  Cardinality(Into(v, r)') + One(r = "user") = Cardinality(OutOf(v, r)') + One(r = role'[v])
      BY DEF GrantsBalance
    <3>2. v \in Applicants \ tangled
      BY <2>5
    <3>3. CASE v = u /\ decision[k].does = "approve"
      <4>1. Approved(u)' = Approved(u) \cup {n} /\ request[n].status # "approved"
        <5>1. s = "approved" /\ request[n].status = "pending"
          BY <2>3, <2>11, <3>3 DEF Needs
        <5>2. \A j \in DOMAIN request : j \in Approved(u)' <=> j \in Approved(u) \/ j = n
          BY <2>1, <2>8, <5>1 DEF Approved
        <5>3. Approved(u)' \subseteq DOMAIN request /\ Approved(u) \subseteq DOMAIN request
          BY <2>8 DEF Approved
        <5>4. ASSUME NEW j PROVE j \in Approved(u)' <=> j \in Approved(u) \cup {n}
          BY <5>2, <5>3
        <5>5. Approved(u)' = Approved(u) \cup {n}
          BY <5>4, Zenon
        <5>6. QED
          BY <5>1, <5>5
      <4>2. role[u] = request[n].from /\ role'[u] = request[n].wants
        <5>1. role[u] = request[n].from /\ x = request[n].wants
          BY <2>4, <2>5, <3>3
        <5>2. role' = [role EXCEPT ![u] = x]
          BY <2>4, <3>3
        <5>3. QED
          BY <2>2, <5>1, <5>2
      <4>3. QED
        BY <2>1, <2>8, <3>2, <3>3, <4>1, <4>2, ApprovalBalances
    <3>4. CASE v = u /\ decision[k].does = "revoke"
      <4>1. Approved(u)' = Approved(u) \ {n} /\ request[n].status = "approved"
        BY <2>1, <2>3, <2>8, <2>11, <3>4 DEF Approved, Needs
      <4>2. role[u] = request[n].wants /\ role'[u] = request[n].from
        <5>1. role[u] = request[n].wants /\ x = request[n].from
          BY <2>4, <2>5, <3>4
        <5>2. role' = [role EXCEPT ![u] = x]
          BY <2>4, <3>4
        <5>3. QED
          BY <2>2, <5>1, <5>2
      <4>3. QED
        BY <2>1, <2>8, <3>2, <3>4, <4>1, <4>2, RevocationBalances
    <3>5. CASE v # u \/ decision[k].does = "reject"
      <4>1. role'[v] = role[v]
        BY <2>4, <2>9, <3>5
      <4>2. Approved(v)' = Approved(v)
        BY <2>1, <2>3, <2>8, <2>11, <3>5 DEF Approved, Needs
      <4>3. Into(v, r)' = Into(v, r) /\ OutOf(v, r)' = OutOf(v, r)
        <5>1. \A j \in Approved(v) : request'[j].wants = request[j].wants /\ request'[j].from = request[j].from
          BY <2>8 DEF Approved
        <5>2. QED
          BY <4>2, <5>1 DEF Into, OutOf
      <4>4. QED
        BY <3>2, <4>1, <4>3 DEF RoleInv, GrantsBalance
    <3>6. QED
      BY <2>2, <3>3, <3>4, <3>5
  <2>20. QED
    BY <2>8, <2>12, <2>13, <2>14, <2>15, <2>16, <2>18, <2>19, RoleFacts DEF RoleInv
<1>4. QED
  BY <1>2, <1>3

-----------------------------------------------------------------------------
(* What the profile pages do besides. *)
LEMMA PagesKeepRoles ==
  ASSUME RoleInv, NEW u \in Applicants, NEW p \in Pages,
         MyListArrives(u, p) \/ run(u, p) \/ RunEnds(u, p) \/ ReloadProfile(u, p)
  PROVE  RoleInv'
<1>1. /\ page[<<u, p>>] \in RolePage /\ page \in [Applicants \X Pages -> RolePage] /\ role[u] \in Roles
      /\ runs \in 0..MaxRuns /\ MaxRuns \in Nat /\ twice \subseteq Applicants /\ 0 \in 0..MaxRequests
  BY RoleFacts, RoleAssumption DEF RoleInv, RoleTypeOK
<1>2. UNCHANGED <<role, request, desk, decision, twice, tangled>>
  BY DEF MyListArrives, run, RunEnds, ReloadProfile
<1>3. CASE MyListArrives(u, p)
  <2>1. PICK w \in Wants \cup {"none"} : page' = [page EXCEPT ![<<u, p>>].loading = FALSE, ![<<u, p>>].waits = w]
    <3>1. WaitingFor(u) \in Wants \cup {"none"}
      <4>1. CASE PendingIn(u) = {}
        BY <4>1 DEF WaitingFor
      <4>2. CASE PendingIn(u) # {}
        <5>1. PICK n : n = CHOOSE i \in PendingIn(u) : \A k \in PendingIn(u) : i <= k
          OBVIOUS
        <5>2. n \in PendingIn(u)
          <6>1. PendingIn(u) \subseteq DOMAIN request
            BY DEF PendingIn, Row
          <6>2. DOMAIN request = 1..Len(request) /\ Len(request) \in Nat
            BY RoleFacts
          <6>3. \E j \in PendingIn(u) : \A k \in PendingIn(u) : j <= k
            BY <4>2, <6>1, <6>2, FirstRequest
          <6>4. QED
            BY <5>1, <6>3
        <5>3. request[n] \in RequestRow
          BY <5>2, RoleFacts DEF PendingIn, Row
        <5>4. QED
          BY <4>2, <5>1, <5>3 DEF WaitingFor, RequestRow
      <4>3. QED
        BY <4>1, <4>2
    <3>2. PICK heard \in BOOLEAN :
            page' = [page EXCEPT ![<<u, p>>].loading = FALSE,
                       ![<<u, p>>].waits = IF heard THEN WaitingFor(u) ELSE "none"]
      BY <1>3 DEF MyListArrives
    <3>3. QED
      BY <3>1, <3>2
  <2> DEFINE r == [page[<<u, p>>] EXCEPT !.loading = FALSE, !.waits = w]
  <2>2. r \in RolePage /\ r.does = page[<<u, p>>].does /\ r.step = page[<<u, p>>].step /\ r.id = page[<<u, p>>].id
    BY <1>1, <2>1 DEF RolePage
  <2>3. page' = [page EXCEPT ![<<u, p>>] = r] /\ runs' = runs
    BY <1>1, <1>3, <2>1 DEF MyListArrives
  <2> HIDE DEF r
  <2>4. QED
    BY <1>1, <1>2, <2>2, <2>3, PageKeepsRoles DEF Asks, Cancels
<1>4. CASE run(u, p)
  <2>1. PICK w \in Wants, a \in {"request", "cancel"} :
          page' = [page EXCEPT ![<<u, p>>].does = a, ![<<u, p>>].wants = w, ![<<u, p>>].step = "sent"]
    BY <1>4 DEF run, Rows
  <2> DEFINE r == [page[<<u, p>>] EXCEPT !.does = a, !.wants = w, !.step = "sent"]
  <2>2. r \in RolePage /\ r.step = "sent"
    BY <1>1, <2>1 DEF RolePage
  <2>3. page' = [page EXCEPT ![<<u, p>>] = r]
    BY <1>1, <2>1
  <2>4. runs' \in 0..MaxRuns
    <3>1. runs < MaxRuns /\ runs' = runs + 1
      BY <1>4 DEF run
    <3>2. QED
      BY <1>1, <3>1
  <2> HIDE DEF r
  <2>5. QED
    BY <1>1, <1>2, <2>2, <2>3, <2>4, PageKeepsRoles
<1>5. CASE RunEnds(u, p)
  <2>1. PICK ok \in BOOLEAN :
          page' = [page EXCEPT ![<<u, p>>].step = "idle", ![<<u, p>>].does = "nothing", ![<<u, p>>].id = 0,
                     ![<<u, p>>].wants = "admin", ![<<u, p>>].from = "user", ![<<u, p>>].loading = @ \/ ok]
    BY <1>5 DEF RunEnds
  <2> DEFINE r == [page[<<u, p>>] EXCEPT !.step = "idle", !.does = "nothing", !.id = 0, !.wants = "admin",
                     !.from = "user", !.loading = @ \/ ok]
  <2>2. r \in RolePage /\ r.step = "idle"
    <3>1. page[<<u, p>>] \in RolePage /\ page[<<u, p>>].loading \in BOOLEAN
      BY <1>1 DEF RolePage
    <3>2. PICK busy \in BOOLEAN : busy <=> (page[<<u, p>>].loading \/ ok)
      OBVIOUS
    <3>3. r = [page[<<u, p>>] EXCEPT !.step = "idle", !.does = "nothing", !.id = 0, !.wants = "admin",
                 !.from = "user", !.loading = busy]
      BY <3>1, <3>2
    <3> HIDE DEF r
    <3>4. "admin" \in Wants /\ "user" \in Roles /\ 0 \in 0..MaxRequests
      BY RoleAssumption DEF Wants, Roles
    <3>5. QED
      BY <3>1, <3>3, <3>4 DEF RolePage
  <2>3. page' = [page EXCEPT ![<<u, p>>] = r]
    BY <1>1, <2>1
  <2>3a. runs' = runs
    BY <1>5 DEF RunEnds
  <2> HIDE DEF r
  <2>4. QED
    BY <1>1, <1>2, <2>2, <2>3, <2>3a, PageKeepsRoles
<1>6. CASE ReloadProfile(u, p)
  <2> DEFINE r == [page[<<u, p>>] EXCEPT !.knows = role[u], !.loading = TRUE, !.waits = "none"]
  <2>1. r \in RolePage /\ r.step = "idle"
    BY <1>1, <1>6 DEF RolePage, ReloadProfile
  <2>2. page' = [page EXCEPT ![<<u, p>>] = r] /\ runs' = runs
    BY <1>1, <1>6 DEF ReloadProfile
  <2> HIDE DEF r
  <2>3. QED
    BY <1>1, <1>2, <2>1, <2>2, PageKeepsRoles
<1>7. QED
  BY <1>3, <1>4, <1>5, <1>6

LEMMA RolesKept == RoleInv /\ [RoleNext]_roleVars => RoleInv'
<1>1. ASSUME RoleInv, UNCHANGED roleVars PROVE RoleInv'
  <2>1. /\ RoleTypeOK' /\ RequestsAreThere' /\ DecidedStays' /\ DeskLearns' /\ Len(request') <= MaxRequests
    BY <1>1 DEF roleVars, RoleInv, RoleTypeOK, RequestsAreThere, DecidedStays, DeskLearns, Cancels
  <2>2. OneAsks' /\ OneHolds'
    BY <1>1 DEF roleVars, RoleInv, OneAsks, OneHolds, HeldByOne, Asks, PendingIn, Row, Decides, Cancels
  <2>3. GrantsBalance'
    BY <1>1 DEF roleVars, RoleInv, GrantsBalance, Into, OutOf, Approved
  <2>4. QED
    BY <2>1, <2>2, <2>3 DEF RoleInv
<1>2. ASSUME RoleInv, NEW u \in Applicants, NEW p \in Pages, ApplicantStep(u, p) PROVE RoleInv'
  BY <1>2, PagesKeepRoles, CreateKeepsRoles, InsertKeepsRoles, CancelKeepsRoles, DeleteKeepsRoles DEF ApplicantStep
<1>3. ASSUME RoleInv, NEW d \in Desks, DeskStep(d) PROVE RoleInv'
  BY <1>3, DesksKeepRoles, DecideKeepsRoles DEF DeskStep
<1>4. ASSUME RoleInv, NEW k \in DOMAIN decision, DecisionStep(k) PROVE RoleInv'
  BY <1>4, ReadKeepsRoles, WriteKeepsRoles, EndKeepsRoles DEF DecisionStep
<1>5. QED
  BY <1>1, <1>2, <1>3, <1>4 DEF RoleNext

(* Every role but "user" that the approved requests lead to is entered     *)
(* once more than it is left, so one of them gives it.                     *)
LEMMA RolesHold == RoleInv => RoleTypeOK /\ OnePendingEach /\ GrantsAreOnRecord /\ DeskLearns
<1>1. SUFFICES ASSUME RoleInv PROVE OnePendingEach /\ GrantsAreOnRecord
  BY DEF RoleInv
<1>2. OnePendingEach
  <2>1. SUFFICES ASSUME NEW u \in Applicants, u \notin twice, NEW n \in PendingIn(u)
                 PROVE  n \in Row(u) /\ PendingIn(u) = {n}
    BY DEF OnePendingEach
  <2>2. QED
    BY <1>1, <2>1 DEF RoleInv, OneAsks, PendingIn
<1>3. GrantsAreOnRecord
  <2>1. SUFFICES ASSUME NEW u \in Applicants \ tangled, role[u] # "user"
                 PROVE  \E n \in Row(u) : request[n].status = "approved" /\ request[n].wants = role[u]
    BY DEF GrantsAreOnRecord
  <2>2. role[u] \in Roles
    BY <1>1, RoleFacts
  <2>3. Into(u, role[u]) \subseteq Approved(u) /\ OutOf(u, role[u]) \subseteq Approved(u)
    BY DEF Into, OutOf
  <2>4. IsFiniteSet(OutOf(u, role[u])) /\ IsFiniteSet(Into(u, role[u]))
    BY <1>1, <2>3, GrantsAreFinite, FS_Subset
  <2>5. Cardinality(OutOf(u, role[u])) \in Nat /\ Cardinality(Into(u, role[u])) \in Nat
    BY <2>4, FS_CardinalityType
  <2>6. Cardinality(Into(u, role[u])) + 0 = Cardinality(OutOf(u, role[u])) + 1
    BY <1>1, <2>1, <2>2 DEF RoleInv, GrantsBalance, One
  <2>7. Cardinality(Into(u, role[u])) # 0
    BY <2>5, <2>6
  <2>8. Into(u, role[u]) # {}
    BY <2>7, FS_EmptySet
  <2>9. PICK n : n \in Into(u, role[u])
    BY <2>8
  <2>10. n \in Row(u) /\ request[n].status = "approved" /\ request[n].wants = role[u]
    BY <2>9 DEF Into, Approved, Row
  <2>11. QED
    BY <2>10
<1>4. QED
  BY <1>2, <1>3

-----------------------------------------------------------------------------
ReportRow == [status : ReportStatuses \cup {"none"}, fire : FireStatuses, notes : Verdicts \cup {"none"},
              version : Nat]
Card == [waits : 0..MaxReviews, error : BOOLEAN]
Change == [by : Reviewers, card : Cards, to : ReportStatuses \cup FireStatuses \cup {"none"},
           step : {"sent", "done", "refused", "heard", "failed"}, version : Nat]

(* No row is newer than the report's; a change that was told is in what    *)
(* its desk holds, if it holds anything.                                   *)
ChangesAreIn ==
  \A k \in DOMAIN change :
    /\ change[k].version <= report.version
    /\ change[k].step = "heard" =>
         \/ change[k].by \in fetching \/ shown[change[k].by] = NoReport
         \/ shown[change[k].by].version >= change[k].version

(* A card waits for a request of its own desk that it made itself. *)
CardsWaitForTheirOwn ==
  \A d \in Reviewers, c \in Cards :
    card[<<d, c>>].waits # 0 =>
      /\ card[<<d, c>>].waits \in DOMAIN change
      /\ change[card[<<d, c>>].waits].by = d /\ change[card[<<d, c>>].waits].card = c
      /\ change[card[<<d, c>>].waits].step \in {"sent", "done", "refused"}

(* A card asks for the statuses it is for. *)
CardsAskTheirOwn ==
  \A k \in DOMAIN change :
    change[k].to \in IF change[k].card = "report" THEN ReportStatuses ELSE FireStatuses

ReviewInv ==
  ReviewTypeOK /\ Len(change) <= MaxReviews /\ ChangesAreIn /\ CardsAskTheirOwn /\ CardsWaitForTheirOwn

-----------------------------------------------------------------------------
LEMMA ReviewFacts ==
  ASSUME ReviewInv
  PROVE  /\ report \in ReportRow /\ report.version \in Nat /\ report.status # "none"
         /\ shown \in [Reviewers -> ReportRow]
         /\ NoReport \in ReportRow
         /\ fetching \subseteq Reviewers /\ card \in [Reviewers \X Cards -> Card]
         /\ change \in Seq(Change) /\ Len(change) \in 0..MaxReviews
         /\ change \in [1..Len(change) -> Change] /\ DOMAIN change = 1..Len(change)
         /\ verdicts \in 0..MaxVerdicts /\ MaxVerdicts \in Nat /\ MaxReviews \in Nat
<1>1. /\ report \in ReportRow /\ report.status # "none" /\ shown \in [Reviewers -> ReportRow]
      /\ fetching \subseteq Reviewers /\ card \in [Reviewers \X Cards -> Card]
      /\ change \in Seq(Change) /\ verdicts \in 0..MaxVerdicts /\ Len(change) <= MaxReviews
  BY DEF ReviewInv, ReviewTypeOK, ReportRow, Card, Change
<1>2. report.version \in Nat
  BY <1>1 DEF ReportRow
<1>3. NoReport \in ReportRow
  BY DEF NoReport, ReportRow, FireStatuses, Verdicts
<1>4. Len(change) \in Nat /\ change \in [1..Len(change) -> Change] /\ DOMAIN change = 1..Len(change)
  BY <1>1
<1>5. QED
  BY <1>1, <1>2, <1>3, <1>4, ReviewAssumption

LEMMA ReviewStarts == ReviewInit => ReviewInv
<1>1. SUFFICES ASSUME ReviewInit PROVE ReviewInv
  OBVIOUS
<1>2. /\ Quiet \in Card /\ NoReport \in ReportRow /\ report \in ReportRow /\ report.status # "none"
  <2>1. Quiet \in Card
    BY ReviewAssumption DEF Quiet, Card
  <2>2. NoReport \in ReportRow
    BY DEF NoReport, ReportRow, FireStatuses, Verdicts
  <2>3. report \in ReportRow /\ report.status # "none"
    BY <1>1 DEF ReviewInit, ReportRow, ReportStatuses, FireStatuses, Verdicts
  <2>4. QED
    BY <2>1, <2>2, <2>3
<1>3. change = <<>> /\ Len(change) = 0 /\ DOMAIN change = {} /\ change \in Seq(Change)
  BY <1>1 DEF ReviewInit
<1>4. card \in [Reviewers \X Cards -> Card] /\ \A d \in Reviewers, c \in Cards : card[<<d, c>>].waits = 0
  BY <1>1, <1>2 DEF ReviewInit, Quiet
<1>5. shown \in [Reviewers -> ReportRow] /\ fetching \subseteq Reviewers /\ verdicts \in 0..MaxVerdicts
  BY <1>1, <1>2, ReviewAssumption DEF ReviewInit
<1>6. ReviewTypeOK
  BY <1>2, <1>3, <1>4, <1>5 DEF ReviewTypeOK, ReportRow, Card, Change
<1>7. QED
  BY <1>3, <1>4, <1>6, ReviewAssumption DEF ReviewInv, ChangesAreIn, CardsAskTheirOwn, CardsWaitForTheirOwn

(* The cards of a page that is fetched anew are new. *)
LEMMA NewCardsAreQuiet ==
  ASSUME ReviewInv, NEW d \in Reviewers
  PROVE  /\ NewCards(d) \in [Reviewers \X Cards -> Card]
         /\ \A c \in Cards : NewCards(d)[<<d, c>>].waits = 0
         /\ \A e \in Reviewers \ {d}, c \in Cards : NewCards(d)[<<e, c>>] = card[<<e, c>>]
<1>1. card \in [Reviewers \X Cards -> Card] /\ Quiet \in Card /\ Quiet.waits = 0
  BY ReviewFacts DEF Quiet, Card
<1>2. DOMAIN card = Reviewers \X Cards
  BY <1>1
<1>3. ASSUME NEW k \in Reviewers \X Cards
      PROVE  /\ NewCards(d)[k] = IF k[1] = d THEN Quiet ELSE card[k]
             /\ NewCards(d)[k] \in Card
  BY <1>1, <1>2 DEF NewCards
<1>4. NewCards(d) \in [Reviewers \X Cards -> Card]
  BY <1>1, <1>2, <1>3 DEF NewCards
<1>5. ASSUME NEW e \in Reviewers, NEW c \in Cards
      PROVE  NewCards(d)[<<e, c>>] = IF e = d THEN Quiet ELSE card[<<e, c>>]
  <2>1. <<e, c>> \in Reviewers \X Cards /\ <<e, c>>[1] = e
    OBVIOUS
  <2>2. QED
    BY <1>3, <2>1
<1>6. QED
  BY <1>1, <1>4, <1>5

(* What happens to the report and to the desks that fetch it. *)
LEMMA FetchKeepsReview ==
  ASSUME ReviewInv, NEW d \in Reviewers, ReportArrives(d) \/ OpenReport(d)
  PROVE  ReviewInv'
<1>1. CASE ReportArrives(d)
  <2>1. /\ fetching' = fetching \ {d} /\ UNCHANGED <<report, card, change, verdicts>>
        /\ \/ shown' = [shown EXCEPT ![d] = report]
           \/ shown' = [shown EXCEPT ![d] = NoReport]
    BY <1>1 DEF ReportArrives
  <2>2. /\ shown' \in [Reviewers -> ReportRow] /\ shown'[d] \in {report, NoReport}
        /\ \A e \in Reviewers \ {d} : shown'[e] = shown[e]
    BY <2>1, ReviewFacts
  <2>3. ReviewTypeOK'
    BY <2>1, <2>2 DEF ReviewInv, ReviewTypeOK, ReportRow
  <2>4. ChangesAreIn'
    <3>1. SUFFICES ASSUME NEW k \in DOMAIN change, change[k].step = "heard"
                   PROVE  \/ change[k].by \in fetching' \/ shown'[change[k].by] = NoReport
                          \/ shown'[change[k].by].version >= change[k].version
      BY <2>1 DEF ReviewInv, ChangesAreIn
    <3>2. /\ change[k].version \in Nat /\ change[k].by \in Reviewers /\ report.version \in Nat
          /\ change[k].version <= report.version
      BY <3>1, ReviewFacts DEF Change, ReportRow, ReviewInv, ChangesAreIn
    <3>3. CASE change[k].by = d
      BY <2>2, <3>2, <3>3
    <3>4. CASE change[k].by # d
      BY <2>1, <2>2, <3>1, <3>2, <3>4 DEF ReviewInv, ChangesAreIn
    <3>5. QED
      BY <3>3, <3>4
  <2>5. QED
    BY <2>1, <2>3, <2>4 DEF ReviewInv, CardsWaitForTheirOwn, CardsAskTheirOwn
<1>2. CASE OpenReport(d)
  <2>1. /\ fetching' = fetching \cup {d} /\ card' = NewCards(d) /\ UNCHANGED <<report, shown, change, verdicts>>
    BY <1>2 DEF OpenReport
  <2>2. /\ card' \in [Reviewers \X Cards -> Card] /\ \A c \in Cards : card'[<<d, c>>].waits = 0
        /\ \A e \in Reviewers \ {d}, c \in Cards : card'[<<e, c>>] = card[<<e, c>>]
    BY <2>1, NewCardsAreQuiet
  <2>3. ReviewTypeOK'
    BY <2>1, <2>2 DEF ReviewInv, ReviewTypeOK, Card
  <2>4. ChangesAreIn'
    BY <2>1 DEF ReviewInv, ChangesAreIn
  <2>5. CardsWaitForTheirOwn'
    BY <2>1, <2>2 DEF ReviewInv, CardsWaitForTheirOwn
  <2>6. QED
    BY <2>1, <2>3, <2>4, <2>5 DEF ReviewInv, CardsAskTheirOwn
<1>3. QED
  BY <1>1, <1>2

LEMMA AskKeepsReview ==
  ASSUME ReviewInv, NEW d \in Reviewers, NEW c \in Cards, AskForChange(d, c)
  PROVE  ReviewInv'
<1> DEFINE n == Len(change) + 1
<1>1. PICK b \in Buttons(d, c) :
        change' = Append(change, [by |-> d, card |-> c, to |-> b, step |-> "sent", version |-> 0])
  BY DEF AskForChange
<1> DEFINE x == [by |-> d, card |-> c, to |-> b, step |-> "sent", version |-> 0]
<1>2. b \in IF c = "report" THEN ReportStatuses ELSE FireStatuses
  BY <1>1 DEF Buttons, ReportActions, FireStatusActions, ReportStatuses, FireStatuses
<1>3. x \in Change /\ x.by = d /\ x.card = c /\ x.to = b /\ x.step = "sent" /\ x.version = 0
  BY <1>2 DEF Change
<1>4. /\ Len(change) \in Nat /\ change \in Seq(Change) /\ DOMAIN change = 1..Len(change)
      /\ Len(change) < MaxReviews /\ MaxReviews \in Nat
  BY ReviewFacts DEF AskForChange
<1> HIDE DEF x
<1>5. /\ change' \in Seq(Change) /\ Len(change') = n /\ DOMAIN change' = 1..n
      /\ change'[n] = x /\ \A k \in DOMAIN change : change'[k] = change[k] /\ k \in DOMAIN change' /\ k # n
  BY <1>1, <1>3, <1>4 DEF x
<1>6. n \in 0..MaxReviews /\ n # 0 /\ n \in DOMAIN change' /\ n <= MaxReviews
  BY <1>4, <1>5
<1>7. UNCHANGED <<report, shown, fetching, verdicts>> /\ card' = [card EXCEPT ![<<d, c>>] = [waits |-> n, error |-> FALSE]]
  BY DEF AskForChange
<1> DEFINE q == [waits |-> n, error |-> FALSE]
<1>8. q \in Card /\ q.waits = n
  BY <1>6 DEF Card
<1> HIDE DEF q
<1>9. /\ card' \in [Reviewers \X Cards -> Card] /\ card'[<<d, c>>] = q
      /\ \A e \in Reviewers, k \in Cards : <<e, k>> # <<d, c>> => card'[<<e, k>>] = card[<<e, k>>]
  BY <1>7, <1>8, ReviewFacts DEF q
<1>10. ReviewTypeOK'
  BY <1>5, <1>7, <1>9 DEF ReviewInv, ReviewTypeOK, Card, Change
<1>11. ChangesAreIn'
  <2>1. SUFFICES ASSUME NEW k \in DOMAIN change' PROVE
          /\ change'[k].version <= report.version
          /\ change'[k].step = "heard" =>
               \/ change'[k].by \in fetching \/ shown[change'[k].by] = NoReport
               \/ shown[change'[k].by].version >= change'[k].version
    BY <1>7 DEF ChangesAreIn
  <2>2. CASE k = n
    <3>1. 0 <= report.version
      BY ReviewFacts DEF ReportRow
    <3>2. QED
      BY <1>3, <1>5, <2>2, <3>1
  <2>3. CASE k \in DOMAIN change
    BY <1>5, <2>3 DEF ReviewInv, ChangesAreIn
  <2>4. QED
    BY <1>4, <1>5, <2>2, <2>3
<1>12. CardsWaitForTheirOwn'
  <2>1. SUFFICES ASSUME NEW e \in Reviewers, NEW k \in Cards, card'[<<e, k>>].waits # 0
                 PROVE  /\ card'[<<e, k>>].waits \in DOMAIN change'
                        /\ change'[card'[<<e, k>>].waits].by = e /\ change'[card'[<<e, k>>].waits].card = k
                        /\ change'[card'[<<e, k>>].waits].step \in {"sent", "done", "refused"}
    BY DEF CardsWaitForTheirOwn
  <2>2. CASE <<e, k>> = <<d, c>>
    BY <1>3, <1>5, <1>6, <1>8, <1>9, <2>2
  <2>3. CASE <<e, k>> # <<d, c>>
    <3>1. card'[<<e, k>>] = card[<<e, k>>]
      BY <1>9, <2>3
    <3>2. QED
      BY <1>5, <2>1, <3>1 DEF ReviewInv, CardsWaitForTheirOwn
  <2>4. QED
    BY <2>2, <2>3
<1>13. CardsAskTheirOwn'
  <2>1. ASSUME NEW k \in DOMAIN change' PROVE k = n \/ k \in DOMAIN change
    BY <1>4, <1>5
  <2>2. QED
    BY <1>2, <1>3, <1>5, <2>1 DEF ReviewInv, CardsAskTheirOwn
<1>14. QED
  BY <1>5, <1>6, <1>10, <1>11, <1>12, <1>13 DEF ReviewInv

(* The server's half: the report changes, and says so with its version. *)
LEMMA ServerKeepsReview ==
  ASSUME ReviewInv, NEW k \in DOMAIN change, status_change(k) \/ fire_status_change(k)
  PROVE  ReviewInv'
<1>1. /\ report \in ReportRow /\ report.version \in Nat /\ report.version + 1 \in Nat /\ report.status # "none"
      /\ change \in [1..Len(change) -> Change] /\ k \in 1..Len(change) /\ change[k] \in Change
      /\ change[k].step = "sent"
      /\ UNCHANGED <<shown, fetching, card, verdicts>>
  BY ReviewFacts DEF status_change, fire_status_change
<1>2. PICK y \in Change :
        /\ change' = [change EXCEPT ![k] = y]
        /\ y.by = change[k].by /\ y.card = change[k].card /\ y.to = change[k].to
        /\ y.step \in {"done", "refused"}
        /\ report' \in ReportRow /\ report'.status # "none"
        /\ report'.version >= report.version /\ y.version <= report'.version
  <2>1. CASE status_change(k) /\ change[k].to \in ReportStatuses
    <3> DEFINE y == [change[k] EXCEPT !.step = "done", !.version = report.version + 1]
    <3>1. y \in Change /\ y.by = change[k].by /\ y.card = change[k].card /\ y.to = change[k].to /\ y.step = "done" /\ y.version = report.version + 1
      BY <1>1 DEF Change
    <3>2. change' = [change EXCEPT ![k] = y]
      BY <1>1, <2>1 DEF status_change
    <3>3. report' \in ReportRow /\ report'.status # "none" /\ report'.version = report.version + 1
      BY <1>1, <2>1 DEF status_change, ReportRow, ReportStatuses
    <3> HIDE DEF y
    <3>4. report'.version >= report.version /\ y.version <= report'.version
      BY <1>1, <3>1, <3>3
    <3>5. QED
      BY <1>1, <3>1, <3>2, <3>3, <3>4
  <2>2. CASE fire_status_change(k) /\ report.status = "verified" /\ change[k].to \in FireStatuses
    <3> DEFINE y == [change[k] EXCEPT !.step = "done", !.version = report.version + 1]
    <3>1. y \in Change /\ y.by = change[k].by /\ y.card = change[k].card /\ y.to = change[k].to /\ y.step = "done" /\ y.version = report.version + 1
      BY <1>1 DEF Change
    <3>2. change' = [change EXCEPT ![k] = y]
      BY <1>1, <2>2 DEF fire_status_change
    <3>3. report' \in ReportRow /\ report'.status # "none" /\ report'.version = report.version + 1
      BY <1>1, <2>2 DEF fire_status_change, ReportRow, FireStatuses
    <3> HIDE DEF y
    <3>4. report'.version >= report.version /\ y.version <= report'.version
      BY <1>1, <3>1, <3>3
    <3>5. QED
      BY <1>1, <3>1, <3>2, <3>3, <3>4
  <2>3. CASE fire_status_change(k) /\ report.status # "verified"
    <3> DEFINE y == [change[k] EXCEPT !.step = "refused"]
    <3>1. y \in Change /\ y.by = change[k].by /\ y.card = change[k].card /\ y.to = change[k].to /\ y.step = "refused" /\ y.version = change[k].version
      BY <1>1 DEF Change
    <3>2. change' = [change EXCEPT ![k] = y] /\ report' = report
      BY <1>1, <2>3 DEF fire_status_change
    <3>3. change[k].version <= report.version
      BY DEF ReviewInv, ChangesAreIn
    <3> HIDE DEF y
    <3>4. report'.version >= report.version /\ y.version <= report'.version
      BY <1>1, <3>1, <3>2, <3>3
    <3>5. QED
      BY <1>1, <3>1, <3>2, <3>3, <3>4
  <2>4. change[k].to \in IF change[k].card = "report" THEN ReportStatuses ELSE FireStatuses
    BY DEF ReviewInv, CardsAskTheirOwn
  <2>5. change[k].to \in ReportStatuses \/ ~status_change(k)
    BY <2>4 DEF status_change
  <2>6. change[k].to \in FireStatuses \/ ~fire_status_change(k)
    BY <2>4 DEF fire_status_change
  <2>7. QED
    BY <2>1, <2>2, <2>3, <2>5, <2>6
<1>3. /\ change' \in [1..Len(change) -> Change] /\ Len(change') = Len(change) /\ DOMAIN change' = DOMAIN change
      /\ change' \in Seq(Change)
      /\ change'[k] = y /\ \A j \in DOMAIN change \ {k} : change'[j] = change[j]
  BY <1>1, <1>2, ReviewFacts
<1>4. /\ report'.version \in Nat /\ UNCHANGED <<shown, fetching, card, verdicts>>
      /\ change[k].to \in IF change[k].card = "report" THEN ReportStatuses ELSE FireStatuses
      /\ y.to \in IF y.card = "report" THEN ReportStatuses ELSE FireStatuses
  BY <1>1, <1>2 DEF ReportRow, ReviewInv, CardsAskTheirOwn
<1>5. ReviewTypeOK'
  BY <1>2, <1>3, <1>4 DEF ReviewInv, ReviewTypeOK, ReportRow, Change
<1>6. ChangesAreIn'
  <2>1. SUFFICES ASSUME NEW j \in DOMAIN change
                 PROVE  /\ change'[j].version <= report'.version
                        /\ change'[j].step = "heard" =>
                             \/ change'[j].by \in fetching \/ shown[change'[j].by] = NoReport
                             \/ shown[change'[j].by].version >= change'[j].version
    BY <1>3, <1>4 DEF ChangesAreIn
  <2>2. CASE j = k
    BY <1>2, <1>3, <2>2
  <2>3. CASE j # k
    <3>1. change'[j] = change[j] /\ change[j].version \in Nat /\ change[j].version <= report.version
      BY <1>3, <2>3, ReviewFacts DEF ReviewInv, ChangesAreIn, Change
    <3>2. change[j].version <= report'.version
      BY <1>1, <1>2, <1>4, <3>1
    <3>3. QED
      BY <3>1, <3>2 DEF ReviewInv, ChangesAreIn
  <2>4. QED
    BY <2>2, <2>3
<1>7. CardsAskTheirOwn'
  BY <1>3, <1>4 DEF ReviewInv, CardsAskTheirOwn
<1>8. CardsWaitForTheirOwn'
  BY <1>2, <1>3, <1>4 DEF ReviewInv, CardsWaitForTheirOwn
<1>9. QED
  BY <1>3, <1>5, <1>6, <1>7, <1>8 DEF ReviewInv

(* The automatic verification makes the report newer. *)
LEMMA VerdictKeepsReview ==
  ASSUME ReviewInv, run_verification
  PROVE  ReviewInv'
<1>1. /\ verdicts' \in 0..MaxVerdicts /\ UNCHANGED <<shown, fetching, card, change>>
      /\ report \in ReportRow /\ report.version \in Nat /\ report.version + 1 \in Nat
  <2>1. verdicts < MaxVerdicts /\ verdicts' = verdicts + 1 /\ UNCHANGED <<shown, fetching, card, change>>
    BY DEF run_verification
  <2>2. QED
    BY <2>1, ReviewFacts
<1>2. report' \in ReportRow /\ report'.status # "none" /\ report'.version = report.version + 1
  <2>1. PICK v \in Verdicts :
          report' = [report EXCEPT !.notes = v, !.version = @ + 1,
            !.status = [auto_verify |-> "verified", auto_reject |-> "rejected", manual_review |-> "pending"][v]]
    BY DEF run_verification
  <2>2. PICK st \in ReportStatuses :
          report' = [report EXCEPT !.notes = v, !.version = report.version + 1, !.status = st]
    <3>1. CASE v = "auto_verify"
      BY <1>1, <2>1, <3>1 DEF ReportRow, ReportStatuses
    <3>2. CASE v = "auto_reject"
      BY <1>1, <2>1, <3>2 DEF ReportRow, ReportStatuses
    <3>3. CASE v = "manual_review"
      BY <1>1, <2>1, <3>3 DEF ReportRow, ReportStatuses
    <3>4. QED
      BY <3>1, <3>2, <3>3 DEF Verdicts
  <2>3. st # "none"
    BY <2>2 DEF ReportStatuses
  <2>4. QED
    BY <1>1, <2>2, <2>3 DEF ReportRow
<1>3. ReviewTypeOK'
  BY <1>1, <1>2 DEF ReviewInv, ReviewTypeOK, ReportRow
<1>4. ChangesAreIn'
  <2>1. ASSUME NEW k \in DOMAIN change PROVE change[k].version <= report'.version
    <3>1. change[k].version \in Nat /\ change[k].version <= report.version
      BY ReviewFacts DEF ReviewInv, ChangesAreIn, Change
    <3>2. QED
      BY <1>1, <1>2, <3>1
  <2>2. QED
    BY <1>1, <2>1 DEF ReviewInv, ChangesAreIn
<1>5. QED
  BY <1>1, <1>3, <1>4 DEF ReviewInv, CardsAskTheirOwn, CardsWaitForTheirOwn

(* An answer: a success takes every card of its desk away, a failure the   *)
(* waiting of the one card that waits for it.                              *)
LEMMA AnswerKeepsReview ==
  ASSUME ReviewInv, NEW k \in DOMAIN change, ChangeSucceeds(k) \/ ChangeFails(k)
  PROVE  ReviewInv'
<1>1. /\ change \in [1..Len(change) -> Change] /\ k \in 1..Len(change) /\ change[k] \in Change
      /\ change[k].by \in Reviewers /\ change[k].card \in Cards
      /\ card \in [Reviewers \X Cards -> Card]
      /\ UNCHANGED <<report, shown, verdicts>>
  BY ReviewFacts DEF Change, ChangeSucceeds, ChangeFails
<1>2. PICK step \in {"heard", "failed"} :
        /\ change' = [change EXCEPT ![k].step = step]
        /\ fetching' = IF step = "heard" THEN fetching \cup {change[k].by} ELSE fetching
        /\ step = "heard" => card' = NewCards(change[k].by)
        /\ step = "failed" =>
             card' = IF card[<<change[k].by, change[k].card>>].waits = k
                     THEN [card EXCEPT ![<<change[k].by, change[k].card>>] = [waits |-> 0, error |-> TRUE]] ELSE card
  BY DEF ChangeSucceeds, ChangeFails
<1> DEFINE y == [change[k] EXCEPT !.step = step]
<1>3. /\ y \in Change /\ y.by = change[k].by /\ y.card = change[k].card /\ y.to = change[k].to
      /\ y.version = change[k].version /\ y.step = step
      /\ change' = [change EXCEPT ![k] = y]
  BY <1>1, <1>2 DEF Change
<1> HIDE DEF y
<1>4. /\ change' \in [1..Len(change) -> Change] /\ Len(change') = Len(change) /\ DOMAIN change' = DOMAIN change
      /\ change' \in Seq(Change)
      /\ change'[k] = y /\ \A j \in DOMAIN change \ {k} : change'[j] = change[j]
  BY <1>1, <1>3, ReviewFacts
<1>5. fetching' \subseteq Reviewers /\ fetching \subseteq fetching' /\ (step = "heard" => change[k].by \in fetching')
  BY <1>1, <1>2, ReviewFacts
<1>6. /\ card' \in [Reviewers \X Cards -> Card]
      /\ \A d \in Reviewers, c \in Cards :
           card'[<<d, c>>].waits # 0 => card'[<<d, c>>] = card[<<d, c>>] /\ card[<<d, c>>].waits # k
  <2>1. CASE step = "heard"
    <3>1. /\ card' \in [Reviewers \X Cards -> Card] /\ \A c \in Cards : card'[<<change[k].by, c>>].waits = 0
          /\ \A e \in Reviewers \ {change[k].by}, c \in Cards : card'[<<e, c>>] = card[<<e, c>>]
      BY <1>1, <1>2, <2>1, NewCardsAreQuiet
    <3>2. QED
      BY <3>1 DEF ReviewInv, CardsWaitForTheirOwn
  <2>2. CASE step = "failed" /\ card[<<change[k].by, change[k].card>>].waits = k
    <3> DEFINE q == [waits |-> 0, error |-> TRUE]
    <3>1. q \in Card /\ q.waits = 0
      BY ReviewFacts DEF Card
    <3>2. card' = [card EXCEPT ![<<change[k].by, change[k].card>>] = q]
      BY <1>2, <2>2
    <3> HIDE DEF q
    <3>3. /\ card' \in [Reviewers \X Cards -> Card] /\ card'[<<change[k].by, change[k].card>>] = q
          /\ \A d \in Reviewers, c \in Cards :
               <<d, c>> # <<change[k].by, change[k].card>> => card'[<<d, c>>] = card[<<d, c>>]
      BY <1>1, <3>1, <3>2
    <3>4. ASSUME NEW d \in Reviewers, NEW c \in Cards, card'[<<d, c>>].waits # 0
          PROVE  card'[<<d, c>>] = card[<<d, c>>] /\ card[<<d, c>>].waits # k
      <4>1. <<d, c>> # <<change[k].by, change[k].card>>
        BY <3>1, <3>3, <3>4
      <4>2. card'[<<d, c>>] = card[<<d, c>>]
        BY <3>3, <4>1
      <4>3. card[<<d, c>>].waits # k
        BY <3>4, <4>1, <4>2 DEF ReviewInv, CardsWaitForTheirOwn
      <4>4. QED
        BY <4>2, <4>3
    <3>5. QED
      BY <3>3, <3>4
  <2>3. CASE step = "failed" /\ card[<<change[k].by, change[k].card>>].waits # k
    <3>1. card' = card
      BY <1>2, <2>3
    <3>2. ASSUME NEW d \in Reviewers, NEW c \in Cards, card[<<d, c>>].waits # 0 PROVE card[<<d, c>>].waits # k
      <4>1. CASE d = change[k].by /\ c = change[k].card
        BY <2>3, <4>1
      <4>2. CASE ~(d = change[k].by /\ c = change[k].card)
        BY <3>2, <4>2 DEF ReviewInv, CardsWaitForTheirOwn
      <4>3. QED
        BY <4>1, <4>2
    <3>3. QED
      BY <1>1, <3>1, <3>2
  <2>4. QED
    BY <2>1, <2>2, <2>3
<1>7. ReviewTypeOK'
  BY <1>1, <1>4, <1>5, <1>6 DEF ReviewInv, ReviewTypeOK, Card, Change
<1>8. ChangesAreIn'
  <2>1. SUFFICES ASSUME NEW j \in DOMAIN change
                 PROVE  /\ change'[j].version <= report.version
                        /\ change'[j].step = "heard" =>
                             \/ change'[j].by \in fetching' \/ shown[change'[j].by] = NoReport
                             \/ shown[change'[j].by].version >= change'[j].version
    BY <1>1, <1>4 DEF ChangesAreIn
  <2>2. CASE j = k
    BY <1>3, <1>4, <1>5, <2>2 DEF ReviewInv, ChangesAreIn
  <2>3. CASE j # k
    BY <1>4, <1>5, <2>3 DEF ReviewInv, ChangesAreIn
  <2>4. QED
    BY <2>2, <2>3
<1>9. CardsAskTheirOwn'
  BY <1>3, <1>4 DEF ReviewInv, CardsAskTheirOwn
<1>10. CardsWaitForTheirOwn'
  BY <1>4, <1>6 DEF ReviewInv, CardsWaitForTheirOwn
<1>11. QED
  BY <1>4, <1>7, <1>8, <1>9, <1>10 DEF ReviewInv

LEMMA ReviewKept == ReviewInv /\ [ReviewNext]_reviewVars => ReviewInv'
<1>1. SUFFICES ASSUME ReviewInv, [ReviewNext]_reviewVars PROVE ReviewInv'
  OBVIOUS
<1>2. CASE UNCHANGED reviewVars
  BY <1>1, <1>2 DEF reviewVars, ReviewInv, ReviewTypeOK, ChangesAreIn, CardsAskTheirOwn, CardsWaitForTheirOwn
<1>3. CASE ReviewNext
  BY <1>1, <1>3, FetchKeepsReview, AskKeepsReview, ServerKeepsReview, VerdictKeepsReview, AnswerKeepsReview
     DEF ReviewNext
<1>4. QED
  BY <1>1, <1>2, <1>3

LEMMA ReviewHolds == ReviewInv => ReviewTypeOK /\ DeskSeesItsChanges /\ ReasonFitsStatus /\ CardsWaitTheirTurn
<1>1. SUFFICES ASSUME ReviewInv PROVE DeskSeesItsChanges /\ ReasonFitsStatus /\ CardsWaitTheirTurn
  BY DEF ReviewInv
<1>2. DeskSeesItsChanges
  BY <1>1 DEF ReviewInv, ChangesAreIn, DeskSeesItsChanges, ViewPage
<1>3. ReasonFitsStatus
  <2>1. report.notes \in Verdicts \cup {"none"}
    BY <1>1 DEF ReviewInv, ReviewTypeOK
  <2>2. QED
    BY <2>1 DEF ReasonFitsStatus, VerificationNotes, Decision, Verdicts
<1>4. CardsWaitTheirTurn
  BY <1>1 DEF ReviewInv, CardsWaitForTheirOwn, CardsWaitTheirTurn
<1>5. QED
  BY <1>2, <1>3, <1>4

-----------------------------------------------------------------------------
Actions == {"activate", "deactivate", "remove"}
Listings == UNION {[D -> Entries] : D \in SUBSET Machines}
Call == [page : MachinePages, n : Nat, do : {"list", "key", "command", "reset"} \cup Actions,
         machine : Machines \cup {NoMachine}, modal : Nat, known : [Machines -> -1..MaxVersions],
         at : {"sent", "answered", "refused"}, answer : {<<>>} \cup Entries \cup Listings]

(* What was true of machine m once: if the machine has not changed, it is. *)
Once(m, e) ==
  /\ m \in DOMAIN nodes /\ e \in Entries /\ e.version <= nodes[m].version
  /\ e.version = nodes[m].version => e.status = nodes[m].status

RowsWereTrue == \A p \in MachinePages : \A m \in Table(p) : Once(m, workers[p][m])
DialogsAreOfMachines ==
  /\ \A p \in MachinePages : pendingRemoval[p] # NoMachine => pendingRemoval[p] \in DOMAIN nodes
  /\ command # NoMachine => command \in DOMAIN nodes

(* An answer is not older than what the page knew when it asked, and what  *)
(* was offered by a row is good unless the machine has changed.            *)
CallKnows(c) ==
  /\ \A m \in Machines : c.known[m] = -1 \/ (m \in DOMAIN nodes /\ c.known[m] <= nodes[m].version)
  /\ c.do = "list" /\ c.at = "answered" =>
       \A m \in DOMAIN c.answer : Once(m, c.answer[m]) /\ c.known[m] <= c.answer[m].version
  /\ c.do \notin {"list", "key"} => c.machine \in DOMAIN nodes
  /\ c.do \in Actions /\ c.at = "answered" =>
       Once(c.machine, c.answer) /\ c.known[c.machine] <= c.answer.version
  /\ c.at = "sent" /\ c.do \in {"activate", "deactivate", "command"} /\ c.known[c.machine] = nodes[c.machine].version =>
       /\ c.do = "activate" => nodes[c.machine].status = "deactivated"
       /\ nodes[c.machine].status # "removed"
CallsKnow == \A c \in calls : CallKnows(c)
CallsAreApart == \A c, d \in calls : c.n = d.n => c = d

(* A command or a key that was asked for by the modal that is open is for  *)
(* the machine it is open on.                                              *)
CommandIs(c) ==
  c.do \in {"command", "reset"} =>
    /\ c.modal <= modal
    /\ c.modal = modal /\ command # NoMachine => c.machine = command
    /\ c.do = "reset" /\ c.at = "answered" => [machine |-> c.machine, modal |-> c.modal] \in newKeys
CommandsAre ==
  /\ \A c \in calls : CommandIs(c)
  /\ resetCommand => [machine |-> command, modal |-> modal] \in newKeys

(* The dialog that is mounted waits for one key at most. *)
KeysAre ==
  /\ \A c \in calls : c.do = "key" =>
       /\ c.modal <= join.mount /\ c.n <= MaxPresses
       /\ c.modal = join.mount => join.loading /\ join.step = "form" /\ c.n > join.key
  /\ \A c, d \in calls : c.do = "key" /\ d.do = "key" /\ c.modal = join.mount /\ d.modal = join.mount => c = d
  /\ join.step = "instructions" => join.key # 0
  /\ join.key <= presses

CallsAreTyped ==
  /\ presses \in Nat /\ modal \in Nat /\ calls \subseteq Call
  /\ nodes \in Listings /\ DOMAIN workers = MachinePages

(* The machines change, and no change is lost. *)
Grown ==
  /\ nodes' \in Listings /\ DOMAIN nodes' \subseteq Machines /\ \A m \in DOMAIN nodes' : nodes'[m] \in Entries
  /\ \A m \in DOMAIN nodes :
       m \in DOMAIN nodes' /\ (nodes'[m] = nodes[m] \/ nodes'[m].version > nodes[m].version)

MachinesInv ==
  /\ MachinesTypeOK /\ CallsAreTyped /\ RowsWereTrue /\ DialogsAreOfMachines
  /\ CallsKnow /\ CallsAreApart /\ CommandsAre /\ KeysAre

-----------------------------------------------------------------------------
LEMMA MachineFacts ==
  ASSUME MachinesInv
  PROVE  /\ DOMAIN nodes \subseteq Machines /\ nodes \in [DOMAIN nodes -> Entries]
         /\ \A m \in DOMAIN nodes : nodes[m].version \in 0..MaxVersions /\ nodes[m].status \in Status
         /\ presses \in Nat /\ modal \in Nat /\ MaxVersions \in Nat /\ MaxPresses \in Nat
         /\ calls \subseteq Call /\ \A c \in calls : c.n \in 1..presses
         /\ join \in [open : BOOLEAN, step : {"form", "instructions"}, loading : BOOLEAN, key : 0..MaxPresses, mount : Nat]
         /\ NoMachine \notin Machines /\ Volunteer # Desk /\ Volunteer \in MachinePages /\ Desk \in MachinePages
         /\ "removed" \notin LoopStatus /\ LoopStatus \subseteq Status /\ "removed" \in Status
<1>1. PICK D \in SUBSET Machines : nodes \in [D -> Entries]
  BY DEF MachinesInv, CallsAreTyped, Listings
<1>2. D = DOMAIN nodes
  BY <1>1
<1>3. \A m \in DOMAIN nodes : nodes[m].version \in 0..MaxVersions /\ nodes[m].status \in Status
  BY <1>1, <1>2 DEF Entries
<1>4. /\ MaxVersions \in Nat /\ MaxPresses \in Nat /\ NoMachine \notin Machines /\ Volunteer # Desk
      /\ "removed" \notin LoopStatus
  BY MachinesAssumption
<1>5. LoopStatus \subseteq Status /\ "removed" \in Status /\ Volunteer \in MachinePages /\ Desk \in MachinePages
  BY DEF Status, MachinePages
<1>6. QED
  BY <1>1, <1>2, <1>3, <1>4, <1>5 DEF MachinesInv, MachinesTypeOK, CallsAreTyped

LEMMA MachinesStart == MachinesInit => MachinesInv
<1>1. SUFFICES ASSUME MachinesInit PROVE MachinesInv
  OBVIOUS
<1>2. /\ MaxVersions \in Nat /\ MaxPresses \in Nat /\ Volunteer # Desk
      /\ 0 \in 0..MaxVersions /\ 0 \in 0..MaxPresses /\ -1 \in -1..MaxVersions
  BY MachinesAssumption
<1>3. DOMAIN nodes \subseteq Machines /\ nodes \in [DOMAIN nodes -> Entries]
  <2>1. PICK known \in {{}, Machines}, s \in {"active", "deactivated"} :
          nodes = [m \in known |-> [status |-> s, version |-> 0]]
    BY <1>1 DEF MachinesInit
  <2>2. [status |-> s, version |-> 0] \in Entries
    BY <1>2, <2>1 DEF Entries, Status
  <2>3. QED
    BY <2>1, <2>2
<1>4. /\ workers = [p \in MachinePages |-> <<>>] /\ reading = [p \in MachinePages |-> "loading"]
      /\ actionError = [p \in MachinePages |-> FALSE] /\ pendingRemoval = [p \in MachinePages |-> NoMachine]
      /\ command = NoMachine /\ runCommand = FALSE /\ resetCommand = FALSE /\ resetting = FALSE /\ modal = 0
      /\ join = [open |-> FALSE, step |-> "form", loading |-> FALSE, key |-> 0, mount |-> 0]
  BY <1>1 DEF MachinesInit, NewJoin
<1>5. PICK opened \in {{Volunteer}, MachinePages} :
        /\ calls = {[page |-> p, n |-> IF p = Volunteer THEN 1 ELSE 2, do |-> "list", machine |-> NoMachine,
                     modal |-> 0, known |-> [m \in Machines |-> -1], at |-> "sent", answer |-> <<>>] : p \in opened}
        /\ presses = Cardinality(opened)
  BY <1>1 DEF MachinesInit
<1>6. /\ opened \subseteq MachinePages /\ presses \in Nat /\ 1 \in 1..presses
      /\ \A p \in opened : (IF p = Volunteer THEN 1 ELSE 2) \in 1..presses
  <2>1. IsFiniteSet({Volunteer}) /\ Cardinality({Volunteer}) = 1
    BY FS_Singleton
  <2>2. Cardinality({Volunteer} \cup {Desk}) = 2
    BY <1>2, <2>1, FS_AddElement
  <2>3. MachinePages = {Volunteer} \cup {Desk}
    BY DEF MachinePages
  <2>4. CASE opened = {Volunteer}
    BY <1>5, <2>1, <2>3, <2>4
  <2>5. CASE opened = MachinePages
    <3>1. presses = 2
      BY <1>5, <2>2, <2>3, <2>5
    <3>2. QED
      BY <2>5, <3>1
  <2>6. QED
    BY <1>5, <2>4, <2>5
<1>7. \A c \in calls : /\ c \in Call /\ c.page \in MachinePages /\ c.n \in 1..presses /\ c.do = "list" /\ c.at = "sent"
                       /\ \A m \in Machines : c.known[m] = -1
                       /\ c.n = IF c.page = Volunteer THEN 1 ELSE 2
  <2>1. SUFFICES ASSUME NEW p \in opened,
                        NEW c, c = [page |-> p, n |-> IF p = Volunteer THEN 1 ELSE 2, do |-> "list", machine |-> NoMachine,
                                    modal |-> 0, known |-> [m \in Machines |-> -1], at |-> "sent", answer |-> <<>>]
                 PROVE  /\ c \in Call /\ c.page \in MachinePages /\ c.n \in 1..presses /\ c.do = "list" /\ c.at = "sent"
                        /\ \A m \in Machines : c.known[m] = -1
                        /\ c.n = IF c.page = Volunteer THEN 1 ELSE 2
    BY <1>5
  <2>2. [m \in Machines |-> -1] \in [Machines -> -1..MaxVersions]
    BY <1>2
  <2>3. (IF p = Volunteer THEN 1 ELSE 2) \in Nat /\ 0 \in Nat
    OBVIOUS
  <2>4. c \in Call
    BY <1>6, <2>1, <2>2, <2>3 DEF Call
  <2>5. QED
    BY <1>6, <2>1, <2>4
<1>8. MachinesTypeOK
  <2>1. \A p \in MachinePages : DOMAIN workers[p] = {}
    BY <1>4
  <2>2. QED
    BY <1>2, <1>3, <1>4, <1>7, <2>1 DEF MachinesTypeOK, Table
<1>9. CallsAreTyped /\ RowsWereTrue /\ DialogsAreOfMachines
  <2>1. \A p \in MachinePages : DOMAIN workers[p] = {}
    BY <1>4
  <2>2. nodes \in Listings
    BY <1>3 DEF Listings
  <2>3. QED
    BY <1>4, <1>6, <1>7, <2>1, <2>2 DEF CallsAreTyped, RowsWereTrue, DialogsAreOfMachines, Table
<1>10. CallsKnow
  BY <1>7 DEF CallsKnow, CallKnows, Actions
<1>11. CallsAreApart
  <2>1. SUFFICES ASSUME NEW c \in calls, NEW d \in calls, c.n = d.n PROVE c = d
    BY DEF CallsAreApart
  <2>2. c.page = d.page
    BY <1>2, <1>7, <2>1 DEF MachinePages
  <2>3. QED
    BY <1>5, <2>2
<1>12. CommandsAre
  BY <1>4, <1>7 DEF CommandsAre, CommandIs
<1>13. KeysAre
  BY <1>4, <1>6, <1>7 DEF KeysAre
<1>14. QED
  BY <1>8, <1>9, <1>10, <1>11, <1>12, <1>13 DEF MachinesInv

-----------------------------------------------------------------------------
(* A request is sent: it knows what its page knows. *)
LEMMA SendKeepsCalls ==
  ASSUME MachinesInv, NEW p \in MachinePages, NEW do \in {"list", "key", "command", "reset"} \cup Actions,
         NEW m \in Machines \cup {NoMachine}, NEW d \in Nat, Send(p, do, m, d), nodes' = nodes,
         do \notin {"list", "key"} => m \in DOMAIN nodes,
         do \in {"activate", "deactivate", "command"} /\ At(p, m) = nodes[m].version =>
           /\ do = "activate" => nodes[m].status = "deactivated"
           /\ nodes[m].status # "removed"
  PROVE  /\ presses' = presses + 1 /\ presses < MaxPresses
         /\ presses' \in Nat /\ calls' \subseteq Call
         /\ \A c \in calls' : c.page \in MachinePages /\ c.n \in 1..presses'
         /\ CallsKnow' /\ CallsAreApart'
         /\ \E c \in calls' : /\ calls' = calls \cup {c} /\ c.do = do /\ c.machine = m /\ c.modal = d /\ c.at = "sent"
                              /\ c.n = presses + 1
<1>1. /\ presses' = presses + 1 /\ presses < MaxPresses
      /\ calls' = calls \cup {[page |-> p, n |-> presses + 1, do |-> do, machine |-> m, modal |-> d,
                               known |-> [k \in Machines |-> At(p, k)], at |-> "sent", answer |-> <<>>]}
  BY DEF Send
<1>2. presses \in Nat /\ MaxVersions \in Nat /\ DOMAIN nodes \subseteq Machines
  BY MachineFacts
<1>3. ASSUME NEW k \in Machines
      PROVE  At(p, k) \in -1..MaxVersions /\ (At(p, k) = -1 \/ (k \in DOMAIN nodes /\ At(p, k) <= nodes[k].version))
  <2>1. CASE k \in Table(p)
    <3>1. Once(k, workers[p][k])
      BY <2>1 DEF MachinesInv, RowsWereTrue
    <3>2. workers[p][k].version \in 0..MaxVersions
      BY <3>1 DEF Once, Entries
    <3>3. QED
      BY <1>2, <2>1, <3>1, <3>2 DEF At, Once
  <2>2. CASE k \notin Table(p)
    BY <1>2, <2>2 DEF At
  <2>3. QED
    BY <2>1, <2>2
<1>4. PICK known : known = [k \in Machines |-> At(p, k)]
  OBVIOUS
<1>5. known \in [Machines -> -1..MaxVersions] /\ \A k \in Machines : known[k] = At(p, k)
  BY <1>3, <1>4
<1>6. PICK c : c = [page |-> p, n |-> presses + 1, do |-> do, machine |-> m, modal |-> d,
                    known |-> known, at |-> "sent", answer |-> <<>>]
  OBVIOUS
<1>7. /\ c.page = p /\ c.n = presses + 1 /\ c.do = do /\ c.machine = m /\ c.modal = d /\ c.known = known
      /\ c.at = "sent" /\ calls' = calls \cup {c}
  BY <1>1, <1>4, <1>6
<1>8. c \in Call
  BY <1>2, <1>5, <1>6 DEF Call
<1>9. presses' \in Nat /\ presses + 1 \in 1..presses' /\ 1..presses \subseteq 1..presses' /\ presses + 1 \notin 1..presses
  BY <1>1, <1>2
<1>10. CallKnows(c)'
  <2>1. \A k \in Machines : known[k] = -1 \/ (k \in DOMAIN nodes' /\ known[k] <= nodes'[k].version)
    BY <1>3, <1>5
  <2>2. do \notin {"list", "key"} => m \in Machines /\ known[m] = At(p, m)
    BY <1>2, <1>5
  <2>3. QED
    BY <1>7, <2>1, <2>2 DEF CallKnows
<1>11. CallsKnow'
  <2>1. ASSUME NEW b \in calls PROVE CallKnows(b)'
    <3>1. CallKnows(b)
      BY DEF MachinesInv, CallsKnow
    <3>2. QED
      BY <3>1 DEF CallKnows, Once
  <2>2. QED
    BY <1>7, <1>10, <2>1 DEF CallsKnow
<1>12. CallsAreApart'
  BY <1>7, <1>9, MachineFacts DEF MachinesInv, CallsAreApart
<1>13. \A b \in calls' : b.page \in MachinePages /\ b.n \in 1..presses'
  BY <1>7, <1>9 DEF MachinesInv, MachinesTypeOK
<1>14. QED
  BY <1>1, <1>7, <1>8, <1>9, <1>11, <1>12, <1>13, MachineFacts

-----------------------------------------------------------------------------
(* Every change of a machine counts. *)
LEMMA WriteGrows ==
  ASSUME MachinesInv, NEW m \in DOMAIN nodes, NEW s \in Status, Write(m, s)
  PROVE  /\ Grown /\ nodes' # nodes /\ DOMAIN nodes' = DOMAIN nodes
         /\ nodes'[m] \in Entries /\ nodes'[m].status = s /\ nodes'[m].version = nodes[m].version + 1
         /\ \A k \in DOMAIN nodes : k # m => nodes'[k] = nodes[k]
<1>1. /\ nodes \in [DOMAIN nodes -> Entries] /\ DOMAIN nodes \subseteq Machines /\ nodes[m].version \in 0..MaxVersions
      /\ MaxVersions \in Nat
  BY MachineFacts
<1>2. /\ nodes[m].version < MaxVersions
      /\ nodes' = [nodes EXCEPT ![m] = [status |-> s, version |-> nodes[m].version + 1]]
  BY DEF Write
<1> DEFINE e == [status |-> s, version |-> nodes[m].version + 1]
<1>3. e \in Entries /\ e.status = s /\ e.version = nodes[m].version + 1 /\ e.version > nodes[m].version
  BY <1>1, <1>2 DEF Entries
<1>4. nodes' = [nodes EXCEPT ![m] = e]
  BY <1>2
<1> HIDE DEF e
<1>5. /\ nodes' \in [DOMAIN nodes -> Entries] /\ DOMAIN nodes' = DOMAIN nodes /\ nodes'[m] = e
      /\ \A k \in DOMAIN nodes : k # m => nodes'[k] = nodes[k]
  BY <1>1, <1>3, <1>4
<1>6. nodes' # nodes
  BY <1>1, <1>3, <1>5
<1>7. nodes' \in Listings
  BY <1>1, <1>5 DEF Listings
<1>8. QED
  BY <1>1, <1>3, <1>5, <1>6, <1>7 DEF Grown

LEMMA StayingGrows == ASSUME MachinesInv, nodes' = nodes PROVE Grown
  BY MachineFacts DEF Grown, MachinesInv, CallsAreTyped

LEMMA RegisterGrows == ASSUME MachinesInv, NEW m \in Machines, Registers(m) PROVE Grown
<1>1. nodes \in [DOMAIN nodes -> Entries] /\ DOMAIN nodes \subseteq Machines /\ MaxVersions \in Nat
  BY MachineFacts
<1>2. m \notin DOMAIN nodes
  BY DEF Registers
<1>3. [status |-> "active", version |-> 0] \in Entries
  BY <1>1 DEF Entries, Status
<1>4. nodes' = [k \in DOMAIN nodes \cup {m} |-> IF k = m THEN [status |-> "active", version |-> 0] ELSE nodes[k]]
  BY DEF Registers
<1>5. nodes' \in [DOMAIN nodes \cup {m} -> Entries]
  BY <1>1, <1>3, <1>4
<1>6. DOMAIN nodes' = DOMAIN nodes \cup {m} /\ \A k \in DOMAIN nodes : nodes'[k] = nodes[k]
  BY <1>2, <1>4
<1>7. nodes' \in Listings
  BY <1>1, <1>5 DEF Listings
<1>8. QED
  BY <1>1, <1>5, <1>6, <1>7 DEF Grown

(* What was true once stays so. *)
LEMMA OnceStays ==
  ASSUME MachinesInv, Grown
  PROVE  /\ \A m, e : Once(m, e) => Once(m, e)'
         /\ workers' = workers => RowsWereTrue'
         /\ pendingRemoval' = pendingRemoval /\ command' = command => DialogsAreOfMachines'
         /\ \A c \in calls : CallKnows(c)'
<1>1. \A m \in DOMAIN nodes :
        /\ m \in DOMAIN nodes' /\ nodes[m].version \in 0..MaxVersions /\ nodes'[m].version \in 0..MaxVersions
        /\ nodes'[m] = nodes[m] \/ nodes'[m].version > nodes[m].version
  BY MachineFacts DEF Grown, Entries
<1>2. MaxVersions \in Nat
  BY MachineFacts
<1>3. ASSUME NEW m, NEW e, Once(m, e) PROVE Once(m, e)'
  <2>1. m \in DOMAIN nodes /\ e.version \in 0..MaxVersions
    BY <1>3 DEF Once, Entries
  <2>2. QED
    BY <1>1, <1>2, <1>3, <2>1 DEF Once
<1>4. workers' = workers => RowsWereTrue'
  BY <1>3 DEF MachinesInv, RowsWereTrue, Table
<1>5. pendingRemoval' = pendingRemoval /\ command' = command => DialogsAreOfMachines'
  BY <1>1 DEF MachinesInv, DialogsAreOfMachines
<1>6. ASSUME NEW c \in calls PROVE CallKnows(c)'
  <2>1. CallKnows(c) /\ c \in Call
    BY MachineFacts DEF MachinesInv, CallsKnow
  <2>2. \A m \in Machines : c.known[m] \in -1..MaxVersions
    BY <2>1 DEF Call
  <2>3. \A m \in Machines : c.known[m] = -1 \/ (m \in DOMAIN nodes' /\ c.known[m] <= nodes'[m].version)
    BY <1>1, <1>2, <2>1, <2>2 DEF CallKnows
  <2>4. c.do = "list" /\ c.at = "answered" =>
          \A m \in DOMAIN c.answer : Once(m, c.answer[m])' /\ c.known[m] <= c.answer[m].version
    BY <1>3, <2>1 DEF CallKnows
  <2>5. c.do \notin {"list", "key"} => c.machine \in DOMAIN nodes /\ c.machine \in DOMAIN nodes'
    BY <1>1, <2>1 DEF CallKnows
  <2>6. c.do \in Actions /\ c.at = "answered" => Once(c.machine, c.answer)' /\ c.known[c.machine] <= c.answer.version
    BY <1>3, <2>1 DEF CallKnows
  <2>7. c.at = "sent" /\ c.do \in {"activate", "deactivate", "command"} /\ c.known[c.machine] = nodes'[c.machine].version =>
          nodes'[c.machine] = nodes[c.machine]
    <3>1. SUFFICES ASSUME c.do \in {"activate", "deactivate", "command"},
                          c.known[c.machine] = nodes'[c.machine].version
                   PROVE  ~(nodes'[c.machine].version > nodes[c.machine].version)
      BY <1>1, <2>5
    <3>2. c.machine \in Machines /\ c.machine \in DOMAIN nodes
      BY <2>5, <3>1, MachineFacts
    <3>3. c.known[c.machine] = -1 \/ c.known[c.machine] <= nodes[c.machine].version
      BY <2>1, <3>2 DEF CallKnows
    <3>4. QED
      BY <1>1, <1>2, <2>2, <3>1, <3>2, <3>3
  <2>8. QED
    BY <2>1, <2>3, <2>4, <2>5, <2>6, <2>7 DEF CallKnows
<1>7. QED
  BY <1>3, <1>4, <1>5, <1>6

(* The server handles a request, and its answer is of now. *)
LEMMA AnswerKeepsMachines ==
  ASSUME MachinesInv, Grown, NEW c \in calls, NEW at \in {"answered", "refused"},
         NEW a \in {<<>>} \cup Entries \cup Listings, Answer(c, at, a),
         UNCHANGED <<pageStateVars, dialogVars, presses>>, newKeys \subseteq newKeys',
         c.do = "list" /\ at = "answered" => \A m \in DOMAIN a : Once(m, a[m])' /\ c.known[m] <= a[m].version,
         c.do \in Actions /\ at = "answered" => Once(c.machine, a)' /\ c.known[c.machine] <= a.version,
         c.do = "reset" /\ at = "answered" => [machine |-> c.machine, modal |-> c.modal] \in newKeys'
  PROVE  MachinesInv'
<1>1. PICK d : d = [c EXCEPT !.at = at, !.answer = a]
  OBVIOUS
<1>2. c \in Call /\ calls' = (calls \ {c}) \cup {d}
  BY <1>1, MachineFacts DEF Answer
<1>3. /\ d \in Call /\ d.page = c.page /\ d.n = c.n /\ d.do = c.do /\ d.machine = c.machine /\ d.modal = c.modal
      /\ d.known = c.known /\ d.at = at /\ d.answer = a
  BY <1>1, <1>2 DEF Call
<1>4. /\ UNCHANGED <<workers, reading, actionError, pendingRemoval, command, runCommand, resetCommand, resetting,
                     modal, join, presses>>
  BY DEF pageStateVars, dialogVars, commandVars
<1>5. MachinesTypeOK'
  <2>1. \A b \in calls' : b.page \in MachinePages /\ b.n \in 1..presses
    BY <1>2, <1>3 DEF MachinesInv, MachinesTypeOK
  <2>2. QED
    BY <1>4, <2>1 DEF MachinesInv, MachinesTypeOK, Grown, Table
<1>6. CallsAreTyped'
  BY <1>2, <1>3, <1>4 DEF MachinesInv, CallsAreTyped, Grown
<1>7. RowsWereTrue' /\ DialogsAreOfMachines'
  BY <1>4, OnceStays
<1>8. CallsKnow'
  <2>1. CallKnows(d)'
    <3>1. CallKnows(c)'
      BY OnceStays
    <3>2. QED
      BY <1>3, <3>1 DEF CallKnows
  <2>2. QED
    BY <1>2, <2>1, OnceStays DEF CallsKnow
<1>9. CallsAreApart'
  BY <1>2, <1>3 DEF MachinesInv, CallsAreApart
<1>10. CommandsAre'
  BY <1>2, <1>3, <1>4 DEF MachinesInv, CommandsAre, CommandIs
<1>11. KeysAre'
  BY <1>2, <1>3, <1>4 DEF MachinesInv, KeysAre
<1>12. QED
  BY <1>5, <1>6, <1>7, <1>8, <1>9, <1>10, <1>11 DEF MachinesInv

(* A step of the machines alone. *)
LEMMA GrowthKeepsMachines ==
  ASSUME MachinesInv, Grown, UNCHANGED <<pageStateVars, dialogVars, calls, presses, newKeys>>
  PROVE  MachinesInv'
<1>1. /\ UNCHANGED <<workers, reading, actionError, pendingRemoval, command, runCommand, resetCommand, resetting,
                     modal, join, calls, presses, newKeys>>
  BY DEF pageStateVars, dialogVars, commandVars
<1>2. MachinesTypeOK' /\ CallsAreTyped'
  BY <1>1 DEF MachinesInv, MachinesTypeOK, CallsAreTyped, Grown, Table
<1>3. RowsWereTrue' /\ DialogsAreOfMachines' /\ CallsKnow'
  BY <1>1, OnceStays DEF CallsKnow
<1>4. CallsAreApart' /\ CommandsAre' /\ KeysAre'
  BY <1>1 DEF MachinesInv, CallsAreApart, CommandsAre, CommandIs, KeysAre
<1>5. QED
  BY <1>2, <1>3, <1>4 DEF MachinesInv

LEMMA MachinesGrow ==
  ASSUME MachinesInv, NEW m \in Machines, Registers(m) \/ LoopWrites(m)
  PROVE  MachinesInv'
<1>1. CASE Registers(m)
  <2>1. UNCHANGED <<pageStateVars, dialogVars, calls, presses, newKeys>>
    BY <1>1 DEF Registers
  <2>2. QED
    BY <1>1, <2>1, RegisterGrows, GrowthKeepsMachines
<1>2. CASE LoopWrites(m)
  <2>1. m \in DOMAIN nodes /\ UNCHANGED <<pageStateVars, dialogVars, calls, presses, newKeys>>
    BY <1>2 DEF LoopWrites
  <2>2. PICK s \in LoopStatus : Write(m, s)
    BY <1>2 DEF LoopWrites
  <2>3. s \in Status
    BY DEF Status
  <2>4. Grown
    BY <2>1, <2>2, <2>3, WriteGrows
  <2>5. QED
    BY <2>1, <2>4, GrowthKeepsMachines
<1>3. QED
  BY <1>1, <1>2

(* An answer that writes tells of what it wrote, an answer that does not   *)
(* of what is there.                                                       *)
LEMMA ServerKeepsMachines ==
  ASSUME MachinesInv, NEW c \in calls, ServerHandles(c) PROVE MachinesInv'
<1>1. /\ c \in Call /\ c.at = "sent" /\ DOMAIN nodes \subseteq Machines /\ MaxVersions \in Nat
      /\ c.do \notin {"list", "key"} => c.machine \in DOMAIN nodes
      /\ \A m \in Machines : c.known[m] = -1 \/ (m \in DOMAIN nodes /\ c.known[m] <= nodes[m].version)
      /\ \A m \in Machines : c.known[m] \in -1..MaxVersions
  BY MachineFacts DEF ServerHandles, MachinesInv, CallsKnow, CallKnows, Call
<1>2. \A m \in DOMAIN nodes : /\ nodes[m] \in Entries /\ nodes[m].version \in 0..MaxVersions
                             /\ m \in Machines /\ c.known[m] <= nodes[m].version
  <2>1. \A m \in DOMAIN nodes : nodes[m] \in Entries /\ nodes[m].version \in 0..MaxVersions /\ m \in Machines
    BY MachineFacts
  <2>2. QED
    BY <1>1, <2>1
<1>3. UNCHANGED <<pageStateVars, dialogVars, presses>>
  BY DEF ServerHandles
<1>4. <<>> \in {<<>>} \cup Entries \cup Listings /\ nodes \in {<<>>} \cup Entries \cup Listings
  BY DEF MachinesInv, CallsAreTyped
<1>5. CASE TurnDown(c)
  <2>1. Answer(c, "refused", <<>>) /\ nodes' = nodes /\ newKeys' = newKeys
    BY <1>5 DEF TurnDown
  <2>2. Grown
    BY <2>1, StayingGrows
  <2>3. QED
    BY <1>3, <1>4, <2>1, <2>2, AnswerKeepsMachines
<1>6. ASSUME NEW s \in Status, c.do \in Actions, Write(c.machine, s), Answer(c, "answered", nodes'[c.machine]),
             newKeys' = newKeys
      PROVE  MachinesInv'
  <2>1. /\ c.machine \in DOMAIN nodes /\ c.do # "list" /\ c.do # "reset"
    BY <1>1, <1>6 DEF Actions
  <2>2. /\ Grown /\ nodes'[c.machine] \in Entries /\ nodes'[c.machine].version = nodes[c.machine].version + 1
        /\ DOMAIN nodes' = DOMAIN nodes
    BY <1>6, <2>1, WriteGrows
  <2>3. c.known[c.machine] <= nodes'[c.machine].version /\ nodes'[c.machine].version \in Int
    BY <1>1, <1>2, <2>1, <2>2
  <2>4. PICK e : e = nodes'[c.machine]
    OBVIOUS
  <2>5. /\ e \in {<<>>} \cup Entries \cup Listings /\ Answer(c, "answered", e) /\ Once(c.machine, e)'
        /\ c.known[c.machine] <= e.version
    BY <1>6, <2>1, <2>2, <2>3, <2>4 DEF Once
  <2>6. QED
    BY <1>3, <1>6, <2>1, <2>2, <2>5, AnswerKeepsMachines
<1>7. CASE list_workers(c)
  <2>1. c.do = "list" /\ Answer(c, "answered", nodes) /\ nodes' = nodes /\ newKeys' = newKeys
    BY <1>7 DEF list_workers
  <2>2. Grown
    BY <2>1, StayingGrows
  <2>3. PICK a : a = nodes
    OBVIOUS
  <2>4. \A m \in DOMAIN a : Once(m, a[m])' /\ c.known[m] <= a[m].version
    BY <1>2, <2>1, <2>3 DEF Once
  <2>5. a \in {<<>>} \cup Entries \cup Listings /\ Answer(c, "answered", a) /\ c.do \notin Actions
    BY <1>4, <2>1, <2>3 DEF Actions
  <2>6. QED
    BY <1>3, <2>1, <2>2, <2>4, <2>5, AnswerKeepsMachines
<1>8. CASE activate_worker_node(c)
  <2>1. c.do = "activate" /\ c.do \in Actions /\ newKeys' = newKeys /\ Answer(c, "answered", nodes'[c.machine])
    BY <1>8 DEF activate_worker_node, Actions
  <2>2. CASE nodes[c.machine].status = "deactivated"
    <3>1. Write(c.machine, "active") /\ "active" \in Status
      BY <1>8, <2>2 DEF activate_worker_node, Status
    <3>2. QED
      BY <1>6, <2>1, <3>1
  <2>3. CASE nodes[c.machine].status # "deactivated"
    <3>1. nodes' = nodes
      BY <1>8, <2>3 DEF activate_worker_node
    <3>2. PICK e : e = nodes[c.machine]
      OBVIOUS
    <3>3. Grown /\ Answer(c, "answered", e) /\ c.do # "list" /\ c.do # "reset"
      BY <2>1, <3>1, <3>2, StayingGrows
    <3>4. e \in {<<>>} \cup Entries \cup Listings /\ Once(c.machine, e)' /\ c.known[c.machine] <= e.version
      BY <1>1, <1>2, <2>1, <3>1, <3>2 DEF Once
    <3>5. QED
      BY <1>3, <2>1, <3>3, <3>4, AnswerKeepsMachines
  <2>4. QED
    BY <2>2, <2>3
<1>9. CASE deactivate_worker_node(c) \/ remove_worker_node(c)
  <2>1. CASE TurnDown(c)
    BY <1>5, <2>1
  <2>2. CASE ~TurnDown(c)
    <3>1. /\ c.do \in Actions /\ newKeys' = newKeys /\ Answer(c, "answered", nodes'[c.machine])
          /\ Write(c.machine, "deactivated") \/ Write(c.machine, "removed")
      BY <1>9, <2>2 DEF deactivate_worker_node, remove_worker_node, Actions
    <3>2. "deactivated" \in Status /\ "removed" \in Status
      BY DEF Status
    <3>3. QED
      BY <1>6, <3>1, <3>2
  <2>3. QED
    BY <2>1, <2>2
<1>10. CASE get_worker_command(c) \/ reset_worker_key(c) \/ generate_worker_key(c)
  <2>1. CASE TurnDown(c)
    BY <1>5, <2>1
  <2>2. CASE ~TurnDown(c)
    <3>1. /\ c.do \in {"command", "reset", "key"} /\ nodes' = nodes /\ Answer(c, "answered", <<>>)
          /\ newKeys \subseteq newKeys'
          /\ c.do = "reset" => [machine |-> c.machine, modal |-> c.modal] \in newKeys'
      BY <1>10, <2>2 DEF get_worker_command, reset_worker_key, generate_worker_key
    <3>2. Grown /\ c.do # "list" /\ c.do \notin Actions
      BY <3>1, StayingGrows DEF Actions
    <3>3. QED
      BY <1>3, <1>4, <3>1, <3>2, AnswerKeepsMachines
  <2>3. QED
    BY <2>1, <2>2
<1>11. QED
  BY <1>7, <1>8, <1>9, <1>10 DEF ServerHandles

-----------------------------------------------------------------------------
(* An answer is heard: it is on its way no more, and what the page makes   *)
(* of it was true once.                                                    *)
LEMMA HeardKeepsCalls ==
  ASSUME MachinesInv, NEW c \in calls, Heard(c), UNCHANGED <<nodes, presses, newKeys>>
  PROVE  /\ calls' \subseteq Call /\ \A b \in calls' : b.page \in MachinePages /\ b.n \in 1..presses'
         /\ CallsKnow' /\ CallsAreApart' /\ nodes' \in Listings /\ presses' \in Nat
         /\ DOMAIN nodes' \subseteq Machines /\ \A m \in DOMAIN nodes' : nodes'[m] \in Entries
<1>1. calls' \subseteq calls
  BY DEF Heard
<1>2. ASSUME NEW b \in calls PROVE CallKnows(b)'
  BY OnceStays, StayingGrows
<1>3. CallsKnow'
  BY <1>1, <1>2 DEF CallsKnow
<1>4. QED
  BY <1>1, <1>3 DEF MachinesInv, MachinesTypeOK, CallsAreTyped, CallsAreApart

LEMMA ListKeepsMachines ==
  ASSUME MachinesInv, NEW c \in calls, Heard(c), UNCHANGED <<nodes, presses, newKeys>>,
         ListArrives(c) \/ ListFails(c)
  PROVE  MachinesInv'
<1>1. /\ calls' \subseteq calls /\ calls' \subseteq Call /\ \A b \in calls' : b.page \in MachinePages /\ b.n \in 1..presses'
      /\ CallsKnow' /\ CallsAreApart' /\ nodes' \in Listings /\ presses' \in Nat
      /\ DOMAIN nodes' \subseteq Machines /\ \A m \in DOMAIN nodes' : nodes'[m] \in Entries
  BY HeardKeepsCalls DEF Heard
<1>2. c.page \in MachinePages /\ DOMAIN workers = MachinePages /\ MachinesTypeOK /\ DOMAIN nodes \subseteq Machines
  BY MachineFacts DEF MachinesInv, MachinesTypeOK, CallsAreTyped
<1>3. PICK a : /\ workers' = [workers EXCEPT ![c.page] = a]
               /\ \A m \in DOMAIN a : Once(m, a[m]) /\ m \in Machines
  <2>1. CASE ListArrives(c)
    <3>1. /\ c.do = "list" /\ c.at = "answered" /\ workers' = [workers EXCEPT ![c.page] = c.answer]
          /\ CallKnows(c)
      BY <2>1 DEF ListArrives, MachinesInv, CallsKnow
    <3>2. \A m \in DOMAIN c.answer : Once(m, c.answer[m]) /\ m \in Machines
      BY <1>2, <3>1 DEF CallKnows, Once
    <3>3. QED
      BY <3>1, <3>2
  <2>2. CASE ListFails(c)
    <3>1. workers' = [workers EXCEPT ![c.page] = <<>>]
      BY <2>2 DEF ListFails
    <3>2. DOMAIN <<>> = {}
      OBVIOUS
    <3>3. QED
      BY <3>1, <3>2
  <2>3. QED
    BY <2>1, <2>2
<1>4. /\ DOMAIN workers' = MachinePages /\ workers'[c.page] = a
      /\ \A p \in MachinePages : p # c.page => workers'[p] = workers[p]
  BY <1>2, <1>3
<1>5. RowsWereTrue'
  <2>1. ASSUME NEW p \in MachinePages, NEW m \in DOMAIN workers'[p] PROVE Once(m, workers'[p][m])
    BY <1>3, <1>4 DEF MachinesInv, RowsWereTrue, Table
  <2>2. QED
    BY <2>1 DEF RowsWereTrue, Table, Once
<1>6. \A p \in MachinePages : DOMAIN workers'[p] \subseteq Machines /\ \A m \in DOMAIN workers'[p] : workers'[p][m] \in Entries
  BY <1>1, <1>5 DEF RowsWereTrue, Table, Once
<1>7. CASE ListArrives(c)
  <2>1. /\ reading' = [reading EXCEPT ![c.page] = "read"]
        /\ UNCHANGED <<actionError, pendingRemoval, command, runCommand, resetCommand, resetting, modal, join>>
    BY <1>7 DEF ListArrives, dialogVars, commandVars
  <2>2. MachinesTypeOK'
    BY <1>1, <1>2, <1>6, <2>1 DEF MachinesTypeOK, Table
  <2>3. CallsAreTyped' /\ DialogsAreOfMachines'
    BY <1>1, <1>4, <2>1 DEF CallsAreTyped, DialogsAreOfMachines, MachinesInv
  <2>4. CommandsAre' /\ KeysAre'
    BY <1>1, <2>1 DEF MachinesInv, CommandsAre, CommandIs, KeysAre
  <2>5. QED
    BY <1>1, <1>5, <2>2, <2>3, <2>4 DEF MachinesInv
<1>8. CASE ListFails(c)
  <2>1. /\ reading' = [reading EXCEPT ![c.page] = "failed"]
        /\ pendingRemoval' = [pendingRemoval EXCEPT ![c.page] = NoMachine]
        /\ UNCHANGED <<actionError, modal>>
    BY <1>8 DEF ListFails
  <2>2. \/ /\ command' = NoMachine /\ runCommand' = FALSE /\ resetCommand' = FALSE /\ resetting' = FALSE
           /\ join' = NewJoin(join.mount + 1)
        \/ UNCHANGED <<command, runCommand, resetCommand, resetting, join>>
    BY <1>8 DEF ListFails
  <2>3. \/ UNCHANGED join
        \/ /\ join'.open = FALSE /\ join'.step = "form" /\ join'.loading = FALSE /\ join'.key = 0
           /\ join'.mount = join.mount + 1
    BY <2>2 DEF NewJoin
  <2>4. join' \in [open : BOOLEAN, step : {"form", "instructions"}, loading : BOOLEAN, key : 0..MaxPresses, mount : Nat]
    <3>1. CASE UNCHANGED join
      BY <3>1, MachineFacts
    <3>2. CASE join' = NewJoin(join.mount + 1)
      <4>1. join.mount \in Nat /\ 0 \in 0..MaxPresses
        BY MachineFacts
      <4>2. join.mount + 1 \in Nat
        BY <4>1
      <4>3. QED
        BY <3>2, <4>1, <4>2 DEF NewJoin
    <3>3. QED
      BY <2>2, <3>1, <3>2
  <2>5. MachinesTypeOK'
    <3>1. pendingRemoval' \in [MachinePages -> Machines \cup {NoMachine}]
      BY <1>2, <2>1 DEF MachinesTypeOK
    <3>2. QED
      BY <1>1, <1>2, <1>6, <2>1, <2>2, <2>4, <3>1 DEF MachinesTypeOK, Table
  <2>6. CallsAreTyped' /\ DialogsAreOfMachines'
    <3>1. \A p \in MachinePages : pendingRemoval'[p] = NoMachine \/ pendingRemoval'[p] = pendingRemoval[p]
      BY <1>2, <2>1 DEF MachinesTypeOK
    <3>2. QED
      BY <1>1, <1>4, <2>1, <2>2, <3>1 DEF CallsAreTyped, DialogsAreOfMachines, MachinesInv
  <2>7. CommandsAre'
    BY <1>1, <2>1, <2>2 DEF MachinesInv, CommandsAre, CommandIs
  <2>8. KeysAre'
    <3>1. ASSUME NEW b \in calls, b.do = "key" PROVE b.modal <= join.mount /\ b.modal \in Nat /\ join.mount \in Nat
      BY <3>1, MachineFacts DEF MachinesInv, KeysAre, Call
    <3>2. QED
      BY <1>1, <2>3, <3>1 DEF MachinesInv, KeysAre, CallsAreTyped
  <2>9. QED
    BY <1>1, <1>5, <2>5, <2>6, <2>7, <2>8 DEF MachinesInv
<1>9. QED
  BY <1>7, <1>8

LEMMA ActionKeepsMachines ==
  ASSUME MachinesInv, NEW c \in calls, Heard(c), UNCHANGED <<nodes, presses, newKeys>>,
         ActionArrives(c) \/ ActionFails(c)
  PROVE  MachinesInv'
<1>1. /\ calls' \subseteq calls /\ calls' \subseteq Call /\ \A b \in calls' : b.page \in MachinePages /\ b.n \in 1..presses'
      /\ CallsKnow' /\ CallsAreApart' /\ nodes' \in Listings /\ presses' \in Nat
      /\ DOMAIN nodes' \subseteq Machines /\ \A m \in DOMAIN nodes' : nodes'[m] \in Entries
  BY HeardKeepsCalls DEF Heard
<1>2. c.page \in MachinePages /\ DOMAIN workers = MachinePages /\ MachinesTypeOK /\ DOMAIN nodes \subseteq Machines
  BY MachineFacts DEF MachinesInv, MachinesTypeOK, CallsAreTyped
<1>3. UNCHANGED <<reading, pendingRemoval, command, runCommand, resetCommand, resetting, modal, join>>
  BY DEF ActionArrives, ActionFails, dialogVars, commandVars
<1>4. actionError' \in [MachinePages -> BOOLEAN]
  BY <1>2 DEF ActionArrives, ActionFails, MachinesTypeOK
<1>5. /\ DOMAIN workers' = MachinePages
      /\ \A p \in MachinePages : \A m \in DOMAIN workers'[p] : Once(m, workers'[p][m])
  <2>1. CASE ActionArrives(c)
    <3>1. Once(c.machine, c.answer)
      BY <2>1 DEF ActionArrives, MachinesInv, CallsKnow, CallKnows, Actions
    <3>2. PICK a : a = [m \in DOMAIN workers[c.page] |-> IF m = c.machine THEN c.answer ELSE workers[c.page][m]]
      OBVIOUS
    <3>3. workers' = [workers EXCEPT ![c.page] = a]
      BY <2>1, <3>2 DEF ActionArrives
    <3>4. \A m \in DOMAIN a : Once(m, a[m])
      BY <1>2, <3>1, <3>2 DEF MachinesInv, RowsWereTrue, Table
    <3>5. QED
      BY <1>2, <3>3, <3>4 DEF MachinesInv, RowsWereTrue, Table
  <2>2. CASE ActionFails(c)
    BY <1>2, <2>2 DEF ActionFails, MachinesInv, RowsWereTrue, Table
  <2>3. QED
    BY <2>1, <2>2
<1>6. RowsWereTrue'
  BY <1>5 DEF RowsWereTrue, Table, Once
<1>7. \A p \in MachinePages : DOMAIN workers'[p] \subseteq Machines /\ \A m \in DOMAIN workers'[p] : workers'[p][m] \in Entries
  BY <1>2, <1>5 DEF Once
<1>8. MachinesTypeOK'
  BY <1>1, <1>2, <1>3, <1>4, <1>7 DEF MachinesTypeOK, Table
<1>9. CallsAreTyped' /\ DialogsAreOfMachines'
  BY <1>1, <1>3, <1>5 DEF CallsAreTyped, DialogsAreOfMachines, MachinesInv
<1>10. CommandsAre' /\ KeysAre'
  BY <1>1, <1>3 DEF MachinesInv, CommandsAre, CommandIs, KeysAre
<1>11. QED
  BY <1>1, <1>6, <1>8, <1>9, <1>10 DEF MachinesInv

LEMMA ModalKeepsMachines ==
  ASSUME MachinesInv, NEW c \in calls, Heard(c), UNCHANGED <<nodes, presses, newKeys>>,
         CommandArrives(c) \/ KeyArrives(c)
  PROVE  MachinesInv'
<1>1. /\ calls' \subseteq calls /\ calls' \subseteq Call /\ \A b \in calls' : b.page \in MachinePages /\ b.n \in 1..presses'
      /\ CallsKnow' /\ CallsAreApart' /\ nodes' \in Listings /\ presses' \in Nat
      /\ DOMAIN nodes' \subseteq Machines /\ \A m \in DOMAIN nodes' : nodes'[m] \in Entries
  BY HeardKeepsCalls DEF Heard
<1>2. /\ UNCHANGED <<workers, reading, actionError, pendingRemoval, command, modal>> /\ MachinesTypeOK
      /\ DOMAIN workers = MachinePages
  BY DEF CommandArrives, KeyArrives, pageStateVars, commandVars, MachinesInv, CallsAreTyped
<1>3. RowsWereTrue' /\ DialogsAreOfMachines' /\ CallsAreTyped'
  BY <1>1, <1>2 DEF MachinesInv, RowsWereTrue, DialogsAreOfMachines, CallsAreTyped, Once, Table
<1>4. CASE CommandArrives(c)
  <2>1. join' = join /\ c.do \in {"command", "reset"}
    BY <1>4 DEF CommandArrives
  <2>2. \/ UNCHANGED <<runCommand, resetCommand, resetting>>
        \/ /\ command # NoMachine /\ c.modal = modal
           /\ runCommand' \in BOOLEAN /\ resetCommand' \in BOOLEAN /\ resetting' \in BOOLEAN
           /\ resetCommand' => resetCommand \/ (c.do = "reset" /\ c.at = "answered")
    BY <1>4 DEF CommandArrives
  <2>3. MachinesTypeOK'
    BY <1>1, <1>2, <2>1, <2>2 DEF MachinesTypeOK, Table
  <2>4. KeysAre'
    BY <1>1, <2>1 DEF MachinesInv, KeysAre
  <2>5. CommandsAre'
    <3>1. CommandIs(c)
      BY DEF MachinesInv, CommandsAre
    <3>2. resetCommand' => [machine |-> command, modal |-> modal] \in newKeys
      BY <2>2, <3>1 DEF CommandIs, MachinesInv, CommandsAre
    <3>3. QED
      BY <1>1, <1>2, <3>2 DEF MachinesInv, CommandsAre, CommandIs
  <2>6. QED
    BY <1>1, <1>3, <2>3, <2>4, <2>5 DEF MachinesInv
<1>5. CASE KeyArrives(c)
  <2>1. UNCHANGED <<runCommand, resetCommand, resetting>> /\ c.do = "key"
    BY <1>5 DEF KeyArrives, commandVars
  <2>2. CommandsAre'
    BY <1>1, <1>2, <2>1 DEF MachinesInv, CommandsAre, CommandIs
  <2>3. /\ c.modal <= join.mount /\ c.n <= MaxPresses /\ c.n \in 1..presses /\ presses \in Nat /\ MaxPresses \in Nat
        /\ join \in [open : BOOLEAN, step : {"form", "instructions"}, loading : BOOLEAN, key : 0..MaxPresses, mount : Nat]
    BY <2>1, MachineFacts DEF MachinesInv, KeysAre
  <2>4. \/ join' = join
        \/ c.modal = join.mount /\ join' = [join EXCEPT !.step = "instructions", !.loading = FALSE, !.key = c.n]
        \/ c.modal = join.mount /\ join' = [join EXCEPT !.loading = FALSE]
    BY <1>5 DEF KeyArrives
  <2>5. /\ join' \in [open : BOOLEAN, step : {"form", "instructions"}, loading : BOOLEAN, key : 0..MaxPresses, mount : Nat]
        /\ join'.mount = join.mount /\ (join'.key = join.key \/ join'.key = c.n)
        /\ join'.step = "instructions" => join'.key = c.n \/ (join.step = "instructions" /\ join'.key = join.key)
    <3>1. CASE join' = join
      BY <2>3, <3>1
    <3>2. CASE join' = [join EXCEPT !.step = "instructions", !.loading = FALSE, !.key = c.n]
      <4>1. c.n \in 0..MaxPresses
        BY <2>3
      <4>2. PICK j : j = [join EXCEPT !.step = "instructions", !.loading = FALSE, !.key = c.n]
        OBVIOUS
      <4>3. /\ j \in [open : BOOLEAN, step : {"form", "instructions"}, loading : BOOLEAN, key : 0..MaxPresses, mount : Nat]
            /\ j.mount = join.mount /\ j.key = c.n
        BY <2>3, <4>1, <4>2
      <4>4. QED
        BY <3>2, <4>2, <4>3
    <3>3. CASE join' = [join EXCEPT !.loading = FALSE]
      <4>1. PICK j : j = [join EXCEPT !.loading = FALSE]
        OBVIOUS
      <4>2. /\ j \in [open : BOOLEAN, step : {"form", "instructions"}, loading : BOOLEAN, key : 0..MaxPresses, mount : Nat]
            /\ j.mount = join.mount /\ j.key = join.key /\ j.step = join.step
        BY <2>3, <4>1
      <4>3. QED
        BY <3>3, <4>1, <4>2
    <3>4. QED
      BY <2>4, <3>1, <3>2, <3>3
  <2>6. join'.mount = join.mount /\ join'.key <= presses /\ (join'.step = "instructions" => join'.key # 0)
    BY <2>3, <2>5 DEF MachinesInv, KeysAre
  <2>7. join' = join \/ \A b \in calls' : ~(b.do = "key" /\ b.modal = join.mount)
    <3>1. SUFFICES ASSUME c.modal = join.mount, NEW b \in calls', b.do = "key", b.modal = join.mount PROVE FALSE
      BY <2>4
    <3>2. b = c
      BY <1>1, <2>1, <3>1 DEF MachinesInv, KeysAre
    <3>3. QED
      BY <3>1, <3>2 DEF Heard
  <2>8. KeysAre'
    BY <1>1, <2>6, <2>7 DEF MachinesInv, KeysAre
  <2>9. MachinesTypeOK'
    BY <1>1, <1>2, <2>1, <2>5 DEF MachinesTypeOK, Table
  <2>10. QED
    BY <1>1, <1>3, <2>2, <2>8, <2>9 DEF MachinesInv
<1>6. QED
  BY <1>4, <1>5

-----------------------------------------------------------------------------
(* What a person does on a page with no request for it.                    *)
LEMMA DialogsKeepMachines ==
  ASSUME MachinesInv,
         \/ OpenJoin \/ CloseCommand
         \/ \E p \in MachinePages : CloseRemoval(p) \/ \E m \in Machines : OpenRemoval(p, m)
  PROVE  MachinesInv'
<1>1. /\ UNCHANGED <<nodes, workers, reading, actionError, modal, calls, presses, newKeys>>
      /\ MachinesTypeOK /\ CallsAreTyped /\ DialogsAreOfMachines
  BY DEF OpenJoin, CloseCommand, CloseRemoval, OpenRemoval, pageStateVars, dialogVars, commandVars, MachinesInv
<1>2. CallsAreTyped' /\ RowsWereTrue' /\ CallsKnow' /\ CallsAreApart'
  BY <1>1 DEF MachinesInv, CallsAreTyped, RowsWereTrue, Table, Once, CallsKnow, CallKnows, CallsAreApart
<1>3. /\ join' \in [open : BOOLEAN, step : {"form", "instructions"}, loading : BOOLEAN, key : 0..MaxPresses, mount : Nat]
      /\ join'.step = join.step /\ join'.loading = join.loading /\ join'.key = join.key /\ join'.mount = join.mount
  <2>1. CASE join' = join
    BY <1>1, <2>1 DEF MachinesTypeOK
  <2>2. CASE join' = [join EXCEPT !.open = TRUE]
    BY <1>1, <2>2 DEF MachinesTypeOK
  <2>3. QED
    BY <2>1, <2>2 DEF OpenJoin, CloseCommand, CloseRemoval, OpenRemoval, dialogVars
<1>4. /\ {runCommand', resetCommand', resetting'} \subseteq BOOLEAN
      /\ UNCHANGED <<command, resetCommand>> \/ (command' = NoMachine /\ resetCommand' = FALSE)
  BY <1>1 DEF MachinesTypeOK, OpenJoin, CloseCommand, CloseRemoval, OpenRemoval, dialogVars, commandVars
<1>5. /\ pendingRemoval' \in [MachinePages -> Machines \cup {NoMachine}]
      /\ \A p \in MachinePages : pendingRemoval'[p] # NoMachine => pendingRemoval'[p] \in DOMAIN nodes
  <2>1. CASE pendingRemoval' = pendingRemoval
    BY <1>1, <2>1 DEF MachinesTypeOK, DialogsAreOfMachines
  <2>2. ASSUME NEW p \in MachinePages, CloseRemoval(p) \/ \E m \in Machines : OpenRemoval(p, m)
        PROVE  \E m \in Machines \cup {NoMachine} :
                 pendingRemoval' = [pendingRemoval EXCEPT ![p] = m] /\ (m = NoMachine \/ m \in DOMAIN nodes)
    BY <2>2 DEF CloseRemoval, OpenRemoval, MachinesInv, RowsWereTrue, Once
  <2>3. ASSUME NEW p \in MachinePages, NEW m \in Machines \cup {NoMachine}, m = NoMachine \/ m \in DOMAIN nodes,
               pendingRemoval' = [pendingRemoval EXCEPT ![p] = m]
        PROVE  /\ pendingRemoval' \in [MachinePages -> Machines \cup {NoMachine}]
               /\ \A q \in MachinePages : pendingRemoval'[q] # NoMachine => pendingRemoval'[q] \in DOMAIN nodes
    BY <1>1, <2>3 DEF MachinesTypeOK, DialogsAreOfMachines
  <2>4. CASE OpenJoin \/ CloseCommand
    BY <2>1, <2>4 DEF OpenJoin, CloseCommand, pageStateVars
  <2>5. QED
    BY <2>2, <2>3, <2>4
<1>6. MachinesTypeOK'
  BY <1>1, <1>3, <1>4, <1>5 DEF MachinesTypeOK, Table
<1>7. DialogsAreOfMachines' /\ CommandsAre' /\ KeysAre'
  BY <1>1, <1>3, <1>4, <1>5 DEF MachinesInv, DialogsAreOfMachines, CommandsAre, CommandIs, KeysAre
<1>8. QED
  BY <1>2, <1>6, <1>7 DEF MachinesInv

(* What a person does with a request for it. *)
LEMMA PressesKeepMachines ==
  ASSUME MachinesInv,
         \/ handleGetSetupKey \/ handlCloseModal \/ handleReset
         \/ \E m \in Machines : ShowCommand(m)
         \/ \E p \in MachinePages :
              SubmitRemoval(p) \/ \E m \in Machines : \E do \in {"activate", "deactivate"} : WorkerActions(p, m, do)
  PROVE  MachinesInv'
<1>1. /\ nodes' = nodes /\ UNCHANGED <<workers, newKeys>>
      /\ MachinesTypeOK /\ CallsAreTyped /\ DialogsAreOfMachines
  BY DEF handleGetSetupKey, handlCloseModal, handleReset, ShowCommand, SubmitRemoval, WorkerActions,
         pageStateVars, MachinesInv
<1>2. /\ presses \in Nat /\ modal \in Nat /\ MaxPresses \in Nat /\ calls \subseteq Call /\ \A b \in calls : b.n \in 1..presses
      /\ join \in [open : BOOLEAN, step : {"form", "instructions"}, loading : BOOLEAN, key : 0..MaxPresses, mount : Nat]
      /\ Volunteer \in MachinePages /\ NoMachine \notin Machines /\ DOMAIN nodes \subseteq Machines
  BY MachineFacts
<1>3. RowsWereTrue'
  BY <1>1 DEF MachinesInv, RowsWereTrue, Table, Once
(* Each gives the request; what is left of the invariant is the dialogs'. *)
<1> DEFINE Sends(c, do) ==
             /\ presses' = presses + 1 /\ presses < MaxPresses /\ presses' \in Nat /\ calls' \subseteq Call
             /\ \A b \in calls' : b.page \in MachinePages /\ b.n \in 1..presses'
             /\ CallsKnow' /\ CallsAreApart'
             /\ calls' = calls \cup {c} /\ c.do = do /\ c.n = presses + 1
<1>4. ASSUME NEW c, NEW do, Sends(c, do),
             reading' \in [MachinePages -> {"loading", "read", "failed"}],
             actionError' \in [MachinePages -> BOOLEAN],
             pendingRemoval' \in [MachinePages -> Machines \cup {NoMachine}],
             \A p \in MachinePages : pendingRemoval'[p] # NoMachine => pendingRemoval'[p] \in DOMAIN nodes,
             command' = NoMachine \/ command' \in DOMAIN nodes, {runCommand', resetCommand', resetting'} \subseteq BOOLEAN,
             join' \in [open : BOOLEAN, step : {"form", "instructions"}, loading : BOOLEAN, key : 0..MaxPresses, mount : Nat],
             modal' \in Nat, CommandsAre', KeysAre'
      PROVE  MachinesInv'
  <2>1. MachinesTypeOK'
    BY <1>1, <1>2, <1>4 DEF MachinesTypeOK, Table
  <2>2. CallsAreTyped' /\ DialogsAreOfMachines'
    BY <1>1, <1>4 DEF CallsAreTyped, DialogsAreOfMachines
  <2>3. QED
    BY <1>3, <1>4, <2>1, <2>2 DEF MachinesInv
(* Requests that are not about a dialog leave its part of the invariant.  *)
<1>5. ASSUME NEW c, NEW do \in {"list"} \cup Actions, Sends(c, do), UNCHANGED <<command, resetCommand, modal>>
      PROVE  CommandsAre'
  BY <1>1, <1>5 DEF MachinesInv, CommandsAre, CommandIs, Actions
<1>6. ASSUME NEW c, NEW do, do # "key", Sends(c, do), join' = join PROVE KeysAre'
  <2>1. join.key <= presses'
    BY <1>2, <1>6 DEF MachinesInv, KeysAre
  <2>2. QED
    BY <1>6, <2>1 DEF MachinesInv, KeysAre
<1>7. CASE handleGetSetupKey
  <2>1. /\ Send(Volunteer, "key", NoMachine, join.mount) /\ join' = [join EXCEPT !.loading = TRUE]
        /\ UNCHANGED <<reading, actionError, pendingRemoval, command, runCommand, resetCommand, resetting, modal>>
        /\ join.step = "form" /\ ~join.loading
    BY <1>2, <1>7 DEF handleGetSetupKey, pageStateVars, commandVars, JoinView
  <2>2. PICK c : Sends(c, "key") /\ c.modal = join.mount
    <3>1. /\ join.mount \in Nat /\ "key" \in {"list", "key", "command", "reset"} \cup Actions
          /\ "key" \in {"list", "key"} /\ "key" \notin {"activate", "deactivate", "command"}
          /\ NoMachine \in Machines \cup {NoMachine}
      BY <1>2
    <3>2. PICK do : do = "key"
      OBVIOUS
    <3>3. /\ do \in {"list", "key", "command", "reset"} \cup Actions /\ Send(Volunteer, do, NoMachine, join.mount)
          /\ do \notin {"list", "key"} => NoMachine \in DOMAIN nodes
          /\ do \notin {"activate", "deactivate", "command"}
      BY <2>1, <3>1, <3>2
    <3>4. \E c \in calls' : /\ calls' = calls \cup {c} /\ c.do = do /\ c.machine = NoMachine /\ c.modal = join.mount
                             /\ c.at = "sent" /\ c.n = presses + 1
      BY <1>1, <1>2, <3>1, <3>3, SendKeepsCalls
    <3>5. /\ presses' = presses + 1 /\ presses < MaxPresses
          /\ presses' \in Nat /\ calls' \subseteq Call
          /\ \A c \in calls' : c.page \in MachinePages /\ c.n \in 1..presses'
          /\ CallsKnow' /\ CallsAreApart'
      BY <1>1, <1>2, <3>1, <3>3, SendKeepsCalls
    <3>6. QED
      BY <3>2, <3>4, <3>5
  <2>3. /\ join' \in [open : BOOLEAN, step : {"form", "instructions"}, loading : BOOLEAN, key : 0..MaxPresses, mount : Nat]
        /\ join'.mount = join.mount /\ join'.loading = TRUE /\ join'.step = join.step /\ join'.key = join.key
    BY <1>2, <2>1
  <2>4. KeysAre'
    <3>1. \A b \in calls : b.do = "key" => b.modal # join.mount
      BY <2>1 DEF MachinesInv, KeysAre
    <3>2. join.key <= presses /\ presses + 1 > join.key /\ join.key <= presses' /\ presses + 1 <= MaxPresses
      BY <1>2, <2>2 DEF MachinesInv, KeysAre
    <3>3. join.mount <= join.mount
      BY <1>2
    <3>4. QED
      BY <2>1, <2>2, <2>3, <3>1, <3>2, <3>3 DEF MachinesInv, KeysAre
  <2>5. CommandsAre'
    BY <1>1, <2>1, <2>2 DEF MachinesInv, CommandsAre, CommandIs
  <2>6. QED
    BY <1>1, <1>2, <1>4, <2>1, <2>2, <2>3, <2>4, <2>5 DEF MachinesTypeOK, DialogsAreOfMachines
<1>8. CASE handlCloseModal
  <2>1. /\ Send(Volunteer, "list", NoMachine, 0)
        /\ reading' = [reading EXCEPT ![Volunteer] = "loading"]
        /\ join' = NewJoin(join.mount + 1) \/ join' = ClosedJoin(join)
        /\ UNCHANGED <<actionError, pendingRemoval, command, runCommand, resetCommand, resetting, modal>>
    BY <1>8 DEF handlCloseModal, commandVars
  <2>2. PICK c : Sends(c, "list")
    BY <1>1, <1>2, <2>1, SendKeepsCalls
  <2>3. /\ join' \in [open : BOOLEAN, step : {"form", "instructions"}, loading : BOOLEAN, key : 0..MaxPresses, mount : Nat]
        /\ join'.step = "form"
        /\ \/ join'.mount = join.mount + 1 /\ join'.key = 0
           \/ join'.mount = join.mount /\ join'.key = join.key /\ join'.loading = join.loading
    <3>1. CASE join' = NewJoin(join.mount + 1)
      <4>1. join.mount + 1 \in Nat /\ 0 \in 0..MaxPresses
        BY <1>2
      <4>2. QED
        BY <3>1, <4>1 DEF NewJoin
    <3>2. CASE join' = ClosedJoin(join)
      <4>1. PICK j : j = ClosedJoin(join)
        OBVIOUS
      <4>2. /\ j \in [open : BOOLEAN, step : {"form", "instructions"}, loading : BOOLEAN, key : 0..MaxPresses, mount : Nat]
            /\ j.step = "form" /\ j.mount = join.mount /\ j.key = join.key /\ j.loading = join.loading
        BY <1>2, <4>1 DEF ClosedJoin
      <4>3. QED
        BY <3>2, <4>1, <4>2
    <3>3. QED
      BY <2>1, <3>1, <3>2
  <2>4. KeysAre'
    <3>1. ASSUME NEW b \in calls, b.do = "key" PROVE b.modal <= join.mount /\ b.modal \in Nat /\ join.mount \in Nat
      BY <1>2, <3>1 DEF MachinesInv, KeysAre, Call
    <3>2. join.key <= presses' /\ 0 <= presses'
      BY <1>2, <2>2 DEF MachinesInv, KeysAre
    <3>3. CASE join'.mount = join.mount + 1 /\ join'.key = 0
      <4>1. \A b \in calls' : b.do = "key" => b \in calls /\ b.modal <= join'.mount /\ b.modal # join'.mount
        BY <2>2, <3>1, <3>3
      <4>2. QED
        BY <2>3, <3>2, <3>3, <4>1 DEF MachinesInv, KeysAre
    <3>4. CASE join'.mount = join.mount /\ join'.key = join.key /\ join'.loading = join.loading
      BY <2>2, <2>3, <3>2, <3>4 DEF MachinesInv, KeysAre
    <3>5. QED
      BY <2>3, <3>3, <3>4
  <2>5. CommandsAre'
    BY <1>5, <2>1, <2>2
  <2>6. reading' \in [MachinePages -> {"loading", "read", "failed"}]
    BY <1>1, <2>1 DEF MachinesTypeOK
  <2>7. QED
    BY <1>1, <1>2, <1>4, <2>1, <2>2, <2>3, <2>4, <2>5, <2>6 DEF MachinesTypeOK, DialogsAreOfMachines
<1>9. CASE handleReset
  <2>1. /\ Send(Volunteer, "reset", command, modal) /\ command # NoMachine /\ command \in DOMAIN nodes /\ resetting' = TRUE
        /\ UNCHANGED <<reading, actionError, pendingRemoval, command, runCommand, resetCommand, modal, join>>
    BY <1>1, <1>9 DEF handleReset, pageStateVars, DialogsAreOfMachines
  <2>2. PICK c : Sends(c, "reset") /\ c.machine = command /\ c.modal = modal /\ c.at = "sent"
    BY <1>2, <1>1, <2>1, SendKeepsCalls
  <2>3. KeysAre'
    BY <1>6, <2>1, <2>2
  <2>4. CommandsAre'
    <3>1. modal <= modal
      BY <1>2
    <3>2. QED
      BY <1>1, <2>1, <2>2, <3>1 DEF MachinesInv, CommandsAre, CommandIs
  <2>5. QED
    BY <1>1, <1>2, <1>4, <2>1, <2>2, <2>3, <2>4 DEF MachinesTypeOK, DialogsAreOfMachines
<1>10. ASSUME NEW m \in Machines, ShowCommand(m) PROVE MachinesInv'
  <2>1. /\ Send(Volunteer, "command", m, modal + 1) /\ command' = m /\ modal' = modal + 1
        /\ runCommand' = FALSE /\ resetCommand' = FALSE /\ resetting' = FALSE
        /\ UNCHANGED <<reading, actionError, pendingRemoval, join>>
        /\ m \in Table(Volunteer) /\ workers[Volunteer][m].status # "removed"
    BY <1>10 DEF ShowCommand, pageStateVars, Offers
  <2>2. /\ m \in DOMAIN nodes /\ modal + 1 \in Nat
        /\ At(Volunteer, m) = nodes[m].version => nodes[m].status # "removed"
    BY <1>2, <2>1 DEF MachinesInv, RowsWereTrue, Once, At
  <2>3. PICK c : Sends(c, "command") /\ c.machine = m /\ c.modal = modal + 1 /\ c.at = "sent"
    <3>1. Volunteer \in MachinePages /\ nodes' = nodes /\ m \in Machines \cup {NoMachine}
      BY <1>1, <1>2
    <3>2. Send(Volunteer, "command", m, modal + 1)
      BY <2>1
    <3>3. "command" \in {"list", "key", "command", "reset"} \cup Actions /\ "command" # "activate"
      OBVIOUS
    <3>4. QED
      BY <2>2, <3>1, <3>2, <3>3, SendKeepsCalls
  <2>4. KeysAre'
    BY <1>6, <2>1, <2>3
  <2>5. CommandsAre'
    <3>1. ASSUME NEW b \in calls', b.do \in {"command", "reset"} PROVE CommandIs(b)'
      <4>1. CASE b \in calls
        <5>1. b.modal \in Nat /\ b.modal <= modal /\ CommandIs(b)
          BY <1>2, <3>1, <4>1 DEF MachinesInv, CommandsAre, CommandIs, Call
        <5>2. b.modal <= modal + 1 /\ b.modal # modal + 1
          BY <1>2, <5>1
        <5>3. QED
          BY <1>1, <2>1, <5>1, <5>2 DEF CommandIs
      <4>2. CASE b = c
        <5>1. modal + 1 <= modal + 1
          BY <1>2
        <5>2. QED
          BY <2>1, <2>3, <4>2, <5>1 DEF CommandIs
      <4>3. QED
        BY <2>3, <4>1, <4>2
    <3>2. QED
      BY <2>1, <3>1 DEF CommandsAre, CommandIs
  <2>6. QED
    BY <1>1, <1>2, <1>4, <2>1, <2>2, <2>3, <2>4, <2>5 DEF MachinesTypeOK, DialogsAreOfMachines
<1>11. ASSUME NEW p \in MachinePages, SubmitRemoval(p) PROVE MachinesInv'
  <2>1. /\ Send(p, "remove", pendingRemoval[p], 0) /\ pendingRemoval[p] \in DOMAIN nodes
        /\ actionError' = [actionError EXCEPT ![p] = FALSE]
        /\ pendingRemoval' = [pendingRemoval EXCEPT ![p] = NoMachine]
        /\ UNCHANGED <<reading, command, runCommand, resetCommand, resetting, modal, join>>
    BY <1>1, <1>11 DEF SubmitRemoval, runAction, dialogVars, commandVars, DialogsAreOfMachines
  <2>2. PICK c : Sends(c, "remove")
    <3>1. "remove" \in Actions /\ 0 \in Nat /\ pendingRemoval[p] \in Machines \cup {NoMachine}
      BY <1>2, <2>1 DEF Actions
    <3>2. QED
      BY <1>1, <2>1, <3>1, SendKeepsCalls
  <2>3. KeysAre' /\ CommandsAre'
    BY <1>5, <1>6, <2>1, <2>2 DEF Actions
  <2>4. /\ pendingRemoval' \in [MachinePages -> Machines \cup {NoMachine}]
        /\ \A q \in MachinePages : pendingRemoval'[q] # NoMachine => pendingRemoval'[q] \in DOMAIN nodes
        /\ actionError' \in [MachinePages -> BOOLEAN]
    BY <1>1, <2>1 DEF MachinesTypeOK, DialogsAreOfMachines
  <2>5. QED
    BY <1>1, <1>2, <1>4, <2>1, <2>2, <2>3, <2>4 DEF MachinesTypeOK, DialogsAreOfMachines
<1>12. ASSUME NEW p \in MachinePages, NEW m \in Machines, NEW do \in {"activate", "deactivate"}, WorkerActions(p, m, do)
       PROVE  MachinesInv'
  <2>1. /\ Send(p, do, m, 0) /\ m \in Table(p) /\ do \in Offers(p, workers[p][m].status)
        /\ actionError' = [actionError EXCEPT ![p] = FALSE]
        /\ UNCHANGED <<reading, pendingRemoval, command, runCommand, resetCommand, resetting, modal, join>>
    BY <1>12 DEF WorkerActions, runAction, dialogVars, commandVars
  <2>2. /\ workers[p][m].status # "removed"
        /\ do = "activate" => workers[p][m].status = "deactivated"
    BY <2>1 DEF Offers
  <2>3. /\ m \in DOMAIN nodes
        /\ At(p, m) = nodes[m].version => workers[p][m].status = nodes[m].status
    BY <2>1 DEF MachinesInv, RowsWereTrue, Once, At
  <2>4. PICK c : Sends(c, do)
    <3>1. do \in Actions /\ 0 \in Nat
      BY DEF Actions
    <3>2. QED
      BY <1>1, <2>1, <2>2, <2>3, <3>1, SendKeepsCalls
  <2>5. KeysAre' /\ CommandsAre'
    BY <1>5, <1>6, <2>1, <2>4 DEF Actions
  <2>6. actionError' \in [MachinePages -> BOOLEAN]
    BY <1>1, <2>1 DEF MachinesTypeOK
  <2>7. QED
    BY <1>1, <1>2, <1>4, <2>1, <2>4, <2>5, <2>6 DEF MachinesTypeOK, DialogsAreOfMachines
<1>13. QED
  BY <1>7, <1>8, <1>9, <1>10, <1>11, <1>12

LEMMA MachinesKept == MachinesInv /\ [MachinesNext]_machineVars => MachinesInv'
<1>1. SUFFICES ASSUME MachinesInv, [MachinesNext]_machineVars PROVE MachinesInv'
  OBVIOUS
<1>2. CASE UNCHANGED machineVars
  <2>1. UNCHANGED <<pageStateVars, dialogVars, calls, presses, newKeys>> /\ nodes' = nodes
    BY <1>2 DEF machineVars
  <2>2. QED
    BY <1>1, <2>1, StayingGrows, GrowthKeepsMachines
<1>3. ASSUME NEW c \in calls, AnswerArrives(c) PROVE MachinesInv'
  <2>1. Heard(c) /\ UNCHANGED <<nodes, presses, newKeys>>
    BY <1>3 DEF AnswerArrives
  <2>2. \/ ListArrives(c) \/ ListFails(c) \/ ActionArrives(c) \/ ActionFails(c)
        \/ CommandArrives(c) \/ KeyArrives(c)
    BY <1>3 DEF AnswerArrives
  <2>3. QED
    BY <1>1, <2>1, <2>2, ListKeepsMachines, ActionKeepsMachines, ModalKeepsMachines
<1>4. CASE OpenJoin \/ CloseCommand \/ \E p \in MachinePages : CloseRemoval(p) \/ \E m \in Machines : OpenRemoval(p, m)
  BY <1>1, <1>4, DialogsKeepMachines
<1>5. CASE \/ handleGetSetupKey \/ handlCloseModal \/ handleReset
           \/ \E m \in Machines : ShowCommand(m)
           \/ \E p \in MachinePages :
                SubmitRemoval(p) \/ \E m \in Machines : \E do \in {"activate", "deactivate"} : WorkerActions(p, m, do)
  BY <1>1, <1>5, PressesKeepMachines
<1>6. CASE \E m \in Machines : Registers(m) \/ LoopWrites(m)
  BY <1>1, <1>6, MachinesGrow
<1>7. CASE \E c \in calls : ServerHandles(c)
  BY <1>1, <1>7, ServerKeepsMachines
<1>8. QED
  BY <1>1, <1>2, <1>3, <1>4, <1>5, <1>6, <1>7 DEF MachinesNext

LEMMA MachinesHold == MachinesInv => MachinesTypeOK /\ PagesAreTrue
<1>1. SUFFICES ASSUME MachinesInv PROVE MachinesTypeOK /\ PagesAreTrue
  OBVIOUS
<1>2. ASSUME NEW p \in MachinePages, NEW s \in Status
      PROVE  getStatusMessage(s) = "paused" <=> "activate" \in Offers(p, s)
  BY DEF getStatusMessage, Offers
<1>3. \A p \in MachinePages : \A m \in Table(p) : workers[p][m].status \in Status
  BY <1>1 DEF MachinesInv, MachinesTypeOK, Entries
<1>4. QED
  BY <1>1, <1>2, <1>3 DEF PagesAreTrue, MachinesInv, CommandsAre, KeysAre

-----------------------------------------------------------------------------
(* What a step of the pages and the machines may not do. *)

LEMMA RowsGo ==
  ASSUME MachinesInv, MachinesNext, NEW p \in MachinePages, NEW m \in Table(p),
         m \in DOMAIN workers'[p], workers'[p][m].version < At(p, m)
  PROVE  \E c \in calls \ calls' : c.page = p /\ c.known[m] < At(p, m)
<1>1. /\ At(p, m) = workers[p][m].version /\ At(p, m) \in 0..MaxVersions /\ MaxVersions \in Nat /\ m \in Machines
      /\ DOMAIN workers = MachinePages
  BY MachineFacts DEF At, MachinesInv, MachinesTypeOK, CallsAreTyped, Entries
<1>2. workers'[p][m] # workers[p][m]
  BY <1>1
<1>3. PICK c \in calls : AnswerArrives(c) /\ workers' # workers
  BY <1>2 DEF MachinesNext, OpenJoin, handleGetSetupKey, handlCloseModal, handleReset, CloseCommand, Registers, LoopWrites,
              ShowCommand, CloseRemoval, SubmitRemoval, OpenRemoval, WorkerActions, ServerHandles, pageStateVars
<1>4. c \in calls \ calls' /\ CallKnows(c) /\ c \in Call
  BY <1>3, MachineFacts DEF AnswerArrives, Heard, MachinesInv, CallsKnow
<1>5. c.known[m] \in Int
  BY <1>1, <1>4 DEF Call
<1>6. CASE ListArrives(c)
  <2>1. c.page = p /\ workers'[p] = c.answer /\ c.do = "list" /\ c.at = "answered"
    BY <1>1, <1>2, <1>6 DEF ListArrives
  <2>2. Once(m, c.answer[m]) /\ c.known[m] <= c.answer[m].version
    BY <1>4, <2>1 DEF CallKnows
  <2>3. workers'[p][m].version \in Int /\ c.known[m] <= workers'[p][m].version
    BY <1>1, <2>1, <2>2 DEF Once, Entries
  <2>4. c.known[m] < At(p, m)
    BY <1>1, <1>5, <2>3
  <2>5. QED
    BY <1>4, <2>1, <2>4
<1>7. CASE ListFails(c)
  <2>1. c.page = p /\ workers'[p] = <<>>
    BY <1>1, <1>2, <1>7 DEF ListFails
  <2>2. QED
    BY <2>1
<1>8. CASE ActionArrives(c)
  <2>1. c.page = p /\ m = c.machine /\ workers'[p][m] = c.answer /\ c.do \in Actions /\ c.at = "answered"
    BY <1>1, <1>2, <1>8 DEF ActionArrives, Actions
  <2>2. Once(m, c.answer) /\ c.known[m] <= c.answer.version
    BY <1>4, <2>1 DEF CallKnows
  <2>3. c.answer.version \in Int
    BY <1>1, <2>2 DEF Once, Entries
  <2>4. c.known[m] < At(p, m)
    BY <1>1, <1>5, <2>1, <2>2, <2>3
  <2>5. QED
    BY <1>4, <2>1, <2>4
<1>9. QED
  BY <1>3, <1>6, <1>7, <1>8 DEF AnswerArrives, ActionFails, CommandArrives, KeyArrives, pageStateVars

LEMMA OffersGood ==
  ASSUME MachinesInv, MachinesNext, NEW c \in calls, NEW d \in calls',
         c.n = d.n, c.at = "sent", d.at # "sent", c.do \notin {"list", "key", "reset"}
  PROVE  \/ c.known[c.machine] < nodes[c.machine].version
         \/ d.at = "answered" /\ (c.do \in {"activate", "deactivate", "remove"} => nodes' # nodes)
<1>1. d \notin calls
  BY DEF MachinesInv, CallsAreApart
<1>2. ASSUME NEW p, NEW do, NEW m, NEW k, Send(p, do, m, k) PROVE FALSE
  BY <1>1, <1>2 DEF Send
<1>3. \E b \in calls : ServerHandles(b)
  BY <1>1, <1>2 DEF MachinesNext, OpenJoin, handleGetSetupKey, handlCloseModal, handleReset, CloseCommand, Registers, LoopWrites,
              ShowCommand, CloseRemoval, SubmitRemoval, OpenRemoval, WorkerActions, runAction, AnswerArrives, Heard
<1>4. ServerHandles(c) /\ \A at, a : Answer(c, at, a) => d.at = at
  <2>1. PICK b \in calls : ServerHandles(b)
    BY <1>3
  <2>2. b \in Call /\ \E at, a : Answer(b, at, a)
    BY <2>1, MachineFacts DEF ServerHandles, list_workers, activate_worker_node, deactivate_worker_node, remove_worker_node,
                get_worker_command, reset_worker_key, generate_worker_key, TurnDown
  <2>3. ASSUME NEW at, NEW a, Answer(b, at, a) PROVE d.n = b.n /\ d.at = at
    BY <1>1, <2>2, <2>3 DEF Answer, Call
  <2>4. b = c
    BY <2>2, <2>3 DEF MachinesInv, CallsAreApart
  <2>5. QED
    BY <2>1, <2>3, <2>4
<1>5. /\ c \in Call /\ CallKnows(c) /\ c.machine \in DOMAIN nodes /\ c.machine \in Machines
      /\ nodes[c.machine].version \in 0..MaxVersions /\ MaxVersions \in Nat
  BY MachineFacts DEF MachinesInv, CallsKnow, CallKnows
<1>6. SUFFICES ASSUME ~(c.known[c.machine] < nodes[c.machine].version)
               PROVE  d.at = "answered" /\ (c.do \in {"activate", "deactivate", "remove"} => nodes' # nodes)
  OBVIOUS
<1>7. c.known[c.machine] = nodes[c.machine].version
  <2>1. c.known[c.machine] \in -1..MaxVersions
    BY <1>5 DEF Call
  <2>2. c.known[c.machine] = -1 \/ c.known[c.machine] <= nodes[c.machine].version
    BY <1>5 DEF CallKnows
  <2>3. QED
    BY <1>5, <1>6, <2>1, <2>2
<1>8. ASSUME NEW s \in Status, Write(c.machine, s) PROVE nodes' # nodes
  BY <1>5, <1>8, WriteGrows
<1>9. {"active", "deactivated", "removed"} \subseteq Status
  BY DEF Status
<1>10. CASE activate_worker_node(c)
  <2>1. nodes[c.machine].status = "deactivated"
    BY <1>5, <1>7, <1>10 DEF CallKnows, activate_worker_node
  <2>2. QED
    BY <1>4, <1>8, <1>9, <1>10, <2>1 DEF activate_worker_node
<1>11. CASE deactivate_worker_node(c)
  <2>1. nodes[c.machine].status # "removed"
    BY <1>5, <1>7, <1>11 DEF CallKnows, deactivate_worker_node
  <2>2. QED
    BY <1>4, <1>8, <1>9, <1>11, <2>1 DEF deactivate_worker_node
<1>12. CASE remove_worker_node(c)
  BY <1>4, <1>8, <1>9, <1>12 DEF remove_worker_node
<1>13. CASE get_worker_command(c)
  <2>1. nodes[c.machine].status # "removed" /\ c.do = "command"
    BY <1>5, <1>7, <1>13 DEF CallKnows, get_worker_command
  <2>2. QED
    BY <1>4, <1>13, <2>1 DEF get_worker_command, get_owned_node
<1>14. QED
  BY <1>4, <1>10, <1>11, <1>12, <1>13 DEF ServerHandles, list_workers, reset_worker_key, generate_worker_key

LEMMA ReturnByDesk ==
  ASSUME MachinesInv, MachinesNext, NEW m \in DOMAIN nodes, nodes[m].status = "removed", nodes'[m].status # "removed"
  PROVE  \E c \in calls : c.page = Desk /\ c.machine = m /\ c.known[m] < nodes[m].version
<1>1. /\ MaxVersions \in Nat /\ DOMAIN nodes \subseteq Machines /\ nodes[m].version \in 0..MaxVersions
      /\ "removed" \notin LoopStatus /\ LoopStatus \subseteq Status /\ {"active", "deactivated", "removed"} \subseteq Status
  BY MachineFacts DEF Status
<1>2. nodes' # nodes
  OBVIOUS
<1>3. ASSUME NEW k \in Machines, Registers(k) PROVE FALSE
  <2>1. k # m /\ m \in DOMAIN nodes \cup {k}
    BY <1>3 DEF Registers
  <2>2. nodes'[m] = nodes[m]
    BY <1>3, <2>1 DEF Registers
  <2>3. QED
    BY <2>2
<1>4. ASSUME NEW k \in DOMAIN nodes, NEW s \in Status, Write(k, s) PROVE k = m /\ s # "removed"
  BY <1>4, WriteGrows
<1>5. ASSUME NEW k \in Machines, LoopWrites(k) PROVE FALSE
  <2>1. PICK s \in LoopStatus : k \in DOMAIN nodes /\ nodes[k].status \in LoopStatus /\ Write(k, s)
    BY <1>5 DEF LoopWrites
  <2>2. k = m
    BY <1>1, <1>4, <2>1
  <2>3. QED
    BY <1>1, <2>1, <2>2
<1>6. PICK c \in calls : ServerHandles(c)
  BY <1>2, <1>3, <1>5 DEF MachinesNext, OpenJoin, handleGetSetupKey, handlCloseModal, handleReset, CloseCommand,
              ShowCommand, CloseRemoval, SubmitRemoval, OpenRemoval, WorkerActions, AnswerArrives
<1>7. /\ c \in Call /\ CallKnows(c) /\ c.page \in MachinePages /\ c.at = "sent"
      /\ c.do \notin {"list", "key"} => c.machine \in DOMAIN nodes
  BY <1>6, MachineFacts DEF MachinesInv, MachinesTypeOK, CallsKnow, CallKnows, ServerHandles
<1>8. deactivate_worker_node(c) /\ Write(c.machine, "deactivated") /\ c.machine = m /\ c.page # Volunteer
  <2>1. CASE activate_worker_node(c)
    <3>1. Write(c.machine, "active") /\ nodes[c.machine].status = "deactivated" /\ c.machine \in DOMAIN nodes
      BY <1>2, <1>7, <2>1 DEF activate_worker_node
    <3>2. c.machine = m
      BY <1>1, <1>4, <3>1
    <3>3. QED
      BY <3>1, <3>2
  <2>2. CASE remove_worker_node(c)
    <3>1. Write(c.machine, "removed") /\ c.machine \in DOMAIN nodes
      BY <1>7, <2>2 DEF remove_worker_node
    <3>2. QED
      BY <1>1, <1>4, <3>1
  <2>3. CASE deactivate_worker_node(c)
    <3>1. /\ ~(nodes[c.machine].status = "removed" /\ c.page = Volunteer) /\ c.machine \in DOMAIN nodes
          /\ Write(c.machine, "deactivated")
      BY <1>2, <1>7, <2>3 DEF deactivate_worker_node, TurnDown
    <3>2. c.machine = m
      BY <1>1, <1>4, <3>1
    <3>3. QED
      BY <2>3, <3>1, <3>2
  <2>4. QED
    BY <1>2, <1>6, <2>1, <2>2, <2>3 DEF ServerHandles, list_workers, get_worker_command, reset_worker_key,
                                        generate_worker_key, TurnDown
<1>9. c.page = Desk
  BY <1>7, <1>8 DEF MachinePages
<1>10. c.known[m] # nodes[m].version
  BY <1>7, <1>8 DEF CallKnows, deactivate_worker_node
<1>11. c.known[m] < nodes[m].version
  <2>1. c.known[m] \in -1..MaxVersions
    BY <1>1, <1>7 DEF Call
  <2>2. c.known[m] = -1 \/ c.known[m] <= nodes[m].version
    BY <1>1, <1>7 DEF CallKnows
  <2>3. QED
    BY <1>1, <1>10, <2>1, <2>2
<1>12. QED
  BY <1>8, <1>9, <1>11

-----------------------------------------------------------------------------
(* All of them together.  A scene that is not played stands still, so the  *)
(* invariants of all the modules hold in every state.                      *)
ScenesInv ==
  /\ SignInInv /\ RegisteringInv /\ ResetInv /\ ProfileInv
  /\ RoleInv /\ ReviewInv /\ SessionInv /\ MachinesInv

(* What a step of MachinesPage may not do; the actions of MachinesMove. *)
RowsForward ==
  \A p \in MachinePages : \A m \in Table(p) :
    m \in DOMAIN workers'[p] /\ workers'[p][m].version < At(p, m) =>
      \E c \in calls \ calls' : c.page = p /\ c.known[m] < At(p, m)
GoodOffers ==
  \A c \in calls : \A d \in calls' :
    c.n = d.n /\ c.at = "sent" /\ d.at # "sent" /\ c.do \notin {"list", "key", "reset"} =>
      \/ c.known[c.machine] < nodes[c.machine].version
      \/ d.at = "answered" /\ (c.do \in {"activate", "deactivate", "remove"} => nodes' # nodes)
DeskReturns ==
  \A m \in DOMAIN nodes : nodes[m].status = "removed" /\ nodes'[m].status # "removed" =>
    \E c \in calls : c.page = Desk /\ c.machine = m /\ c.known[m] < nodes[m].version

LEMMA ScenesStart == AccountInit => ScenesInv
  BY SignInStarts, RegisteringStarts, ResetStarts, ProfileStarts, RolesStart, ReviewStarts, SessionStarts,
     MachinesStart DEF AccountInit, ScenesInv

(* A step is of one module, or of none, in each of them. *)
LEMMA ScenesStep ==
  [AccountNext]_<<scene, accountVars>> =>
    /\ [SignInNext]_signInVars /\ [RegisteringNext]_registeringVars /\ [ResetNext]_resetVars
    /\ [ProfileNext]_profileVars /\ [RoleNext]_roleVars /\ [ReviewNext]_reviewVars
    /\ [SessionNext]_sessionVars /\ [MachinesNext]_machineVars
  BY DEF AccountNext, accountVars

LEMMA ScenesKept == ScenesInv /\ [AccountNext]_<<scene, accountVars>> => ScenesInv'
  BY ScenesStep, SignInKept, RegisteringKept, ResetInvKept, ProfileKept, RolesKept, ReviewKept, SessionKept,
     MachinesKept DEF ScenesInv

LEMMA MachinesGo == MachinesInv /\ MachinesNext => RowsForward /\ GoodOffers /\ DeskReturns
<1>1. SUFFICES ASSUME MachinesInv, MachinesNext PROVE RowsForward /\ GoodOffers /\ DeskReturns
  OBVIOUS
<1>2. RowsForward
  BY <1>1, RowsGo DEF RowsForward
<1>3. GoodOffers
  BY <1>1, OffersGood DEF GoodOffers
<1>4. DeskReturns
  BY <1>1, ReturnByDesk DEF DeskReturns
<1>5. QED
  BY <1>2, <1>3, <1>4

(* middleware.ts, useAuth.ts and login.tsx: a tab that the login page      *)
(* cannot get rid of holds an answer that is not true of the cookie, and a *)
(* browser loses the token of the last sign-in only to a logout or to the  *)
(* end of its time, for any number of tabs, sign-ins and changes of role.  *)
THEOREM SessionAlwaysHolds == SessionSpec => [](SessionTypeOK /\ BounceHasACause /\ SessionsEndForAReason)
  BY SessionStarts, SessionKept, SessionHolds, PTL DEF SessionSpec

(* role_request.py: one request of a user waits, or was submitted with     *)
(* another at once; a role that is more than a user's is on record, unless *)
(* that user's grants were tangled; and a desk that heard that its         *)
(* decision was taken does not offer it again: for any number of           *)
(* applicants, pages, desks and requests.                                  *)
THEOREM RolesAlwaysHold == RoleSpec => [](RoleTypeOK /\ OnePendingEach /\ GrantsAreOnRecord /\ DeskLearns)
  BY RolesStart, RolesKept, RolesHold, PTL DEF RoleSpec

(* ReportView.tsx and its cards: a desk that was told of its change shows  *)
(* it or a later one, the reason given for a final status never speaks for *)
(* another, and a card waits for no request that is over, whoever else     *)
(* reviews the report.                                                     *)
THEOREM ReviewAlwaysHolds ==
  ReviewSpec => [](ReviewTypeOK /\ DeskSeesItsChanges /\ ReasonFitsStatus /\ CardsWaitTheirTurn)
  BY ReviewStarts, ReviewKept, ReviewHolds, PTL DEF ReviewSpec

(* Accounts, roles, reports, sessions and machines: every variable has its *)
(* type in all the modules MCAccount plays.                                *)
THEOREM AccountTypesAlwaysOK == AccountSpec => []TypeOK
<1>1. ScenesInv => TypeOK
  BY SignInHolds, ProfileHolds, RolesHold, ReviewHolds, SessionHolds, MachinesHold
     DEF ScenesInv, TypeOK, RegisteringInv, ResetInv
<1>2. QED
  BY <1>1, ScenesStart, ScenesKept, PTL DEF AccountSpec

(* The safety of every module MCAccount plays, for any numbers of tabs,    *)
(* requests, applicants, reviewers, machines and cookies: see the comments *)
(* of AccountsHold.                                                        *)
THEOREM AccountsAlwaysHold == AccountSpec => []AccountsHold
<1>1. ScenesInv => AccountsHold
  <2>1. SUFFICES ASSUME ScenesInv PROVE AccountsHold
    OBVIOUS
  <2>2. LinkWorksOnce /\ SaidIsSet /\ HomeIsTheirOwn
    BY <2>1 DEF ScenesInv, RegisteringInv, ResetInv, DoneIsDone, SaidIsSet, UsedLinks
  <2>3. QED
    BY <2>1, <2>2, SignInHolds, ProfileHolds, RolesHold, ReviewHolds, SessionHolds, MachinesHold
       DEF ScenesInv, AccountsHold
<1>2. QED
  BY <1>1, ScenesStart, ScenesKept, PTL DEF AccountSpec

(* What no step does: lock an account but for failures in a row, take an   *)
(* account from whom it was made for, show a machine as it was before for  *)
(* no late answer, turn down what was offered of a machine that has not    *)
(* changed, or return a removed machine but by a desk that did not know.   *)
THEOREM AccountsAlwaysStay == AccountSpec => AccountsStay
<1>1. ScenesInv /\ [AccountNext]_<<scene, accountVars>> =>
        [lockLeft' > lockLeft => streak + 1 >= LockoutFails]_signInVars
  BY ScenesStep, LockIsOfARow DEF ScenesInv
<1>2. ScenesInv /\ [AccountNext]_<<scene, accountVars>> => [account # 0 => account' = account]_registeringVars
  BY ScenesStep, AccountIsKept
<1>3. ScenesInv /\ [AccountNext]_<<scene, accountVars>> =>
        /\ [RowsForward]_machineVars /\ [GoodOffers]_machineVars /\ [DeskReturns]_machineVars
  BY ScenesStep, MachinesGo DEF ScenesInv
<1>4. AccountSpec => /\ [][lockLeft' > lockLeft => streak + 1 >= LockoutFails]_signInVars
                     /\ [][account # 0 => account' = account]_registeringVars
                     /\ [][RowsForward]_machineVars /\ [][GoodOffers]_machineVars /\ [][DeskReturns]_machineVars
  BY <1>1, <1>2, <1>3, ScenesStart, ScenesKept, PTL DEF AccountSpec
<1>5. QED
  BY <1>4 DEF AccountsStay, LockTakesARow, AccountStays, MachinesMove, RowsGoForward, OffersAreGood,
              ReturnsByADesk, RowsForward, GoodOffers, DeskReturns

=============================================================================
