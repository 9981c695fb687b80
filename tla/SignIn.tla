------------------------------- MODULE SignIn -------------------------------
(***************************************************************************)
(* Signing in to one account: the login page and the code page of several  *)
(* tabs (app/frontend/src/pages/login.tsx, verify-2fa.tsx), and the server *)
(* that counts the failures of the account and makes it wait               *)
(* (app/backend/src/services/auth/login.py).                               *)
(*                                                                         *)
(* The server looks at the limits before it compares the password, and two *)
(* requests may be between the two.  Its waits are keys that expire; the   *)
(* page counts down the seconds it read in the server's words.             *)
(***************************************************************************)
EXTENDS Integers, FiniteSets

CONSTANTS
  SignInTabs,
  DelaySchedule,      \* the wait after so many failures
  LockoutFails,       \* so many failures in a row lock the account
  LockoutTime,        \* LOCKOUT_SECONDS
  FailWindow,         \* SHORT_WINDOW_SECONDS
  MaxSignIns          \* bound: requests of all the tabs

ASSUME SignInAssumption ==
  /\ LockoutFails \in Nat \ {0} /\ LockoutTime \in Nat \ {0} /\ FailWindow \in Nat \ {0}
  /\ DOMAIN DelaySchedule \subseteq 1..LockoutFails
  /\ \A n \in DOMAIN DelaySchedule : DelaySchedule[n] \in Nat
  /\ MaxSignIns \in Nat

VARIABLES
  twoFactorOn,   \* is_2fa_enabled
  fails, failsLeft,             \* the counter and what is left of its window
  throttleLeft, lockLeft,       \* what is left of the two waits
  signIn,        \* a tab: its page, its request, what it was told
  signIns,
  streak,        \* (history) failures since a success, a lock or a long pause
  throttledBy    \* (history) the tab whose failure set the wait

signInVars == <<twoFactorOn, fails, failsLeft, throttleLeft, lockLeft, signIn, signIns, streak, throttledBy>>

Answers == {"none", "wait", "locked", "wrong", "code", "in", "failed"}
AtLogin == [page |-> "login", step |-> "idle", right |-> FALSE, answer |-> "none", seconds |-> 0,
            cooldown |-> 0, told |-> "none"]

SignInInit ==
  /\ twoFactorOn \in BOOLEAN
  /\ fails = 0 /\ failsLeft = 0 /\ throttleLeft = 0 /\ lockLeft = 0
  /\ signIn = [t \in SignInTabs |-> AtLogin]
  /\ signIns = 0
  /\ streak = 0
  /\ throttledBy = {}

-----------------------------------------------------------------------------
(* What a page lets its user do. *)
LoginView(t) == [form |-> signIn[t].page = "login",
                 button |-> signIn[t].step = "idle" /\ signIn[t].cooldown = 0]
CodeView(t) == [form |-> signIn[t].page = "code", button |-> signIn[t].step = "idle"]

(* The login form: what is wrong with the fields never leaves the page. *)
handleLogin(t) ==
  /\ LoginView(t).form /\ LoginView(t).button
  /\ signIns < MaxSignIns
  /\ \/ \E right \in BOOLEAN :
          /\ signIn' = [signIn EXCEPT ![t].step = "sent", ![t].right = right, ![t].told = "none"]
          /\ signIns' = signIns + 1
     \/ signIn[t].told # "none" /\ signIn' = [signIn EXCEPT ![t].told = "none"] /\ UNCHANGED signIns
  /\ UNCHANGED <<twoFactorOn, fails, failsLeft, throttleLeft, lockLeft, streak, throttledBy>>

Refuse(t, answer, seconds) ==
  signIn' = [signIn EXCEPT ![t].step = "answered", ![t].answer = answer, ![t].seconds = seconds]

(* login_user, first half: the waits are looked at. *)
check_rate_limits(t) ==
  /\ signIn[t].page = "login" /\ signIn[t].step = "sent"
  /\ IF lockLeft > 0 THEN Refuse(t, "locked", 0)
     ELSE IF throttleLeft > 0 THEN Refuse(t, "wait", throttleLeft)
     ELSE signIn' = [signIn EXCEPT ![t].step = "checked"]
  /\ UNCHANGED <<twoFactorOn, fails, failsLeft, throttleLeft, lockLeft, signIns, streak, throttledBy>>

get_delay(n) == IF n \in DOMAIN DelaySchedule THEN DelaySchedule[n] ELSE 0

(* A wrong password: the counter's window starts anew, and the failure may *)
(* lock the account or make it wait.                                       *)
record_failure(t) ==
  /\ signIn[t].page = "login" /\ signIn[t].step = "checked" /\ ~signIn[t].right
  /\ IF fails + 1 >= LockoutFails
     THEN /\ lockLeft' = LockoutTime /\ fails' = 0 /\ failsLeft' = 0 /\ throttleLeft' = 0
          /\ streak' = 0 /\ throttledBy' = {}
          /\ Refuse(t, "locked", 0)
     ELSE /\ fails' = fails + 1 /\ failsLeft' = FailWindow
          /\ streak' = streak + 1
          /\ UNCHANGED lockLeft
          /\ IF get_delay(fails + 1) > 0
             THEN /\ throttleLeft' = get_delay(fails + 1) /\ throttledBy' = {t}
                  /\ Refuse(t, "wait", get_delay(fails + 1))
             ELSE Refuse(t, "wrong", 0) /\ UNCHANGED <<throttleLeft, throttledBy>>
  /\ UNCHANGED <<twoFactorOn, signIns>>

\* (fault) The counter is set below its start.
ResetTooFar ==
  fails' = -1 /\ failsLeft' = 0 /\ throttleLeft' = 0 /\ streak' = 0 /\ throttledBy' = {}

reset_counters ==
  fails' = 0 /\ failsLeft' = 0 /\ throttleLeft' = 0 /\ streak' = 0 /\ throttledBy' = {}

(* The right password clears the counter; with a second factor it is not   *)
(* enough.                                                                 *)
login_user(t) ==
  /\ signIn[t].page = "login" /\ signIn[t].step = "checked" /\ signIn[t].right
  /\ reset_counters
  /\ Refuse(t, IF twoFactorOn THEN "code" ELSE "in", 0)
  /\ UNCHANGED <<twoFactorOn, lockLeft, signIns>>

(* The answer: seconds are only found in the words of a short wait. *)
LoginAnswer(t) ==
  /\ signIn[t].page = "login" /\ signIn[t].step = "answered"
  /\ LET a == signIn[t].answer IN
     signIn' = [signIn EXCEPT ![t].step = "idle", ![t].answer = "none", ![t].seconds = 0,
                  ![t].page = IF a \in {"code", "in"} THEN a ELSE @,
                  ![t].told = IF a \in {"code", "in"} THEN @ ELSE a,
                  ![t].cooldown = IF a = "wait" THEN signIn[t].seconds ELSE @]
  /\ UNCHANGED <<twoFactorOn, fails, failsLeft, throttleLeft, lockLeft, signIns, streak, throttledBy>>

(* The network fails before the server is reached or after it has answered. *)
RequestFails(t) ==
  /\ signIn[t].step \in {"sent", "answered"}
  /\ signIn' = [signIn EXCEPT ![t].step = "idle", ![t].answer = "none", ![t].seconds = 0, ![t].told = "failed"]
  /\ UNCHANGED <<twoFactorOn, fails, failsLeft, throttleLeft, lockLeft, signIns, streak, throttledBy>>

(* The code page: a code of six digits is sent and compared. *)
SubmitCode(t) ==
  /\ CodeView(t).form /\ CodeView(t).button /\ signIns < MaxSignIns
  /\ \E right \in BOOLEAN :
       signIn' = [signIn EXCEPT ![t].step = "sent", ![t].right = right, ![t].told = "none"]
  /\ signIns' = signIns + 1
  /\ UNCHANGED <<twoFactorOn, fails, failsLeft, throttleLeft, lockLeft, streak, throttledBy>>

verify_2fa(t) ==
  /\ signIn[t].page = "code" /\ signIn[t].step = "sent"
  /\ Refuse(t, IF twoFactorOn /\ signIn[t].right THEN "in" ELSE "wrong", 0)
  /\ UNCHANGED <<twoFactorOn, fails, failsLeft, throttleLeft, lockLeft, signIns, streak, throttledBy>>

CodeAnswer(t) ==
  /\ signIn[t].page = "code" /\ signIn[t].step = "answered"
  /\ signIn' = [signIn EXCEPT ![t].step = "idle", ![t].answer = "none",
                  ![t].page = IF signIn[t].answer = "in" THEN "in" ELSE @,
                  ![t].told = IF signIn[t].answer = "in" THEN @ ELSE "wrong"]
  /\ UNCHANGED <<twoFactorOn, fails, failsLeft, throttleLeft, lockLeft, signIns, streak, throttledBy>>

(* The page is opened again: what it was told is gone. *)
BackToLogin(t) ==
  /\ signIn[t] # AtLogin /\ signIn[t].step = "idle"
  /\ signIn' = [signIn EXCEPT ![t] = AtLogin]
  /\ UNCHANGED <<twoFactorOn, fails, failsLeft, throttleLeft, lockLeft, signIns, streak, throttledBy>>

(* The owner's profile page turns the second factor off or on. *)
set_2fa_enabled ==
  /\ \E t \in SignInTabs : signIn[t].page = "in"
  /\ twoFactorOn' = ~twoFactorOn
  /\ UNCHANGED <<fails, failsLeft, throttleLeft, lockLeft, signIn, signIns, streak, throttledBy>>

Less(n) == IF n > 0 THEN n - 1 ELSE 0

(* Time: the server's keys and the pages' cooldowns run down together. *)
SecondPasses ==
  /\ \/ failsLeft + throttleLeft + lockLeft > 0
     \/ \E t \in SignInTabs : signIn[t].cooldown > 0
  /\ failsLeft' = Less(failsLeft)
  /\ throttleLeft' = Less(throttleLeft)
  /\ lockLeft' = Less(lockLeft)
  /\ fails' = IF failsLeft = 1 THEN 0 ELSE fails
  /\ streak' = IF failsLeft = 1 THEN 0 ELSE streak
  /\ signIn' = [t \in SignInTabs |-> [signIn[t] EXCEPT !.cooldown = Less(@)]]
  /\ UNCHANGED <<twoFactorOn, signIns, throttledBy>>

SignInStep(t) ==
  \/ handleLogin(t) \/ check_rate_limits(t) \/ record_failure(t) \/ login_user(t) \/ LoginAnswer(t)
  \/ RequestFails(t) \/ SubmitCode(t) \/ verify_2fa(t) \/ CodeAnswer(t) \/ BackToLogin(t)
SignInNext == (\E t \in SignInTabs : SignInStep(t)) \/ set_2fa_enabled \/ SecondPasses
SignInSpec == SignInInit /\ [][SignInNext]_signInVars

-----------------------------------------------------------------------------
SignInTypeOK ==
  /\ twoFactorOn \in BOOLEAN
  /\ fails \in 0..LockoutFails /\ failsLeft \in 0..FailWindow
  /\ throttleLeft \in Nat /\ lockLeft \in 0..LockoutTime
  /\ signIn \in [SignInTabs -> [page : {"login", "code", "in"}, step : {"idle", "sent", "checked", "answered"},
                                right : BOOLEAN, answer : Answers, seconds : Nat, cooldown : Nat, told : Answers]]
  /\ signIns \in 0..MaxSignIns
  /\ streak \in Nat /\ throttledBy \subseteq SignInTabs

(* The counter counts the failures in a row and no others: an account is   *)
(* locked after LockoutFails of them, none forgiven by a success or by a   *)
(* quiet window, whatever the requests that ran at the same time.          *)
FailuresInARow == fails = streak

LockTakesARow ==
  [][lockLeft' > lockLeft => streak + 1 >= LockoutFails]_signInVars

(* A tab that was told to wait, and whose failure is the last one, offers  *)
(* its button no sooner than the server would take another try.            *)
ButtonWaits ==
  \A t \in SignInTabs :
     signIn[t].page = "login" /\ signIn[t].step = "idle" /\ signIn[t].told = "wait" /\ throttledBy = {t}
       => signIn[t].cooldown >= throttleLeft
=============================================================================
