----------------------------- MODULE Registering -----------------------------
(***************************************************************************)
(* Making an account for one email: the register page and the code page of *)
(* several tabs (app/frontend/src/pages/register.tsx, verify-2fa.tsx), and *)
(* the server's half (app/backend/src/services/auth/register.py,           *)
(* pending_registration.py, two_factor.py).                                *)
(*                                                                         *)
(* A registration is only promised: it waits under a token until a code of *)
(* its own secret is shown, or expires.  Several may wait for one email.   *)
(* Completing one reads it, writes the account, and then forgets it; other *)
(* requests run in between.                                                *)
(***************************************************************************)
EXTENDS Integers, FiniteSets

CONSTANTS
  RegTabs,
  MaxRegistrations,   \* bound: promises made
  PendingTime,        \* PENDING_REGISTRATION_TTL
  MaxCodes            \* bound: codes sent

ASSUME RegisteringAssumption ==
  /\ MaxRegistrations \in Nat /\ PendingTime \in Nat \ {0} /\ MaxCodes \in Nat

Tokens == 1..MaxRegistrations
RequestedRoles == {"user", "firefighter"}

VARIABLES
  pendings,   \* the promises, by token: the role asked for, and the time left
  account,    \* the account of the email: the token it was made from, or 0
  asked,      \* role requests that wait, by the token they came with
  reg,        \* a tab: its page, its form, its token, its request
  promised, codesSent

registeringVars == <<pendings, account, asked, reg, promised, codesSent>>

AtRegister == [page |-> "register", wrong |-> {}, role |-> "user", token |-> 0, step |-> "idle",
               right |-> FALSE, told |-> "none"]

RegisteringInit ==
  /\ pendings = [n \in Tokens |-> [role |-> "user", left |-> 0]]
  /\ account = 0
  /\ asked = {}
  /\ reg = [t \in RegTabs |-> AtRegister]
  /\ promised = 0 /\ codesSent = 0

-----------------------------------------------------------------------------
(* What the two pages let their user do. *)
RegisterView(t) == [form |-> reg[t].page = "register", button |-> reg[t].step = "idle"]
SetupView(t) ==
  [form |-> reg[t].page = "code", qr |-> reg[t].page = "code" /\ reg[t].token # 0, button |-> reg[t].step = "idle"]

(* Fields and a role are typed; what is typed again is no longer marked. *)
handleChange(t) ==
  /\ RegisterView(t).form
  /\ \/ reg[t].wrong # {} /\ reg' = [reg EXCEPT ![t].wrong = {}]
     \/ \E r \in RequestedRoles \ {reg[t].role} : reg' = [reg EXCEPT ![t].role = r]
  /\ UNCHANGED <<pendings, account, asked, promised, codesSent>>

(* The form is sent when all its fields are right. *)
handleSubmit(t) ==
  /\ RegisterView(t).form /\ RegisterView(t).button
  /\ \/ promised < MaxRegistrations
        /\ reg' = [reg EXCEPT ![t].step = "sent", ![t].wrong = {}, ![t].told = "none"]
     \/ reg' = [reg EXCEPT ![t].wrong = {"fields"}, ![t].told = "none"]
  /\ UNCHANGED <<pendings, account, asked, promised, codesSent>>

(* The server: an email with an account is refused, any other is promised. *)
register_user(t) ==
  /\ reg[t].page = "register" /\ reg[t].step = "sent" /\ promised < MaxRegistrations
  /\ IF account # 0
     THEN reg' = [reg EXCEPT ![t].step = "refused"] /\ UNCHANGED <<pendings, promised>>
     ELSE /\ promised' = promised + 1
          /\ pendings' = [pendings EXCEPT ![promised + 1] = [role |-> reg[t].role, left |-> PendingTime]]
          /\ reg' = [reg EXCEPT ![t].step = "done", ![t].token = promised + 1]
  /\ UNCHANGED <<account, asked, codesSent>>

RegisterAnswer(t) ==
  /\ reg[t].page = "register" /\ reg[t].step \in {"refused", "done"}
  /\ reg' = [reg EXCEPT ![t].step = "idle",
               ![t].page = IF reg[t].step = "done" THEN "code" ELSE @,
               ![t].told = IF reg[t].step = "done" THEN @ ELSE "refused"]
  /\ UNCHANGED <<pendings, account, asked, promised, codesSent>>

(* The code page of a token may be opened in another tab: the token is in  *)
(* the address.                                                            *)
OpenCodePage(t) ==
  /\ reg[t] = AtRegister
  /\ \E u \in RegTabs :
       /\ reg[u].page = "code"
       /\ reg' = [reg EXCEPT ![t].page = "code", ![t].token = reg[u].token, ![t].role = reg[u].role]
  /\ UNCHANGED <<pendings, account, asked, promised, codesSent>>

SendCode(t) ==
  /\ SetupView(t).form /\ SetupView(t).qr /\ SetupView(t).button /\ codesSent < MaxCodes
  /\ \E right \in BOOLEAN : reg' = [reg EXCEPT ![t].step = "sent", ![t].right = right, ![t].told = "none"]
  /\ codesSent' = codesSent + 1
  /\ UNCHANGED <<pendings, account, asked, promised>>

(* complete_registration reads the promise and compares the code ... *)
get_pending_registration(t) ==
  /\ reg[t].page = "code" /\ reg[t].step = "sent"
  /\ reg' = [reg EXCEPT ![t].step = IF pendings[reg[t].token].left > 0 /\ reg[t].right THEN "found" ELSE "refused"]
  /\ UNCHANGED <<pendings, account, asked, promised, codesSent>>

\* (fault) The account of the email is written over.
CompleteOver(t) ==
  /\ reg[t].page = "code" /\ reg[t].step = "found"
  /\ account' = reg[t].token
  /\ asked' = IF pendings[reg[t].token].role = "firefighter" THEN asked \cup {reg[t].token} ELSE asked
  /\ reg' = [reg EXCEPT ![t].step = "written"]
  /\ UNCHANGED <<pendings, promised, codesSent>>

(* ... writes the account, with a role request for a firefighter: the      *)
(* database has one account for an email and refuses a second ...          *)
complete_registration(t) ==
  /\ reg[t].page = "code" /\ reg[t].step = "found"
  /\ IF account # 0
     THEN reg' = [reg EXCEPT ![t].step = "refused"] /\ UNCHANGED <<account, asked>>
     ELSE /\ account' = reg[t].token
          /\ asked' = IF pendings[reg[t].token].role = "firefighter" THEN asked \cup {reg[t].token} ELSE asked
          /\ reg' = [reg EXCEPT ![t].step = "written"]
  /\ UNCHANGED <<pendings, promised, codesSent>>

(* ... and forgets the promise. *)
delete_pending_registration(t) ==
  /\ reg[t].step = "written"
  /\ pendings' = [pendings EXCEPT ![reg[t].token].left = 0]
  /\ reg' = [reg EXCEPT ![t].step = "done"]
  /\ UNCHANGED <<account, asked, promised, codesSent>>

CompletionAnswer(t) ==
  /\ reg[t].page = "code" /\ reg[t].step \in {"refused", "done"}
  /\ reg' = [reg EXCEPT ![t].step = "idle",
               ![t].page = IF reg[t].step = "done" THEN "home" ELSE @,
               ![t].told = IF reg[t].step = "done" THEN @ ELSE "refused"]
  /\ UNCHANGED <<pendings, account, asked, promised, codesSent>>

AnswerLost(t) ==
  /\ reg[t].step \in {"sent", "refused", "done"}
  /\ reg' = [reg EXCEPT ![t].step = "idle", ![t].told = "failed",
                        ![t].token = IF reg[t].page = "register" THEN 0 ELSE @]
  /\ UNCHANGED <<pendings, account, asked, promised, codesSent>>

(* Back to the start, by a link of the page. *)
StartAgain(t) ==
  /\ reg[t].step = "idle" /\ reg[t].page = "code" /\ reg[t].told # "none"
  /\ reg' = [reg EXCEPT ![t] = AtRegister]
  /\ UNCHANGED <<pendings, account, asked, promised, codesSent>>

PendingsExpire ==
  /\ \E n \in Tokens : pendings[n].left > 0
  /\ pendings' = [n \in Tokens |-> [pendings[n] EXCEPT !.left = IF @ > 0 THEN @ - 1 ELSE 0]]
  /\ UNCHANGED <<account, asked, reg, promised, codesSent>>

RegisteringStep(t) ==
  \/ handleChange(t) \/ handleSubmit(t) \/ register_user(t) \/ RegisterAnswer(t) \/ OpenCodePage(t)
  \/ SendCode(t) \/ get_pending_registration(t) \/ complete_registration(t)
  \/ delete_pending_registration(t) \/ CompletionAnswer(t) \/ AnswerLost(t) \/ StartAgain(t)
RegisteringNext == (\E t \in RegTabs : RegisteringStep(t)) \/ PendingsExpire
RegisteringSpec == RegisteringInit /\ [][RegisteringNext]_registeringVars

-----------------------------------------------------------------------------
RegisteringTypeOK ==
  /\ pendings \in [Tokens -> [role : RequestedRoles, left : 0..PendingTime]]
  /\ account \in 0..MaxRegistrations /\ asked \subseteq Tokens
  /\ reg \in [RegTabs -> [page : {"register", "code", "home"}, wrong : SUBSET {"fields"}, role : RequestedRoles,
                          token : 0..MaxRegistrations,
                          step : {"idle", "sent", "refused", "found", "written", "done"},
                          right : BOOLEAN, told : {"none", "refused", "failed"}]]
  /\ promised \in 0..MaxRegistrations /\ codesSent \in 0..MaxCodes

(* A tab that is led home has the account that was made from its own       *)
(* registration, and the account asks for the role of that registration    *)
(* and for no other, however many registrations of the email wait or are   *)
(* completed at once.                                                      *)
HomeIsTheirOwn ==
  /\ \A t \in RegTabs : reg[t].page = "home" => account # 0 /\ reg[t].token = account
  /\ asked = {n \in Tokens : n = account /\ pendings[n].role = "firefighter"}

(* An account, once made, stays whose it is. *)
AccountStays == [][account # 0 => account' = account]_registeringVars
=============================================================================
