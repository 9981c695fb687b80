---------------------------- MODULE PasswordReset ----------------------------
(***************************************************************************)
(* A forgotten password: the page that asks for a link and the page the    *)
(* link opens (app/frontend/src/pages/forgot-password.tsx,                 *)
(* reset-password.tsx), in several tabs, and the server                    *)
(* (app/backend/src/services/auth/forgot_password.py), which keeps one     *)
(* link for the user and finds it before it writes the password.           *)
(***************************************************************************)
EXTENDS Integers, Sequences

CONSTANTS
  ResetTabs, Passwords, FirstPassword,
  ResetLimit,    \* RESET_REQUEST_LIMIT
  ResetTime,     \* RESET_TOKEN_TTL_MINUTES
  MaxLinks,      \* bound: links asked for
  MaxResets      \* bound: new passwords sent

ASSUME ResetAssumption ==
  /\ FirstPassword \in Passwords
  /\ ResetLimit \in Nat /\ ResetTime \in Nat \ {0} /\ MaxLinks \in Nat /\ MaxResets \in Nat

Links == 1..MaxLinks

VARIABLES
  password,
  link, linkLeft,    \* the token of the user's row, 0: none; what is left of its time
  linksAsked,        \* the counter of the hour
  linksSent,         \* links in the mailbox
  reset,             \* a tab: its page, its link, its request
  resets,
  setBy,             \* (history) the links that set the password, in order
  raced              \* (history) the links that two requests had found at once

resetVars == <<password, link, linkLeft, linksAsked, linksSent, reset, resets, setBy, raced>>

AtForgot == [page |-> "forgot", link |-> 0, typed |-> FirstPassword, step |-> "idle", told |-> "none"]

ResetInit ==
  /\ password = FirstPassword
  /\ link = 0 /\ linkLeft = 0 /\ linksAsked = 0 /\ linksSent = {}
  /\ reset = [t \in ResetTabs |-> AtForgot]
  /\ resets = 0 /\ setBy = <<>> /\ raced = {}

-----------------------------------------------------------------------------
(* The form gives way to its success; the button rests while it waits. *)
ForgotView(t) == [form |-> reset[t].page = "forgot" /\ reset[t].told # "sent", button |-> reset[t].step = "idle"]
ResetView(t) == [form |-> reset[t].page = "reset" /\ reset[t].told # "set", button |-> reset[t].step = "idle"]

(* The email is sent if it looks like one. *)
AskForLink(t) ==
  /\ ForgotView(t).form /\ ForgotView(t).button
  /\ \/ reset' = [reset EXCEPT ![t].step = "sent", ![t].told = "none"]
     \/ reset' = [reset EXCEPT ![t].told = "wrong"]
  /\ UNCHANGED <<password, link, linkLeft, linksAsked, linksSent, resets, setBy, raced>>

(* A few links an hour; a new one takes the place of the one before.  The  *)
(* answer is the same when nothing is sent.                                *)
request_password_reset(t) ==
  /\ reset[t].page = "forgot" /\ reset[t].step = "sent" /\ linksAsked < MaxLinks
  /\ linksAsked' = linksAsked + 1
  /\ IF linksAsked + 1 > ResetLimit THEN UNCHANGED <<link, linkLeft, linksSent>>
     ELSE link' = linksAsked + 1 /\ linkLeft' = ResetTime /\ linksSent' = linksSent \cup {linksAsked + 1}
  /\ reset' = [reset EXCEPT ![t].step = "done"]
  /\ UNCHANGED <<password, resets, setBy, raced>>

OpenLink(t) ==
  /\ reset[t].step = "idle" /\ reset[t].page = "forgot"
  /\ \E n \in linksSent :
       reset' = [reset EXCEPT ![t] = [page |-> "reset", link |-> n, typed |-> FirstPassword,
                                      step |-> "idle", told |-> "none"]]
  /\ UNCHANGED <<password, link, linkLeft, linksAsked, linksSent, resets, setBy, raced>>

(* A password that is good enough and typed twice is sent with the link. *)
SetPassword(t) ==
  /\ ResetView(t).form /\ ResetView(t).button
  /\ \/ /\ resets < MaxResets
        /\ \E p \in Passwords : reset' = [reset EXCEPT ![t].step = "sent", ![t].typed = p, ![t].told = "none"]
        /\ resets' = resets + 1
     \/ reset' = [reset EXCEPT ![t].told = "wrong"] /\ UNCHANGED resets
  /\ UNCHANGED <<password, link, linkLeft, linksAsked, linksSent, setBy, raced>>

(* reset_password finds the user of the link, in its time ... *)
reset_password(t) ==
  /\ reset[t].page = "reset" /\ reset[t].step = "sent"
  /\ IF reset[t].link = link /\ linkLeft > 0
     THEN /\ reset' = [reset EXCEPT ![t].step = "found"]
          /\ raced' = IF \E u \in ResetTabs : reset[u].step = "found" /\ reset[u].link = link
                      THEN raced \cup {link} ELSE raced
     ELSE reset' = [reset EXCEPT ![t].step = "refused"] /\ UNCHANGED raced
  /\ UNCHANGED <<password, link, linkLeft, linksAsked, linksSent, resets, setBy>>

\* (fault) The row's link stays.
WriteAndKeepLink(t) ==
  /\ reset[t].step = "found"
  /\ password' = reset[t].typed
  /\ setBy' = Append(setBy, reset[t].link)
  /\ reset' = [reset EXCEPT ![t].step = "done"]
  /\ UNCHANGED <<link, linkLeft, linksAsked, linksSent, resets, raced>>

(* ... and writes the password, with which the row's link is gone. *)
WritePassword(t) ==
  /\ reset[t].step = "found"
  /\ password' = reset[t].typed
  /\ link' = 0 /\ linkLeft' = 0
  /\ setBy' = Append(setBy, reset[t].link)
  /\ reset' = [reset EXCEPT ![t].step = "done"]
  /\ UNCHANGED <<linksAsked, linksSent, resets, raced>>

ResetAnswer(t) ==
  /\ reset[t].step \in {"done", "refused"}
  /\ \E heard \in BOOLEAN :
       reset' = [reset EXCEPT ![t].step = "idle",
                  ![t].told = IF ~heard THEN "failed"
                              ELSE IF reset[t].step = "refused" THEN "refused"
                              ELSE IF reset[t].page = "forgot" THEN "sent" ELSE "set"]
  /\ UNCHANGED <<password, link, linkLeft, linksAsked, linksSent, resets, setBy, raced>>

(* Back to the first page, or the page opened again. *)
ForgetAgain(t) ==
  /\ reset[t].step = "idle" /\ reset[t] # AtForgot
  /\ reset' = [reset EXCEPT ![t] = AtForgot]
  /\ UNCHANGED <<password, link, linkLeft, linksAsked, linksSent, resets, setBy, raced>>

LinkAges ==
  /\ linkLeft > 0 /\ linkLeft' = linkLeft - 1
  /\ UNCHANGED <<password, link, linksAsked, linksSent, reset, resets, setBy, raced>>

ResetStep(t) ==
  \/ AskForLink(t) \/ request_password_reset(t) \/ OpenLink(t) \/ SetPassword(t) \/ reset_password(t)
  \/ WritePassword(t) \/ ResetAnswer(t) \/ ForgetAgain(t)
ResetNext == (\E t \in ResetTabs : ResetStep(t)) \/ LinkAges
ResetSpec == ResetInit /\ [][ResetNext]_resetVars

-----------------------------------------------------------------------------
ResetTypeOK ==
  /\ password \in Passwords
  /\ link \in 0..MaxLinks /\ linkLeft \in 0..ResetTime
  /\ linksAsked \in 0..MaxLinks /\ linksSent \subseteq Links
  /\ reset \in [ResetTabs -> [page : {"forgot", "reset"}, link : 0..MaxLinks, typed : Passwords,
                              step : {"idle", "sent", "found", "done", "refused"},
                              told : {"none", "wrong", "sent", "set", "refused", "failed"}]]
  /\ resets \in 0..MaxResets
  /\ setBy \in Seq(Links) /\ raced \subseteq Links

(* A link sets a password once, and twice only for two requests that found *)
(* it together.                                                            *)
LinkWorksOnce ==
  \A i, j \in DOMAIN setBy : i < j /\ setBy[i] = setBy[j] => setBy[i] \in raced

(* A page that says the password is set was right: the link it came with   *)
(* did set it.                                                             *)
SaidIsSet ==
  \A t \in ResetTabs :
    reset[t].page = "reset" /\ reset[t].told = "set" => \E i \in DOMAIN setBy : setBy[i] = reset[t].link
=============================================================================
