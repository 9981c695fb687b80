---------------------------- MODULE ProfileForms ----------------------------
(***************************************************************************)
(* The profile page of one user in several tabs: the switch of the second  *)
(* factor (app/frontend/src/components/profile/TwoFactorToggle.tsx,        *)
(* hooks/useTwoFactorToggle.ts), and the form of the name and the password *)
(* (Info.tsx, ProfilePage.tsx), with the rows of the server they change.   *)
(*                                                                         *)
(* A tab knows the row as it was when it asked, and as its own changes     *)
(* were answered.  It does not hear of the other tab's changes, nor of a   *)
(* change of its own whose answer is lost.                                 *)
(***************************************************************************)
EXTENDS Integers, FiniteSets

CONSTANTS
  ProfileTabs, PassWords, FirstPass, Names, FirstName,
  MaxProfileForms    \* bound: forms sent

ASSUME ProfileAssumption ==
  FirstPass \in PassWords /\ FirstName \in Names /\ MaxProfileForms \in Nat

VARIABLES
  row,            \* the user: name, password, second factor
  toggle,         \* a tab's switch
  info,           \* a tab's form
  shownUser,      \* the name a tab has on display
  profileForms,
  lastBy          \* (history) the tab that changed the row last, for the name and for the switch

profileVars == <<row, toggle, info, shownUser, profileForms, lastBy>>

ProfileInit ==
  /\ row \in [name : {FirstName}, pass : {FirstPass}, on : BOOLEAN]
  /\ toggle = [t \in ProfileTabs |-> [on |-> FALSE, loading |-> TRUE, step |-> "idle", next |-> FALSE,
                                      notice |-> "none", sure |-> TRUE]]
  /\ info = [t \in ProfileTabs |-> [show |-> "user", step |-> "idle", typed |-> FirstName, old |-> FirstPass,
                                    new |-> FirstPass, error |-> FALSE, done |-> "none", sure |-> TRUE]]
  /\ shownUser = [t \in ProfileTabs |-> FirstName]
  /\ profileForms = 0
  /\ lastBy = [name |-> {}, on |-> {}]

-----------------------------------------------------------------------------
(* The switch.  A status that cannot be read leaves it off and usable.     *)
fetchStatus(t) ==
  /\ toggle[t].loading
  /\ \E heard \in BOOLEAN :
       toggle' = [toggle EXCEPT ![t].loading = FALSE, ![t].on = IF heard THEN row.on ELSE @, ![t].sure = heard]
  /\ UNCHANGED <<row, info, shownUser, profileForms, lastBy>>

SwitchView(t) == [checked |-> toggle[t].on, usable |-> ~toggle[t].loading /\ toggle[t].step = "idle"]

handleToggle(t) ==
  /\ SwitchView(t).usable /\ profileForms < MaxProfileForms
  /\ toggle' = [toggle EXCEPT ![t].step = "sent", ![t].next = ~SwitchView(t).checked, ![t].notice = "none"]
  /\ profileForms' = profileForms + 1
  /\ UNCHANGED <<row, info, shownUser, lastBy>>

set_2fa(t) ==
  /\ toggle[t].step = "sent"
  /\ row' = [row EXCEPT !.on = toggle[t].next]
  /\ toggle' = [toggle EXCEPT ![t].step = "done"]
  /\ lastBy' = [lastBy EXCEPT !.on = {t}]
  /\ UNCHANGED <<info, shownUser, profileForms>>

ToggleAnswer(t) ==
  /\ \/ toggle[t].step = "done"
        /\ toggle' = [toggle EXCEPT ![t].step = "idle", ![t].on = toggle[t].next, ![t].next = FALSE, ![t].sure = TRUE,
                        ![t].notice = IF toggle[t].next THEN "enabled" ELSE "disabled"]
     \/ toggle[t].step \in {"sent", "done"}
        /\ toggle' = [toggle EXCEPT ![t].step = "idle", ![t].next = FALSE, ![t].notice = "failed",
                        ![t].sure = IF toggle[t].step = "done" THEN FALSE ELSE @]
  /\ UNCHANGED <<row, info, shownUser, profileForms, lastBy>>

-----------------------------------------------------------------------------
(* The form of the name, and of the password in its place. *)
InfoView(t) ==
  [buttons |-> IF info[t].show = "user" THEN {"edit", "password"} ELSE
               IF info[t].step = "idle" THEN {"save", "cancel"} ELSE {}]

startEdit(t) ==
  /\ "edit" \in InfoView(t).buttons /\ info[t].show = "user"
  /\ info' = [info EXCEPT ![t].show = "name", ![t].typed = shownUser[t], ![t].error = FALSE,
                ![t].done = IF @ = "password" THEN "none" ELSE @]
  /\ UNCHANGED <<row, toggle, shownUser, profileForms, lastBy>>

openPassword(t) ==
  /\ "password" \in InfoView(t).buttons
  /\ info' = [info EXCEPT ![t].show = "password", ![t].done = "none"]
  /\ UNCHANGED <<row, toggle, shownUser, profileForms, lastBy>>

cancelEdit(t) ==
  /\ "cancel" \in InfoView(t).buttons
  /\ info' = [info EXCEPT ![t].show = "user", ![t].error = FALSE, ![t].typed = FirstName, ![t].old = FirstPass, ![t].new = FirstPass]
  /\ UNCHANGED <<row, toggle, shownUser, profileForms, lastBy>>

(* A form that is not right is marked; one that is right is sent. *)
handleSave(t) ==
  /\ "save" \in InfoView(t).buttons
  /\ \/ profileForms < MaxProfileForms
        /\ \/ info[t].show = "name" /\ \E n \in Names :
                info' = [info EXCEPT ![t].step = "sent", ![t].typed = n, ![t].error = FALSE]
           \/ info[t].show = "password" /\ \E o, n \in PassWords :
                info' = [info EXCEPT ![t].step = "sent", ![t].old = o, ![t].new = n, ![t].error = FALSE]
        /\ profileForms' = profileForms + 1
     \/ info' = [info EXCEPT ![t].error = TRUE] /\ UNCHANGED profileForms
  /\ UNCHANGED <<row, toggle, shownUser, lastBy>>

(* update_profile, and edit_password, which wants the password of now and  *)
(* another one.                                                            *)
ServerSaves(t) ==
  /\ info[t].step = "sent"
  /\ \/ /\ info[t].show = "name"
        /\ row' = [row EXCEPT !.name = info[t].typed]
        /\ lastBy' = [lastBy EXCEPT !.name = {t}]
        /\ info' = [info EXCEPT ![t].step = "done"]
     \/ /\ info[t].show = "password" /\ UNCHANGED lastBy
        /\ IF info[t].old = row.pass /\ info[t].new # info[t].old
           THEN row' = [row EXCEPT !.pass = info[t].new] /\ info' = [info EXCEPT ![t].step = "done"]
           ELSE UNCHANGED row /\ info' = [info EXCEPT ![t].step = "refused"]
  /\ UNCHANGED <<toggle, shownUser, profileForms>>

SaveAnswer(t) ==
  /\ info[t].step \in {"done", "refused"}
  /\ \/ /\ info[t].step = "done"
        /\ info' = [info EXCEPT ![t].step = "idle", ![t].show = "user", ![t].done = info[t].show,
                      ![t].typed = FirstName, ![t].old = FirstPass, ![t].new = FirstPass,
                      ![t].sure = IF info[t].show = "name" THEN TRUE ELSE @]
        /\ shownUser' = IF info[t].show = "name" THEN [shownUser EXCEPT ![t] = info[t].typed] ELSE shownUser
     \/ /\ info' = [info EXCEPT ![t].step = "idle", ![t].error = TRUE,
                      ![t].sure = IF info[t].show = "name" THEN FALSE ELSE @]
        /\ UNCHANGED shownUser
  /\ UNCHANGED <<row, toggle, profileForms, lastBy>>

(* A notice goes by itself. *)
NoticeFades(t) ==
  /\ \/ toggle[t].notice \in {"enabled", "disabled"}
        /\ toggle' = [toggle EXCEPT ![t].notice = "none"] /\ UNCHANGED info
     \/ info[t].done # "none" /\ info' = [info EXCEPT ![t].done = "none"] /\ UNCHANGED toggle
  /\ UNCHANGED <<row, shownUser, profileForms, lastBy>>

ProfileStep(t) ==
  \/ fetchStatus(t) \/ handleToggle(t) \/ set_2fa(t) \/ ToggleAnswer(t)
  \/ startEdit(t) \/ openPassword(t) \/ cancelEdit(t) \/ handleSave(t) \/ ServerSaves(t) \/ SaveAnswer(t)
  \/ NoticeFades(t)
ProfileNext == \E t \in ProfileTabs : ProfileStep(t)
ProfileSpec == ProfileInit /\ [][ProfileNext]_profileVars

-----------------------------------------------------------------------------
ProfileTypeOK ==
  /\ row \in [name : Names, pass : PassWords, on : BOOLEAN]
  /\ toggle \in [ProfileTabs -> [on : BOOLEAN, loading : BOOLEAN, step : {"idle", "sent", "done"}, next : BOOLEAN,
                                 notice : {"none", "enabled", "disabled", "failed"}, sure : BOOLEAN]]
  /\ info \in [ProfileTabs -> [show : {"user", "name", "password"}, step : {"idle", "sent", "done", "refused"},
                               typed : Names, old : PassWords, new : PassWords, error : BOOLEAN,
                               done : {"none", "name", "password"}, sure : BOOLEAN]]
  /\ shownUser \in [ProfileTabs -> Names]
  /\ profileForms \in 0..MaxProfileForms
  /\ lastBy \in [name : SUBSET ProfileTabs, on : SUBSET ProfileTabs]

(* The switch, and the name on display, are the server's, for a tab that   *)
(* heard all its answers, as long as no other tab changed them.            *)
ProfileIsTheRow ==
  \A t \in ProfileTabs :
    /\ ~toggle[t].loading /\ toggle[t].sure /\ toggle[t].step = "idle" /\ lastBy.on = {t} => toggle[t].on = row.on
    /\ info[t].sure /\ info[t].step = "idle" /\ lastBy.name \subseteq {t} => shownUser[t] = row.name

(* A notice that a change was made is about a change that was made: an     *)
(* enabled factor is on until a tab switches it off.                       *)
NoticesAreTrue ==
  \A t \in ProfileTabs :
    toggle[t].notice \in {"enabled", "disabled"} /\ lastBy.on = {t} /\ toggle[t].step = "idle"
      => row.on = (toggle[t].notice = "enabled")
=============================================================================
