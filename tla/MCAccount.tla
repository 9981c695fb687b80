------------------------------ MODULE MCAccount ------------------------------
(* An instance for TLC of the modules about accounts, sessions, roles, the *)
(* review of reports and volunteers' machines, each in a scene of its own. *)
EXTENDS SignIn, Registering, PasswordReset, ProfileForms, RoleDesk, ReviewDesk,
        BrowserSession, MachinesPage, TLC

CONSTANTS t1, t2, w1, w2, a1, u1, u2, m1

(* The schedule of the code, 5 to 9 failures and a lock at 10, made short. *)
Schedule == (2 :> 1) @@ (3 :> 2)
(* The tabs, the profile pages and the reviewers are told apart by nothing. *)
Tabs == Permutations({t1, t2})

TwoOwners == (u1 :> [first |-> "user", all |-> {"user", "firefighter"}])
          @@ (u2 :> [first |-> "admin", all |-> {"admin"}])

VARIABLE scene

accountVars ==
  <<signInVars, registeringVars, resetVars, profileVars, roleVars, reviewVars, sessionVars, machineVars>>

(* A scene that is not played starts in one state only. *)
AccountInit ==
  /\ SignInInit /\ RegisteringInit /\ ResetInit /\ ProfileInit /\ RoleInit /\ ReviewInit
  /\ SessionInit /\ MachinesInit
  /\ scene \in {"signin", "register", "reset", "profile", "roles", "review", "session", "machines"}
  /\ scene # "signin" => twoFactorOn
  /\ scene # "profile" => row.on
  /\ scene # "machines" => nodes = <<>> /\ presses = 1

AccountNext ==
  /\ UNCHANGED scene
  /\ \/ scene = "signin" /\ SignInNext
        /\ UNCHANGED <<registeringVars, resetVars, profileVars, roleVars, reviewVars, sessionVars, machineVars>>
     \/ scene = "register" /\ RegisteringNext
        /\ UNCHANGED <<signInVars, resetVars, profileVars, roleVars, reviewVars, sessionVars, machineVars>>
     \/ scene = "reset" /\ ResetNext
        /\ UNCHANGED <<signInVars, registeringVars, profileVars, roleVars, reviewVars, sessionVars, machineVars>>
     \/ scene = "profile" /\ ProfileNext
        /\ UNCHANGED <<signInVars, registeringVars, resetVars, roleVars, reviewVars, sessionVars, machineVars>>
     \/ scene = "roles" /\ RoleNext
        /\ UNCHANGED <<signInVars, registeringVars, resetVars, profileVars, reviewVars, sessionVars, machineVars>>
     \/ scene = "review" /\ ReviewNext
        /\ UNCHANGED <<signInVars, registeringVars, resetVars, profileVars, roleVars, sessionVars, machineVars>>
     \/ scene = "session" /\ SessionNext
        /\ UNCHANGED <<signInVars, registeringVars, resetVars, profileVars, roleVars, reviewVars, machineVars>>
     \/ scene = "machines" /\ MachinesNext
        /\ UNCHANGED <<signInVars, registeringVars, resetVars, profileVars, roleVars, reviewVars, sessionVars>>

AccountSpec ==
  AccountInit /\ [][AccountNext]_<<scene, accountVars>>

-----------------------------------------------------------------------------
TypeOK ==
  /\ SignInTypeOK /\ RegisteringTypeOK /\ ResetTypeOK /\ ProfileTypeOK /\ RoleTypeOK /\ ReviewTypeOK
  /\ SessionTypeOK /\ MachinesTypeOK

(* Accounts and their passwords: see FailuresInARow, ButtonWaits,          *)
(* HomeIsTheirOwn, LinkWorksOnce, SaidIsSet, ProfileIsTheRow and           *)
(* NoticesAreTrue; roles and reports: see OnePendingEach,                  *)
(* GrantsAreOnRecord, DeskLearns, DeskSeesItsChanges, ReasonFitsStatus and *)
(* CardsWaitTheirTurn; sessions and machines: see BounceHasACause,         *)
(* SessionsEndForAReason and PagesAreTrue.                                 *)
AccountsHold ==
  /\ scene = "signin" => FailuresInARow /\ ButtonWaits
  /\ scene = "register" => HomeIsTheirOwn
  /\ scene = "reset" => LinkWorksOnce /\ SaidIsSet
  /\ scene = "profile" => ProfileIsTheRow /\ NoticesAreTrue
  /\ scene = "roles" => OnePendingEach /\ GrantsAreOnRecord /\ DeskLearns
  /\ scene = "review" => DeskSeesItsChanges /\ ReasonFitsStatus /\ CardsWaitTheirTurn
  /\ scene = "session" => BounceHasACause /\ SessionsEndForAReason
  /\ scene = "machines" => PagesAreTrue

(* What a step may not do to an account: see LockTakesARow, AccountStays;  *)
(* to a machine on a page: see RowsGoForward, OffersAreGood and            *)
(* ReturnsByADesk.                                                         *)
AccountsStay == LockTakesARow /\ AccountStays /\ MachinesMove

=============================================================================
