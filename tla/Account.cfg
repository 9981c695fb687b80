\* Two tabs for every page; one approvals desk; two reviewers of a
\* report; one browser; a machine on its owner's page and an administrator's.
SPECIFICATION AccountSpec
SYMMETRY Tabs
CONSTANTS
  t1 = t1 t2 = t2 w1 = w1 w2 = w2 a1 = a1 u1 = u1 u2 = u2 m1 = m1
  SignInTabs = {t1, t2}
  DelaySchedule <- Schedule
  LockoutFails = 4
  LockoutTime = 2
  FailWindow = 3
  MaxSignIns = 6
  RegTabs = {t1, t2}
  MaxRegistrations = 2
  PendingTime = 2
  MaxCodes = 3
  ResetTabs = {t1, t2}
  Passwords = {w1, w2}
  FirstPassword = w1
  ResetLimit = 2
  ResetTime = 2
  MaxLinks = 3
  MaxResets = 3
  ProfileTabs = {t1, t2}
  PassWords = {w1, w2}
  FirstPass = w1
  Names = {w1, w2}
  FirstName = w1
  MaxProfileForms = 2
  Applicants = {a1}
  Pages = {t1, t2}
  Desks = {a1}
  MaxRequests = 2
  MaxRuns = 2
  MaxDecisions = 2
  Reviewers = {t1, t2}
  MaxReviews = 2
  MaxVerdicts = 2
  SessionTabs = {t1, t2}
  Owners = {u1, u2}
  RoleOf <- TwoOwners
  MaxCookies = 3
  MaxRoleChanges = 1
  Machines = {m1}
  Volunteer = Volunteer
  Desk = Desk
  NoMachine = NoMachine
  LoopStatus = {"active", "offline"}
  MaxVersions = 2
  MaxPresses = 4
  MaxNewKeys = 1
INVARIANTS
  TypeOK
  

  
CHECK_DEADLOCK FALSE
