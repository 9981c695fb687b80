\* Two people ask for one fire; they have drawn different lines.
SPECIFICATION FairSpec
CONSTANTS
  r1 = r1  r2 = r2  t1 = t1  t2 = t2  f1 = f1  f2 = f2
  near = near  far = far  NoAnswer = NoAnswer  NoJob = NoJob
  Lines = {near, far}
  Requests = {r1, r2}  Tasks = {t1, t2}
  RequestOf <- OneEach  Fires <- SameFire  LinesOf <- DrawnByTwo
  Near = {near}  InGrid = {near}
  ProgressKeys = {f1}  ProgressKey <- SameKey
  Permits = 1  CloudWorkers = {w1}
INVARIANTS TypeOK AnswersFit PermitsAddUp ProgressIsOfARunningJob
  
CHECK_DEADLOCK FALSE
