\* An administrator removes a worker that is running a job.
SPECIFICATION Spec
CONSTANTS
  w1 = w1
  w2 = w2
  s1 = s1
  s2 = s2
  s3 = s3
  Workers = {w1}
  Socks = {s1, s2}
  WorkerOf <- OneWorkerSocks
  Jobs = {j1}
  Threads = {t1}
  RestKinds = {"remove"}
  NoSock = NoSock
PROPERTY RemovedStaysRemoved
