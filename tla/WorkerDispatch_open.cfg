\* One worker with a reconnect, two jobs, pausing and resuming by REST.
SPECIFICATION Spec
CONSTANTS
  w1 = w1
  w2 = w2
  s1 = s1
  s2 = s2
  s3 = s3
  Workers = {w1}
  Socks = {s1, s2}
  WorkerOf <- OneWorkerSocks
  Jobs = {j1, j2}
  Threads = {t1}
  RestKinds = {"activate", "deactivate"}
  NoSock = NoSock
INVARIANTS
  TypeOK
  ConnectionsAreServed
  BooksAgree
  AnswersAreGenuine
SYMMETRY Interchangeable
