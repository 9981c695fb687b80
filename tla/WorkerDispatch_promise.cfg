\* Two workers, the first of which comes back once, promptly or too soon; two
\* jobs, and the broker's promise with its liveness.
SPECIFICATION SceneFairSpec
CONSTANTS
  w1 = w1
  w2 = w2
  s1 = s1
  s2 = s2
  s3 = s3
  Workers = {w1, w2}
  Socks = {s1, s2, s3}
  WorkerOf <- TwoWorkerSocks
  Jobs = {j1, j2}
  Threads = {t1}
  RestKinds = {}
  NoSock = NoSock
INVARIANTS
  PromptPoolsAreExact
PROPERTIES
  ImplementsBroker
