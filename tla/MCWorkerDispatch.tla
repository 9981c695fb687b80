-------------------------- MODULE MCWorkerDispatch --------------------------
(* Instances of WorkerDispatch: which sockets belong to which worker. *)
EXTENDS WorkerDispatch, TLC

CONSTANTS w1, w2, s1, s2, s3

\* Two sockets of one worker: a reconnect.
OneWorkerSocks == [s \in {s1, s2} |-> w1]

\* Jobs, and the sockets of one worker, differ by name only.
Interchangeable == Permutations(Jobs) \cup Permutations({s1, s2})

\* Two workers, the first of which reconnects once.
TwoWorkerSocks == s1 :> w1 @@ s2 :> w1 @@ s3 :> w2
=============================================================================
