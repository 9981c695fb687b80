------------------------ MODULE MCWorkerRegistration ------------------------
(* Instances of WorkerRegistration: two machines with different GPUs. *)
EXTENDS WorkerRegistration, TLC

CONSTANTS m1, m2

DifferentGpus == m1 :> "RTX 5070" @@ m2 :> "RTX 3060"

Interchangeable == Permutations(Keys) \cup Permutations(Rows) \cup Permutations(Users)
                   \cup Permutations(Labels) \cup Permutations(Requests)
=============================================================================
