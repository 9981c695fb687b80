-------------------------- MODULE MCSimulationJob --------------------------
(* Instances of SimulationJob for TLC. *)
EXTENDS SimulationJob, TLC

CONSTANTS r1, r2, t1, t2, f1, f2, near, far

(* Two people ask for the same fire; they have drawn different lines. *)
OneEach == (t1 :> r1) @@ (t2 :> r2)
SameFire == (t1 :> {f1}) @@ (t2 :> {f1})
DrawnByTwo == (t1 :> {}) @@ (t2 :> {near, far})
SameKey == (r1 :> f1) @@ (r2 :> f1)
=============================================================================
