---------------------------- MODULE MCFireMerge ----------------------------
(* Instances of FireMerge for TLC. *)
EXTENDS FireMerge, TLC

CONSTANTS f1, f2, f3

InOrder == (f1 :> 1) @@ (f2 :> 2) @@ (f3 :> 3)

(* The middle fire grows into both others. *)
InARow == {{f1, f2}, {f2, f3}}

TwoInOrder == (f1 :> 1) @@ (f2 :> 2)
Both == {{f1, f2}}
=============================================================================
