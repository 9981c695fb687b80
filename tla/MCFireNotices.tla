--------------------------- MODULE MCFireNotices ---------------------------
(* Instances of FireNotices for TLC. *)
EXTENDS FireNotices, TLC

CONSTANTS u1, f1, f2

(* Two rungs: every distance of the instance is on one of its own, and one *)
(* is on none.                                                             *)
OneLadder == (u1 :> {2, 10})
=============================================================================
