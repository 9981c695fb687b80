------------------------ MODULE MCReportVerification ------------------------
(* Instances of ReportVerification for TLC. *)
EXTENDS ReportVerification, TLC

CONSTANTS r1, r2, r3, ann, bob

(* Three reports of one fire: two of them by one person, from one place. *)
Neighbours == {p \in Reports \X Reports : p[1] # p[2]}
TwiceAnn == (r1 :> ann) @@ (r2 :> ann) @@ (r3 :> bob)
OnePicture == {<<r2, r3>>, <<r3, r2>>}
OnePlace == {<<r1, r2>>, <<r2, r1>>}

(* One report may be rejected by hand. *)
Decisions == {<<r1, "rejected">>}
=============================================================================
