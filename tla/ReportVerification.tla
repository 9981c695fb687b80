------------------------- MODULE ReportVerification -------------------------
(***************************************************************************)
(* The automatic verification of fire reports                              *)
(* (app/backend/src/services/verification, services/users/fire_report.py). *)
(*                                                                         *)
(* Every report gets a background verification.  It reads the report,      *)
(* looks at the reports around it, asks a map service whether the place is *)
(* on land, and writes a verdict; a verdict that is not "manual" makes it  *)
(* verify the report's corroborators too, and theirs, each once.           *)
(* Verifications run in threads, each query sees what is committed when it *)
(* runs, and an administrator may decide meanwhile.                        *)
(*                                                                         *)
(* Places, dates and photographs are relations between reports.  The       *)
(* depth-first order of re-verification is left open: pending reports are  *)
(* a set.                                                                  *)
(***************************************************************************)
EXTENDS Integers, FiniteSets

CONSTANTS
  Reports,
  Anonymous, Author,  \* the user of each report, or Anonymous
  Near,               \* pairs at most 2 km and 12 h apart
  Close,              \* pairs at most 500 m and 6 h apart
  SamePhoto,          \* pairs with one photo hash
  Unfit,              \* no coordinates, photo or plausible date, or abroad
  Water,              \* not on land
  Hasty,              \* more than the third report of its author in an hour
  MinCorroborating,   \* MIN_CORROBORATING_REPORTS
  NoReport,
  MaxRunning,         \* bound: verifications running at the same time
  Decided,            \* bound: reports an administrator may decide on, and how
  MaxDecisions        \* bound: decisions made

Symmetric(R) == R \subseteq Reports \X Reports
                /\ \A p \in R : p[1] # p[2] /\ <<p[2], p[1]>> \in R
ASSUME PairsAssumption == Symmetric(Near) /\ Symmetric(Close) /\ Symmetric(SamePhoto)
ASSUME BoundsAssumption == MaxDecisions \in Nat
ASSUME ReportsAssumption == DOMAIN Author = Reports /\ NoReport \notin Reports

VARIABLES
  row,        \* fire_reports
  run,        \* the background verification each report was submitted with
  admin,      \* status_change
  decisions,  \* how many of those
  picked,     \* history: what each run took up while it was not rejected
  disturbed   \* history: reports verified while a duplicate was, with two verdicts
              \* in their row, or decided by hand

vars == <<row, run, admin, decisions, picked, disturbed>>

ReportStatus == {"pending", "verified", "rejected"}
Reasons == {"none", "unfit", "duplicate", "water", "unavailable", "rate", "photo",
            "corroborated", "insufficient"}
Row == [status : ReportStatus, index : 0..2, system : BOOLEAN, notes : Reasons]
NoRow == [status |-> "absent"]
Work == [at : {"none", "done", "next", "loaded", "checked", "judged", "committed"},
         report : Reports \cup {NoReport}, todo : SUBSET Reports, visited : SUBSET Reports,
         seen : Row \cup {NoRow}, reason : Reasons]

TypeOK ==
  /\ row \in [Reports -> Row \cup {NoRow}]
  /\ run \in [Reports -> Work]
  /\ admin \in [at : {"away", "read"}, report : Reports \cup {NoReport},
                seen : Row \cup {NoRow}, status : ReportStatus]
  /\ decisions \in 0..MaxDecisions
  /\ picked \in [Reports -> SUBSET Reports]
  /\ disturbed \subseteq Reports

\* SQLAlchemy writes the columns that differ from what it loaded.
Flush(loaded, new, stored) == IF loaded = new THEN stored ELSE new

(* (fault) "rejected" as the step after "verified" *)
LevelPastRejected(s) == CASE s = "pending" -> 1 [] s = "verified" -> 2 [] OTHER -> 3
StatusLevel(s) == CASE s = "pending" -> 1 [] OTHER -> 2

Submitted == {r \in Reports : row[r].status # "absent"}
Standing == {r \in Submitted : row[r].status # "rejected"}

-----------------------------------------------------------------------------
(***************************************************************************)
(* The queries.                                                            *)
(***************************************************************************)

\* user_id != NULL is no restriction here; user_id != u leaves NULLs out.
OtherPeople(r) ==
  {s \in Submitted : Author[r] # Anonymous =>
                       Author[s] \notin {Author[r], Anonymous}}

(* (fault) rejected reports corroborate *)
CorroboratorsRejectedToo(r) == {s \in OtherPeople(r) : <<r, s>> \in Near}
Corroborators(r) == {s \in OtherPeople(r) \cap Standing : <<r, s>> \in Near}

(* (fault) rejected reports are duplicated too *)
DuplicatesRejectedToo(r) ==
  {s \in Submitted : <<r, s>> \in Close /\ Author[s] = Author[r] /\ Author[r] # Anonymous}
Duplicates(r) ==
  {s \in Standing : <<r, s>> \in Close /\ Author[s] = Author[r] /\ Author[r] # Anonymous}

\* Here user_id != NULL is IS NOT NULL.
PhotoMatches(r) ==
  {s \in Standing : <<r, s>> \in SamePhoto /\ Author[s] \notin {Author[r], Anonymous}}

\* reporter_trust_score >= MIN_TRUST_SCORE; nobody known has 50
Trusted(u) ==
  LET judged(st) == Cardinality({s \in Submitted : Author[s] = u /\ row[s].status = st})
  IN u = Anonymous \/ judged("verified") >= judged("rejected")

\* What rejection_check may say of r; the map service may not answer.
Rejections(r) ==
  IF r \in Unfit THEN {"unfit"}
  ELSE IF Duplicates(r) # {} THEN {"duplicate"}
  ELSE {IF r \in Water THEN "water" ELSE "none", "unavailable"}

\* The rest of auto_verify_report.
Judgement(r, rejection) ==
  IF rejection # "none" THEN rejection
  ELSE IF r \in Hasty THEN "rate"
  ELSE IF PhotoMatches(r) # {} THEN "photo"
  ELSE IF Cardinality(Corroborators(r)) >= MinCorroborating /\ Trusted(Author[r])
  THEN "corroborated" ELSE "insufficient"

Outcome(reason) ==
  CASE reason = "corroborated" -> "verified"
    [] reason \in {"insufficient", "unavailable"} -> "pending"
    [] OTHER -> "rejected"

-----------------------------------------------------------------------------
(***************************************************************************)
(* Submission and verification.                                            *)
(***************************************************************************)

Idle(at, todo) == [at |-> at, report |-> NoReport, todo |-> todo, visited |-> {},
                   seen |-> NoRow, reason |-> "none"]

Away == [at |-> "away", report |-> NoReport, seen |-> NoRow, status |-> "pending"]

Init ==
  /\ row = [r \in Reports |-> NoRow]
  /\ run = [r \in Reports |-> Idle("none", {})]
  /\ admin = Away
  /\ decisions = 0
  /\ picked = [r \in Reports |-> {}]
  /\ disturbed = {}

\* create_fire_report and the task its route adds
Submit(r) ==
  /\ row[r].status = "absent"
  /\ row' = [row EXCEPT ![r] = [status |-> "pending", index |-> StatusLevel("pending"),
                                system |-> FALSE, notes |-> "none"]]
  /\ run' = [run EXCEPT ![r] = Idle("next", {r})]
  /\ picked' = [picked EXCEPT ![r] = {r}]
  /\ UNCHANGED <<admin, decisions, disturbed>>

\* The call returns; the next report not yet visited is called, if any.
Return(q, todo) ==
  IF todo \subseteq run[q].visited THEN Idle("done", {})
  ELSE [Idle("next", todo) EXCEPT !.visited = run[q].visited]

Begun == {q \in Reports : run[q].visited # {}}

(* (fault) every nested call starts with visited reports of its own *)
TakeForgetting(q, r) ==
  /\ run[q].at = "next" /\ r \in run[q].todo
  /\ q \in Begun \/ Cardinality(Begun) < MaxRunning
  /\ run' = [run EXCEPT ![q].at = "loaded", ![q].report = r, ![q].todo = @ \ {r},
                        ![q].visited = {r}, ![q].seen = row[r]]
  /\ UNCHANGED <<row, admin, decisions, picked, disturbed>>

\* run_verification is called for r: a session is opened and the report read.
Take(q, r) ==
  /\ run[q].at = "next" /\ r \in run[q].todo \ run[q].visited
  /\ q \in Begun \/ Cardinality(Begun) < MaxRunning
  /\ run' = [run EXCEPT ![q].at = "loaded", ![q].report = r, ![q].todo = @ \ {r},
                        ![q].visited = @ \cup {r}, ![q].seen = row[r]]
  /\ UNCHANGED <<row, admin, decisions, picked, disturbed>>

\* rejection_check; the map service is asked last.
Check(q) ==
  LET r == run[q].report
      beside == {p \in Reports \ {q} : run[p].at \in {"checked", "judged"}
                                       /\ run[p].report \in Duplicates(r)}
  IN /\ run[q].at = "loaded"
     /\ \E x \in Rejections(r) :
          run' = [run EXCEPT ![q].at = "checked", ![q].reason = x]
     /\ disturbed' = IF beside = {} THEN disturbed ELSE disturbed \cup {r}
     /\ UNCHANGED <<row, admin, decisions, picked>>

\* The queries after it.
Judge(q) ==
  /\ run[q].at = "checked"
  /\ run' = [run EXCEPT ![q].at = "judged", ![q].reason = Judgement(run[q].report, @)]
  /\ UNCHANGED <<row, admin, decisions, picked, disturbed>>

\* A verdict by the system is followed by its corroborators' verifications.
Commit(q) ==
  LET r == run[q].report
      seen == run[q].seen
      status == Outcome(run[q].reason)
  IN /\ run[q].at = "judged"
     /\ row' = [row EXCEPT ![r] =
                 [status |-> Flush(seen.status, status, @.status),
                  index |-> Flush(seen.index, StatusLevel(status), @.index),
                  system |-> Flush(seen.system, status = "verified", @.system),
                  notes |-> Flush(seen.notes, run[q].reason, @.notes)]]
     /\ run' = [run EXCEPT ![q] = IF status = "pending" THEN Return(q, @.todo)
                                  ELSE [@ EXCEPT !.at = "committed", !.seen = NoRow]]
     /\ picked' = IF run'[q].at = "done" THEN [picked EXCEPT ![q] = {}] ELSE picked
     /\ disturbed' = IF row'[r].status = status /\ row'[r].notes = run[q].reason THEN disturbed
                     ELSE disturbed \cup {r}
     /\ UNCHANGED <<admin, decisions>>

\* The corroborators are read again after the commit.
Spread(q) ==
  LET next == Corroborators(run[q].report) \ run[q].visited
  IN /\ run[q].at = "committed"
     /\ run' = [run EXCEPT ![q] = Return(q, @.todo \cup next)]
     /\ picked' = [picked EXCEPT ![q] = IF run'[q].at = "done" THEN {}
                                       ELSE @ \cup (next \cap Standing)]
     /\ UNCHANGED <<row, admin, decisions, disturbed>>

\* An exception ends the verification of one report and of what it would add.
Fail(q) ==
  /\ run[q].at \in {"loaded", "checked", "judged", "committed"}
  /\ run' = [run EXCEPT ![q] = Return(q, @.todo)]
  /\ picked' = IF run'[q].at = "done" THEN [picked EXCEPT ![q] = {}] ELSE picked
  /\ UNCHANGED <<row, admin, decisions, disturbed>>

-----------------------------------------------------------------------------
(***************************************************************************)
(* status_change, by an administrator.                                     *)
(***************************************************************************)

AdminReads(r, status) ==
  /\ admin.at = "away" /\ decisions < MaxDecisions /\ r \in Submitted /\ <<r, status>> \in Decided
  /\ admin' = [at |-> "read", report |-> r, seen |-> row[r], status |-> status]
  /\ decisions' = decisions + 1
  /\ UNCHANGED <<row, run, picked, disturbed>>

AdminCommits ==
  LET r == admin.report
  IN /\ admin.at = "read"
     /\ row' = [row EXCEPT
          ![r].status = Flush(admin.seen.status, admin.status, @),
          ![r].index = Flush(admin.seen.index, StatusLevel(admin.status), @)]
     /\ admin' = Away
     /\ disturbed' = disturbed \cup {r}
     /\ UNCHANGED <<run, decisions, picked>>

Run(q) ==
  \/ \E r \in Reports : Take(q, r)
  \/ Check(q) \/ Judge(q) \/ Commit(q) \/ Spread(q)

Next ==
  \/ \E q \in Reports : Submit(q) \/ Run(q) \/ Fail(q)
  \/ \E r \in Reports, s \in ReportStatus : AdminReads(r, s)
  \/ AdminCommits

Spec == Init /\ [][Next]_vars

\* Threads run, and the map service answers or times out after 5 s.
FairSpec == Spec /\ \A q \in Reports : WF_vars(Run(q))

-----------------------------------------------------------------------------
(* Properties. *)

(* Every verification ends, with all it leads to, though reports that      *)
(* corroborate one another lead to one another.                            *)
EveryVerificationEnds ==
  []<>(\A q \in Reports : run[q].at \in {"none", "done"})

(* What was rejected stays so unless an administrator takes it back, or a  *)
(* verification does that took the report up before it was rejected.       *)
RejectedStays ==
  [][\A r \in Reports :
       row[r].status = "rejected" /\ row'[r].status # "rejected"
         => \/ admin.report = r
            \/ \E q \in Reports : run[q].report = r /\ r \in picked[q]]_vars

(* Of a person's duplicate reports one is left: reports are not thrown     *)
(* away each for the sake of the next, in a circle; whichever are, some    *)
(* other report near one of them was the reason and is not.  Duplicates    *)
(* verified at the same moment, a row in which two verdicts are mixed, and *)
(* what was decided by hand are the exceptions.                            *)
ThrownAway == {r \in Reports \ disturbed :
                row[r].status = "rejected" /\ row[r].notes = "duplicate"}
Twins(r) == {s \in Submitted : Author[s] = Author[r] /\ <<r, s>> \in Close}
DuplicateLeavesOne ==
  \A G \in (SUBSET ThrownAway) \ {{}} : \E r \in G : Twins(r) \ G # {}

=============================================================================
