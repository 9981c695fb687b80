---------------------- MODULE ReportVerificationProofs ----------------------
(* Proofs about ReportVerification, for every set of reports, however they *)
(* are near, alike or by whom, and any number of concurrent verifications. *)
EXTENDS ReportVerification, TLAPS

Active == {"loaded", "checked", "judged", "committed"}

(* A run has picked what it works on and what it has still to do.          *)
PickedCovers ==
  /\ run \in [Reports -> Work]
  /\ picked \in [Reports -> SUBSET Reports]
  /\ \A q \in Reports :
       /\ run[q].todo \subseteq picked[q]
       /\ run[q].at \in Active => run[q].report \in picked[q]

LEMMA IdleIsWork ==
  ASSUME NEW at \in {"none", "done", "next"}, NEW todo \in SUBSET Reports
  PROVE  Idle(at, todo) \in Work /\ Idle(at, todo).todo = todo /\ Idle(at, todo).at = at
BY DEF Idle, Work, Reasons

(* What a call leaves when it returns. *)
LEMMA ReturnIsWork ==
  ASSUME NEW q \in Reports, run \in [Reports -> Work], NEW todo \in SUBSET Reports
  PROVE  /\ Return(q, todo) \in Work
         /\ Return(q, todo).at \in {"done", "next"}
         /\ Return(q, todo).todo \subseteq todo
         /\ Return(q, todo).at = "done" => Return(q, todo).todo = {}
<1>1. CASE todo \subseteq run[q].visited
  BY <1>1, IdleIsWork DEF Return
<1>2. CASE ~(todo \subseteq run[q].visited)
  <2>1. Return(q, todo) = [Idle("next", todo) EXCEPT !.visited = run[q].visited]
    BY <1>2 DEF Return
  <2>2. run[q].visited \in SUBSET Reports
    BY DEF Work
  <2>3. QED
    BY <2>1, <2>2 DEF Idle, Work, Reasons
<1>3. QED
  BY <1>1, <1>2

LEMMA PickedInit == Init => PickedCovers
BY IdleIsWork DEF Init, PickedCovers, Active, Idle

(* A run that returns keeps what it has still to do. *)
LEMMA ReturnKeepsPicked ==
  ASSUME PickedCovers, NEW q \in Reports, NEW more \in SUBSET Reports,
         run' = [run EXCEPT ![q] = Return(q, run[q].todo \cup more)],
         picked' = [picked EXCEPT ![q] = IF run'[q].at = "done" THEN {} ELSE @ \cup more]
  PROVE  PickedCovers'
<1> DEFINE todo == run[q].todo \cup more
<1>1. todo \in SUBSET Reports
  BY DEF PickedCovers, Work
<1>2. /\ Return(q, todo) \in Work
      /\ Return(q, todo).at \in {"done", "next"}
      /\ Return(q, todo).todo \subseteq todo
      /\ Return(q, todo).at = "done" => Return(q, todo).todo = {}
  BY <1>1, ReturnIsWork DEF PickedCovers
<1>3. run'[q] = Return(q, todo)
  BY DEF PickedCovers
<1>4. run' \in [Reports -> Work] /\ picked' \in [Reports -> SUBSET Reports]
  BY <1>2 DEF PickedCovers
<1>5. /\ run'[q].todo \subseteq picked'[q]
      /\ run'[q].at \notin Active
  BY <1>2, <1>3 DEF PickedCovers, Active
<1>6. QED
  BY <1>4, <1>5 DEF PickedCovers

(* So does a run that goes on with the same report. *)
LEMMA SameReportKeepsPicked ==
  ASSUME PickedCovers, NEW q \in Reports, NEW w \in Work,
         run' = [run EXCEPT ![q] = w], picked' = picked,
         w.todo \subseteq run[q].todo,
         w.report \in run[q].todo \/ (run[q].at \in Active /\ w.report = run[q].report)
  PROVE  PickedCovers'
BY DEF PickedCovers

-----------------------------------------------------------------------------
(* Rows that are worked on exist. *)
Known ==
  /\ \A q \in Reports : picked[q] \subseteq Submitted
  /\ admin.at = "read" => admin.report \in Submitted

Inv == TypeOK /\ PickedCovers /\ Known

LEMMA SubmittedIsRow ==
  ASSUME TypeOK, NEW r \in Submitted PROVE r \in Reports /\ row[r] \in Row
BY DEF Submitted, TypeOK, Row, NoRow, ReportStatus

(* Writing a row that exists leaves a row, and no other is touched. *)
LEMMA WriteKeepsKnown ==
  ASSUME TypeOK, Known, NEW r \in Submitted, NEW new \in Row, row' = [row EXCEPT ![r] = new]
  PROVE  row' \in [Reports -> Row \cup {NoRow}] /\ Submitted \subseteq Submitted'
<1>1. r \in Reports
  BY DEF Submitted
<1>2. new.status # "absent"
  BY DEF Row, ReportStatus
<1>3. QED
  BY <1>1, <1>2 DEF TypeOK, Submitted

LEMMA ReasonTypes ==
  /\ \A r \in Reports : Rejections(r) \subseteq Reasons
  /\ \A r \in Reports, x \in Reasons : Judgement(r, x) \in Reasons
  /\ \A x \in Reasons : Outcome(x) \in ReportStatus
  /\ \A s \in ReportStatus : StatusLevel(s) \in 0..2
<1>1. \A r \in Reports : Rejections(r) \subseteq Reasons
  BY DEF Rejections, Reasons
<1>2. \A r \in Reports, x \in Reasons : Judgement(r, x) \in Reasons
  BY DEF Judgement, Reasons
<1>3. \A x \in Reasons : Outcome(x) \in ReportStatus
  BY DEF Outcome, Reasons, ReportStatus
<1>4. \A s \in ReportStatus : StatusLevel(s) \in 0..2
  BY DEF StatusLevel, ReportStatus
<1>5. QED
  BY <1>1, <1>2, <1>3, <1>4

LEMMA InvInit == Init => Inv
<1> SUFFICES ASSUME Init PROVE Inv
  OBVIOUS
<1>1. PickedCovers
  BY PickedInit
<1>2. TypeOK
  BY <1>1, BoundsAssumption DEF Init, TypeOK, PickedCovers, Away, ReportStatus
<1>3. Known
  BY DEF Init, Known, Away
<1>4. QED
  BY <1>1, <1>2, <1>3 DEF Inv

LEMMA InvStep == Inv /\ [Next]_vars => Inv'
<1> SUFFICES ASSUME Inv, [Next]_vars PROVE Inv'
  OBVIOUS
<1> USE DEF Inv
<1>1. ASSUME NEW q \in Reports, Submit(q) PROVE Inv'
  <2>1. PickedCovers'
    BY <1>1, IdleIsWork DEF Submit, PickedCovers, Active, Idle
  <2>2. row'[q] \in Row /\ row'[q].status # "absent" /\ row' \in [Reports -> Row \cup {NoRow}]
    BY <1>1, ReasonTypes DEF Submit, TypeOK, Row, ReportStatus, Reasons
  <2>3. Submitted' = Submitted \cup {q}
    BY <1>1, <2>2 DEF Submit, Submitted, TypeOK
  <2>4. TypeOK'
    BY <1>1, <2>1, <2>2 DEF Submit, TypeOK, PickedCovers
  <2>5. Known'
    BY <1>1, <2>3 DEF Submit, Known, PickedCovers
  <2>6. QED
    BY <2>1, <2>4, <2>5
<1>2. ASSUME NEW q \in Reports, NEW r \in Reports, Take(q, r) PROVE Inv'
  <2> DEFINE w == [run[q] EXCEPT !.at = "loaded", !.report = r, !.todo = run[q].todo \ {r},
                                 !.visited = run[q].visited \cup {r}, !.seen = row[r]]
  <2>1. w \in Work /\ w.todo \subseteq run[q].todo /\ w.report = r /\ r \in run[q].todo
    BY <1>2 DEF Take, TypeOK, Work
  <2>2. run' = [run EXCEPT ![q] = w]
    BY <1>2 DEF Take, TypeOK
  <2>3. UNCHANGED <<row, admin, decisions, picked, disturbed>>
    BY <1>2 DEF Take
  <2> HIDE DEF w
  <2>4. PickedCovers'
    BY <2>1, <2>2, <2>3, SameReportKeepsPicked
  <2>5. TypeOK'
    BY <2>1, <2>2, <2>3 DEF TypeOK
  <2>6. Known'
    BY <2>1, <2>2, <2>3 DEF TypeOK, Known, PickedCovers, Submitted
  <2>7. QED
    BY <2>4, <2>5, <2>6
<1>3. ASSUME NEW q \in Reports, Check(q) PROVE Inv'
  <2>1. run[q].report \in Reports
    BY <1>3 DEF Check, PickedCovers, Active
  <2>2. PICK x \in Rejections(run[q].report) :
          run' = [run EXCEPT ![q].at = "checked", ![q].reason = x]
    BY <1>3 DEF Check
  <2> DEFINE w == [run[q] EXCEPT !.at = "checked", !.reason = x]
  <2>3. x \in Reasons /\ run[q] \in Work
    BY <2>1, ReasonTypes DEF TypeOK
  <2>4. w \in Work /\ w.todo = run[q].todo /\ w.report = run[q].report
    BY <2>3 DEF Work
  <2>5. run' = [run EXCEPT ![q] = w]
    BY <2>2 DEF TypeOK
  <2>6. PickedCovers'
    BY <1>3, <2>4, <2>5, SameReportKeepsPicked DEF Check, Active
  <2>7. disturbed' \subseteq Reports
    BY <1>3, <2>1 DEF Check, TypeOK
  <2>8. QED
    BY <1>3, <2>6, <2>7 DEF Check, TypeOK, Known, PickedCovers, Submitted
<1>4. ASSUME NEW q \in Reports, Judge(q) PROVE Inv'
  <2> DEFINE w == [run[q] EXCEPT !.at = "judged",
                                 !.reason = Judgement(run[q].report, run[q].reason)]
  <2>1. run[q].report \in Reports /\ run[q].reason \in Reasons
    BY <1>4 DEF Judge, PickedCovers, Active, Work
  <2>2. Judgement(run[q].report, run[q].reason) \in Reasons /\ run[q] \in Work
    BY <2>1, ReasonTypes DEF TypeOK
  <2> HIDE DEF w
  <2>3. w \in Work /\ w.todo = run[q].todo /\ w.report = run[q].report
    <3>1. ASSUME NEW x \in Reasons
          PROVE  LET v == [run[q] EXCEPT !.at = "judged", !.reason = x]
                 IN v \in Work /\ v.todo = run[q].todo /\ v.report = run[q].report
      BY <2>2 DEF Work
    <3>2. QED
      BY <2>2, <3>1 DEF w
  <2>4. run' = [run EXCEPT ![q] = w]
    BY <1>4 DEF Judge, TypeOK, w
  <2>5. PickedCovers'
    BY <1>4, <2>3, <2>4, SameReportKeepsPicked DEF Judge, Active
  <2>6. QED
    BY <1>4, <2>5 DEF Judge, TypeOK, Known, PickedCovers, Submitted
<1>5. ASSUME NEW q \in Reports, Commit(q) PROVE Inv'
  <2> DEFINE r == run[q].report
             seen == run[q].seen
             status == Outcome(run[q].reason)
             new == [status |-> Flush(seen.status, status, row[r].status),
                     index |-> Flush(seen.index, StatusLevel(status), row[r].index),
                     system |-> Flush(seen.system, status = "verified", row[r].system),
                     notes |-> Flush(seen.notes, run[q].reason, row[r].notes)]
  <2>1. r \in Submitted
    BY <1>5 DEF Commit, PickedCovers, Known, Active
  <2>2. row[r] \in Row /\ r \in Reports
    BY <2>1, SubmittedIsRow
  <2>3. run[q].reason \in Reasons
    BY DEF TypeOK, Work
  <2>4. status \in ReportStatus /\ StatusLevel(status) \in 0..2
    BY <2>3, ReasonTypes
  <2>5. new \in Row
    BY <2>2, <2>3, <2>4 DEF Flush, Row
  <2>6. row' = [row EXCEPT ![r] = new]
    BY <1>5 DEF Commit, TypeOK
  <2>7. row' \in [Reports -> Row \cup {NoRow}] /\ Submitted \subseteq Submitted'
    BY <2>1, <2>5, <2>6, WriteKeepsKnown
  <2>8. PickedCovers'
    <3>1. CASE status = "pending"
      <4>1. run' = [run EXCEPT ![q] = Return(q, run[q].todo \cup {})]
        <5>1. run' = [run EXCEPT ![q] = Return(q, run[q].todo)]
          BY <1>5, <3>1 DEF Commit, TypeOK
        <5>2. run[q].todo \cup {} = run[q].todo
          OBVIOUS
        <5>3. QED
          BY <5>1, <5>2
      <4>2. picked' = [picked EXCEPT ![q] = IF run'[q].at = "done" THEN {} ELSE @ \cup {}]
        BY <1>5 DEF Commit, PickedCovers
      <4>3. {} \in SUBSET Reports
        OBVIOUS
      <4>4. QED
        BY <4>1, <4>2, <4>3, ReturnKeepsPicked
    <3>2. CASE status # "pending"
      <4> DEFINE w == [run[q] EXCEPT !.at = "committed", !.seen = NoRow]
      <4>1. run' = [run EXCEPT ![q] = w]
        BY <1>5, <3>2 DEF Commit, TypeOK
      <4>2. w \in Work /\ w.todo = run[q].todo /\ w.report = run[q].report /\ w.at = "committed"
        <5>1. run[q] \in Work
          BY DEF TypeOK
        <5>2. QED
          BY <5>1 DEF Work
      <4>3. picked' = picked
        BY <1>5, <4>1, <4>2 DEF Commit, TypeOK
      <4>4. QED
        BY <1>5, <4>1, <4>2, <4>3, SameReportKeepsPicked DEF Commit, Active
    <3>3. QED
      BY <3>1, <3>2
  <2>9. \A p \in Reports : picked'[p] \subseteq picked[p]
    BY <1>5 DEF Commit, PickedCovers
  <2>10. TypeOK'
    BY <1>5, <2>2, <2>7, <2>8 DEF Commit, TypeOK, PickedCovers
  <2>11. Known'
    BY <1>5, <2>7, <2>9 DEF Commit, Known
  <2>12. QED
    BY <2>8, <2>10, <2>11
<1>6. ASSUME NEW q \in Reports, Spread(q) PROVE Inv'
  <2> DEFINE more == Corroborators(run[q].report) \ run[q].visited
  <2>1. more \subseteq Submitted /\ more \cap Standing = more
    BY DEF Corroborators, Standing
  <2>2. more \in SUBSET Reports
    BY <2>1 DEF Submitted
  <2>3. run' = [run EXCEPT ![q] = Return(q, run[q].todo \cup more)]
    BY <1>6 DEF Spread, TypeOK
  <2>4. picked' = [picked EXCEPT ![q] = IF run'[q].at = "done" THEN {} ELSE @ \cup more]
    BY <1>6, <2>1 DEF Spread
  <2>5. PickedCovers'
    BY <2>2, <2>3, <2>4, ReturnKeepsPicked
  <2>6. Known'
    BY <1>6, <2>1, <2>4 DEF Spread, Known, PickedCovers, Submitted
  <2>7. QED
    BY <1>6, <2>5, <2>6 DEF Spread, TypeOK, PickedCovers
<1>7. ASSUME NEW q \in Reports, Fail(q) PROVE Inv'
  <2>1. run' = [run EXCEPT ![q] = Return(q, run[q].todo \cup {})]
    <3>1. run' = [run EXCEPT ![q] = Return(q, run[q].todo)]
      BY <1>7 DEF Fail, TypeOK
    <3>2. run[q].todo \cup {} = run[q].todo
      OBVIOUS
    <3>3. QED
      BY <3>1, <3>2
  <2>2. picked' = [picked EXCEPT ![q] = IF run'[q].at = "done" THEN {} ELSE @ \cup {}]
    BY <1>7 DEF Fail, PickedCovers
  <2>3. {} \in SUBSET Reports
    OBVIOUS
  <2>4. PickedCovers'
    BY <2>1, <2>2, <2>3, ReturnKeepsPicked
  <2>5. QED
    BY <1>7, <2>2, <2>4 DEF Fail, TypeOK, Known, PickedCovers, Submitted
<1>8. ASSUME NEW r \in Reports, NEW s \in ReportStatus, AdminReads(r, s) PROVE Inv'
  BY <1>8, BoundsAssumption DEF AdminReads, TypeOK, Known, PickedCovers, Submitted
<1>9. CASE AdminCommits
  <2> DEFINE r == admin.report
             new == [row[r] EXCEPT
                      !.status = Flush(admin.seen.status, admin.status, row[r].status),
                      !.index = Flush(admin.seen.index, StatusLevel(admin.status), row[r].index)]
  <2>1. r \in Submitted
    BY <1>9 DEF AdminCommits, Known
  <2>2. row[r] \in Row /\ r \in Reports
    BY <2>1, SubmittedIsRow
  <2>3. admin.status \in ReportStatus /\ StatusLevel(admin.status) \in 0..2
    BY ReasonTypes DEF TypeOK
  <2>4. new \in Row
    BY <2>2, <2>3 DEF Flush, Row
  <2>5. row' = [row EXCEPT ![r] = new]
    BY <1>9, <2>2 DEF AdminCommits, TypeOK
  <2>6. row' \in [Reports -> Row \cup {NoRow}] /\ Submitted \subseteq Submitted'
    BY <2>1, <2>4, <2>5, WriteKeepsKnown
  <2>7. TypeOK'
    BY <1>9, <2>2, <2>6 DEF AdminCommits, TypeOK, Away, ReportStatus
  <2>8. QED
    BY <1>9, <2>6, <2>7 DEF AdminCommits, PickedCovers, Known, Away
<1>10. CASE UNCHANGED vars
  BY <1>10 DEF vars, TypeOK, PickedCovers, Known, Submitted
<1>11. QED
  BY <1>1, <1>2, <1>3, <1>4, <1>5, <1>6, <1>7, <1>8, <1>9, <1>10 DEF Next, Run

(* No verification and no administrator leaves a row, a verdict or pending  *)
(* work outside its type: a report that was never submitted is not written. *)
THEOREM TypesAreKept == Spec => []TypeOK
<1>1. Inv => TypeOK
  BY DEF Inv
<1>2. QED
  BY <1>1, InvInit, InvStep, PTL DEF Spec

-----------------------------------------------------------------------------
(* A report stops being rejected by the hand of an administrator, or by a  *)
(* verification that had taken it up before it was rejected.               *)
LEMMA OnlyThoseTakenUp ==
  ASSUME Inv, Next, NEW r \in Reports, row[r].status = "rejected", row'[r].status # "rejected"
  PROVE  admin.report = r \/ \E q \in Reports : run[q].report = r /\ r \in picked[q]
<1>1. ASSUME NEW q \in Reports, Submit(q)
      PROVE  r # q /\ row'[r] = row[r]
  BY <1>1 DEF Submit, Inv, TypeOK
<1>2. ASSUME NEW q \in Reports, Commit(q)
      PROVE  run[q].report \in picked[q] /\ (r # run[q].report => row'[r] = row[r])
  BY <1>2 DEF Commit, Inv, TypeOK, PickedCovers, Active
<1>3. ASSUME AdminCommits
      PROVE  r # admin.report => row'[r] = row[r]
  BY <1>3 DEF AdminCommits, Inv, TypeOK
<1>4. row' # row
  OBVIOUS
<1>5. ASSUME NEW q \in Reports, Run(q) \/ Fail(q)
      PROVE  Commit(q)
  BY <1>4, <1>5 DEF Run, Take, Check, Judge, Spread, Fail
<1>6. ASSUME NEW s \in Reports, NEW st \in ReportStatus, AdminReads(s, st)
      PROVE  FALSE
  BY <1>4, <1>6 DEF AdminReads
<1>7. QED
  BY <1>1, <1>2, <1>3, <1>5, <1>6 DEF Next

(* What was rejected stays so unless an administrator takes it back, or a  *)
(* verification does that took the report up before it was rejected:       *)
(* status_change and run_verification are the only writers, and what       *)
(* run_verification passes on are corroborators that are not rejected.     *)
THEOREM RejectionsStay == Spec => RejectedStays
<1>1. Inv /\ [Next]_vars =>
        [\A r \in Reports :
           row[r].status = "rejected" /\ row'[r].status # "rejected"
             => \/ admin.report = r
                \/ \E q \in Reports : run[q].report = r /\ r \in picked[q]]_vars
  BY OnlyThoseTakenUp DEF vars
<1>2. QED
  BY <1>1, InvInit, InvStep, PTL DEF Spec, RejectedStays

-----------------------------------------------------------------------------
(* Duplicates.  A report is as good as thrown away when a verification has *)
(* found a duplicate of it and not yet written so.                         *)
Doomed ==
  {r \in Reports \ disturbed :
     \E q \in Reports : run[q].at \in {"checked", "judged"} /\ run[q].report = r /\ run[q].reason = "duplicate"}
Marked == ThrownAway \cup Doomed

(* Whatever is marked, some of it was so for a report that is not.         *)
NoCircle == \A G \in (SUBSET Marked) \ {{}} : \E r \in G : Twins(r) \ G # {}

(* A step that marks nothing and takes no report back keeps that. *)
LEMMA MarkingNothing ==
  ASSUME NoCircle, Marked' \subseteq Marked, Submitted \subseteq Submitted'
  PROVE  NoCircle'
<1>1. SUFFICES ASSUME NEW G \in (SUBSET Marked') \ {{}} PROVE \E r \in G : Twins(r)' \ G # {}
  BY DEF NoCircle
<1>2. PICK r \in G : Twins(r) \ G # {}
  BY <1>1 DEF NoCircle
<1>3. Twins(r) \subseteq Twins(r)'
  BY DEF Twins
<1>4. QED
  BY <1>2, <1>3

(* Marked follows from the rows and from the runs that have checked.       *)
LEMMA MarkedIsOfRowsAndRuns ==
  ASSUME NEW r \in Marked', disturbed \subseteq disturbed'
  PROVE  /\ r \in Reports /\ r \notin disturbed
         /\ \/ row'[r].status = "rejected" /\ row'[r].notes = "duplicate"
            \/ \E q \in Reports : /\ run'[q].at \in {"checked", "judged"}
                                  /\ run'[q].report = r /\ run'[q].reason = "duplicate"
BY DEF Marked, ThrownAway, Doomed, Submitted

LEMMA MarkedIf ==
  ASSUME NEW r \in Reports \ disturbed,
         \/ row[r].status = "rejected" /\ row[r].notes = "duplicate"
         \/ \E q \in Reports : run[q].at \in {"checked", "judged"} /\ run[q].report = r /\ run[q].reason = "duplicate"
  PROVE  r \in Marked
BY DEF Marked, ThrownAway, Doomed, Submitted

(* A run that no longer has a finding marks nothing. *)
LEMMA RunLeaves ==
  ASSUME Inv, NoCircle, NEW q \in Reports, NEW w, run' = [run EXCEPT ![q] = w],
         w.at \notin {"checked", "judged"},
         disturbed \subseteq disturbed', row' = row
  PROVE  NoCircle'
<1>1. Marked' \subseteq Marked
  <2>1. SUFFICES ASSUME NEW r \in Marked' PROVE r \in Marked
    OBVIOUS
  <2>2. \A p \in Reports : run'[p].at \in {"checked", "judged"} => run'[p] = run[p]
    BY DEF Inv, TypeOK
  <2>3. QED
    BY <2>2, MarkedIsOfRowsAndRuns, MarkedIf
<1>2. QED
  BY <1>1, MarkingNothing DEF Submitted

(* rejection_check marks a report for a duplicate that stands; were that   *)
(* one marked too, a verification of it would be under way beside this.    *)
LEMMA CheckKeepsNoCircle ==
  ASSUME Inv, NoCircle, NEW q \in Reports, Check(q) PROVE NoCircle'
<1>0. PICK r \in Reports : r = run[q].report
  BY DEF Check, Inv, PickedCovers, Active
<1>1. /\ row' = row /\ disturbed \subseteq disturbed' /\ Submitted' = Submitted
      /\ run[q].at = "loaded"
  BY DEF Check, Submitted
<1>2. PICK x \in Rejections(r) :
        /\ run'[q].at = "checked" /\ run'[q].report = r /\ run'[q].reason = x
        /\ \A p \in Reports \ {q} : run'[p] = run[p]
  BY <1>0 DEF Check, Inv, TypeOK, Work
<1>3. ASSUME NEW s \in Marked', s # r PROVE s \in Marked
  BY <1>0, <1>1, <1>2, <1>3, MarkedIsOfRowsAndRuns, MarkedIf
<1>4. CASE Marked' \subseteq Marked
  BY <1>1, <1>4, MarkingNothing
<1>5. CASE r \in Marked' /\ r \notin Marked
  <2>1. x = "duplicate"
    BY <1>1, <1>2, <1>5, MarkedIsOfRowsAndRuns, MarkedIf
  <2>2. PICK s : s \in Duplicates(r)
    BY <2>1 DEF Rejections
  <2>3. s \notin Marked
    <3>1. SUFFICES ASSUME s \in Marked PROVE FALSE
      OBVIOUS
    <3>2. s \in Reports /\ row[s].status # "rejected"
      BY <2>2 DEF Duplicates, Standing, Submitted
    <3>3. PICK p \in Reports : run[p].at \in {"checked", "judged"} /\ run[p].report = s
      BY <3>1, <3>2 DEF Marked, ThrownAway, Doomed
    <3>4. p # q
      BY <1>1, <3>3
    <3>5. r \in disturbed'
      BY <1>0, <2>2, <3>3, <3>4 DEF Check
    <3>6. QED
      BY <1>5, <3>5 DEF Marked, ThrownAway, Doomed
  <2>4. s # r
    BY <2>2, PairsAssumption DEF Duplicates, Symmetric
  <2>5. s \in Twins(r)'
    BY <1>1, <2>2 DEF Duplicates, Standing, Twins
  <2>6. ASSUME NEW G \in (SUBSET Marked') \ {{}} PROVE \E g \in G : Twins(g)' \ G # {}
    <3>1. CASE r \in G
      <4>1. s \notin G
        BY <1>3, <2>3, <2>4
      <4>2. QED
        BY <2>5, <3>1, <4>1
    <3>2. CASE r \notin G
      <4>1. G \in (SUBSET Marked) \ {{}}
        BY <1>3, <3>2
      <4>2. PICK g \in G : Twins(g) \ G # {}
        BY <4>1 DEF NoCircle
      <4>3. Twins(g) \subseteq Twins(g)'
        BY <1>1 DEF Twins
      <4>4. QED
        BY <4>2, <4>3
    <3>3. QED
      BY <3>1, <3>2
  <2>7. QED
    BY <2>6 DEF NoCircle
<1>6. QED
  BY <1>3, <1>4, <1>5

(* The rest of a verification finds no duplicate that the check had not. *)
LEMMA JudgeKeepsNoCircle ==
  ASSUME Inv, NoCircle, NEW q \in Reports, Judge(q) PROVE NoCircle'
<1>1. /\ row' = row /\ disturbed' = disturbed /\ Submitted' = Submitted
      /\ run[q].at = "checked"
      /\ run'[q].report = run[q].report /\ run'[q].reason = Judgement(run[q].report, run[q].reason)
      /\ \A p \in Reports \ {q} : run'[p] = run[p]
  BY DEF Judge, Inv, TypeOK, Work, Submitted
<1>2. Judgement(run[q].report, run[q].reason) = "duplicate" => run[q].reason = "duplicate"
  BY DEF Judgement
<1>3. ASSUME NEW s \in Marked' PROVE s \in Marked
  BY <1>1, <1>2, MarkedIsOfRowsAndRuns, MarkedIf
<1>4. QED
  BY <1>1, <1>3, MarkingNothing

(* A verdict that is written whole marks what was doomed; a row in which   *)
(* it is mixed with another is set aside.                                  *)
LEMMA CommitKeepsNoCircle ==
  ASSUME Inv, NoCircle, NEW q \in Reports, Commit(q) PROVE NoCircle'
<1> DEFINE r == run[q].report
<1>1. /\ r \in Reports /\ r \in Submitted /\ run[q].at = "judged"
      /\ disturbed \subseteq disturbed'
  BY DEF Commit, Inv, PickedCovers, Known, Active
<1>2. run[q].reason \in Reasons /\ Outcome(run[q].reason) \in ReportStatus
  BY ReasonTypes DEF Inv, TypeOK, Work
<1>3. /\ \A s \in Reports \ {r} : row'[s] = row[s]
      /\ r \in disturbed' \/ row'[r].notes = run[q].reason
      /\ row'[r].status \in {Outcome(run[q].reason), row[r].status}
  BY <1>1 DEF Commit, Flush, Inv, TypeOK
<1>4. \A p \in Reports : run'[p].at \in {"checked", "judged"} => run'[p] = run[p]
  <2>1. Return(q, run[q].todo).at \in {"done", "next"}
    BY ReturnIsWork DEF Inv, TypeOK, Work
  <2>2. run'[q].at \in {"done", "next", "committed"}
    BY <2>1 DEF Commit, Inv, TypeOK, Work
  <2>3. \A p \in Reports \ {q} : run'[p] = run[p]
    BY DEF Commit, Inv, TypeOK
  <2>4. QED
    BY <2>2, <2>3
<1>5. Submitted \subseteq Submitted'
  <2>1. row[r].status # "absent" /\ Outcome(run[q].reason) # "absent"
    BY <1>1, <1>2 DEF Submitted, ReportStatus
  <2>2. QED
    BY <1>1, <1>3, <2>1 DEF Submitted
<1>6. ASSUME NEW s \in Marked' PROVE s \in Marked
  <2>1. CASE s # r
    BY <1>1, <1>3, <1>4, <2>1, MarkedIsOfRowsAndRuns, MarkedIf
  <2>2. CASE s = r
    <3>1. r \notin disturbed' /\ r \notin disturbed
      BY <1>1, <1>6, <2>2 DEF Marked, ThrownAway, Doomed
    <3>2. CASE run[q].reason = "duplicate"
      BY <1>1, <3>1, <3>2, <2>2, MarkedIf
    <3>3. CASE run[q].reason # "duplicate"
      <4>1. row'[r].notes # "duplicate"
        BY <1>3, <3>1, <3>3
      <4>2. QED
        BY <1>1, <1>4, <1>6, <2>2, <4>1, MarkedIsOfRowsAndRuns, MarkedIf
    <3>4. QED
      BY <3>2, <3>3
  <2>3. QED
    BY <2>1, <2>2
<1>7. QED
  BY <1>5, <1>6, MarkingNothing

LEMMA NoCircleStep == Inv /\ NoCircle /\ [Next]_vars => NoCircle'
<1> SUFFICES ASSUME Inv, NoCircle, [Next]_vars PROVE NoCircle'
  OBVIOUS
<1>1. ASSUME NEW q \in Reports, Submit(q) PROVE NoCircle'
  <2>1. /\ run'[q].at = "next" /\ row'[q].status = "pending" /\ disturbed' = disturbed
        /\ \A p \in Reports \ {q} : run'[p] = run[p] /\ row'[p] = row[p]
    BY <1>1 DEF Submit, Idle, Inv, TypeOK
  <2>2. ASSUME NEW s \in Marked' PROVE s \in Marked
    BY <2>1, MarkedIsOfRowsAndRuns, MarkedIf
  <2>3. Submitted \subseteq Submitted'
    BY <2>1 DEF Submitted
  <2>4. QED
    BY <2>2, <2>3, MarkingNothing
<1>2. ASSUME NEW q \in Reports, NEW r \in Reports, Take(q, r) PROVE NoCircle'
  <2>1. PICK w : run' = [run EXCEPT ![q] = w] /\ w.at = "loaded"
    <3>1. run' = [run EXCEPT ![q] = [run[q] EXCEPT !.at = "loaded", !.report = r, !.todo = @ \ {r},
                                                   !.visited = @ \cup {r}, !.seen = row[r]]]
      BY <1>2 DEF Take, Inv, TypeOK
    <3>2. [run[q] EXCEPT !.at = "loaded", !.report = r, !.todo = @ \ {r},
                         !.visited = @ \cup {r}, !.seen = row[r]].at = "loaded"
      BY DEF Inv, TypeOK, Work
    <3>3. QED
      BY <3>1, <3>2
  <2>2. QED
    BY <1>2, <2>1, RunLeaves DEF Take
<1>3. ASSUME NEW q \in Reports, Spread(q) \/ Fail(q) PROVE NoCircle'
  <2>1. PICK todo \in SUBSET Reports : run' = [run EXCEPT ![q] = Return(q, todo)]
    <3>1. run[q].todo \in SUBSET Reports /\ Corroborators(run[q].report) \in SUBSET Reports
      BY DEF Inv, TypeOK, Work, Corroborators, Standing, Submitted
    <3>2. CASE Spread(q)
      BY <3>1, <3>2 DEF Spread, Inv, TypeOK
    <3>3. CASE Fail(q)
      BY <3>1, <3>3 DEF Fail, Inv, TypeOK
    <3>4. QED
      BY <1>3, <3>2, <3>3
  <2>2. Return(q, todo).at \notin {"checked", "judged"}
    BY <2>1, ReturnIsWork DEF Inv, TypeOK
  <2>3. disturbed' = disturbed /\ row' = row
    BY <1>3 DEF Spread, Fail
  <2>4. QED
    BY <2>1, <2>2, <2>3, RunLeaves
<1>4. CASE AdminCommits
  <2>1. /\ disturbed' = disturbed \cup {admin.report} /\ run' = run
        /\ \A s \in Reports \ {admin.report} : row'[s] = row[s]
    BY <1>4 DEF AdminCommits, Inv, TypeOK
  <2>2. ASSUME NEW s \in Marked' PROVE s \in Marked
    <3>1. s # admin.report
      BY <2>1, <2>2 DEF Marked, ThrownAway, Doomed
    <3>2. QED
      BY <2>1, <3>1, MarkedIsOfRowsAndRuns, MarkedIf
  <2>3. Submitted \subseteq Submitted'
    <3>1. admin.report \in Submitted /\ row'[admin.report].status \in ReportStatus
      BY <1>4, SubmittedIsRow DEF AdminCommits, Inv, Known, Flush, TypeOK, Row
    <3>2. QED
      BY <2>1, <3>1 DEF Submitted, ReportStatus
  <2>4. QED
    BY <2>2, <2>3, MarkingNothing
<1>5. CASE UNCHANGED <<row, run, disturbed>>
  <2>1. Submitted' = Submitted
    BY <1>5 DEF Submitted
  <2>2. Marked' = Marked
    BY <1>5, <2>1 DEF Marked, ThrownAway, Doomed
  <2>3. QED
    BY <2>1, <2>2, MarkingNothing
<1>6. QED
  BY <1>1, <1>2, <1>3, <1>4, <1>5, CheckKeepsNoCircle, JudgeKeepsNoCircle, CommitKeepsNoCircle
     DEF Next, Run, AdminReads, vars

(* rejection_check.py, verification_runner.py: for any number of duplicate *)
(* reports, whichever of them are near which, verified in any order and by *)
(* any number of threads, the reports thrown away as duplicates never form *)
(* a circle: each group of them has a member whose twin is not among them. *)
THEOREM DuplicatesLeaveOne == Spec => []DuplicateLeavesOne
<1>1. Init => NoCircle
  <2>1. SUFFICES ASSUME Init, NEW G \in (SUBSET Marked) \ {{}} PROVE FALSE
    BY DEF NoCircle
  <2>2. \A q \in Reports : run[q].at = "none" /\ row[q].status = "absent"
    BY <2>1 DEF Init, Idle, NoRow
  <2>3. Marked = {}
    BY <2>2 DEF Marked, ThrownAway, Doomed
  <2>4. QED
    BY <2>1, <2>3
<1>2. NoCircle => DuplicateLeavesOne
  BY DEF NoCircle, Marked, DuplicateLeavesOne
<1>3. QED
  BY <1>1, <1>2, InvInit, InvStep, NoCircleStep, PTL DEF Spec

=============================================================================
