----------------------------- MODULE ReviewDesk -----------------------------
(***************************************************************************)
(* The page on which a fire report is reviewed                             *)
(* (app/frontend/src/components/admin/ReportView.tsx, reportActions.tsx,   *)
(* fireStatusActions.tsx with hooks/useReportStatus.ts, useFireStatus.ts,  *)
(* useFireReport.ts), open at several desks, and the words the tables have *)
(* for the decision of the automatic verification                          *)
(* (lib/VerificationNotes.ts).                                             *)
(*                                                                         *)
(* A desk sees the report as it was when it was fetched; two cards act on  *)
(* it, each with a request of its own.  A success fetches the report       *)
(* again, and while it loads the cards are not there: they come back as    *)
(* new, with nothing to say.                                               *)
(***************************************************************************)
EXTENDS Integers, Sequences

CONSTANTS
  Reviewers,        \* the desks
  MaxReviews,       \* bound: changes asked for
  MaxVerdicts       \* bound: runs of the automatic verification

ASSUME ReviewAssumption == MaxReviews \in Nat /\ MaxVerdicts \in Nat

ReportStatuses == {"pending", "received", "verified", "rejected"}
FireStatuses == {"active", "contained", "extinguished"}
Verdicts == {"auto_verify", "auto_reject", "manual_review"}
Cards == {"report", "fire"}
NoReport == [status |-> "none", fire |-> "active", notes |-> "none", version |-> 0]
VARIABLES
  report,       \* the server's row
  shown,        \* a desk: the report it holds
  fetching,     \* the desks whose report is being fetched
  card,         \* a desk's cards: the request each waits for, and whether it tells of a failure
  change,       \* the requests, by number; version: of the row they made
  verdicts

reviewVars == <<report, shown, fetching, card, change, verdicts>>
Quiet == [waits |-> 0, error |-> FALSE]

ReviewInit ==
  /\ report = [status |-> "received", fire |-> "active", notes |-> "none", version |-> 1]
  /\ shown = [d \in Reviewers |-> NoReport]
  /\ fetching = Reviewers
  /\ card = [k \in Reviewers \X Cards |-> Quiet]
  /\ change = <<>>
  /\ verdicts = 0

-----------------------------------------------------------------------------
(* What the page shows: a skeleton, an error, or the report with its cards *)
(* and their buttons.                                                      *)
ViewPage(d) == IF d \in fetching THEN "skeleton" ELSE IF shown[d] = NoReport THEN "error" ELSE "report"

ReportActions(d) ==
  CASE shown[d].status \in {"verified", "rejected"} -> {"pending"}
    [] shown[d].status \in {"pending", "received"} -> {"verified", "rejected"}
    [] OTHER -> {}
FireStatusActions(d) ==
  IF shown[d].status # "verified" THEN {} ELSE
  CASE shown[d].fire = "active" -> {"contained", "extinguished"}
    [] shown[d].fire = "contained" -> {"extinguished", "active"}
    [] OTHER -> {"active"}
Buttons(d, c) ==
  IF ViewPage(d) # "report" \/ card[<<d, c>>].waits # 0 THEN {}
  ELSE IF c = "report" THEN ReportActions(d) ELSE FireStatusActions(d)

NewCards(d) == [k \in DOMAIN card |-> IF k[1] = d THEN Quiet ELSE card[k]]

(* useFireReport: a report that cannot be fetched is no report. *)
ReportArrives(d) ==
  /\ d \in fetching
  /\ fetching' = fetching \ {d}
  /\ shown' \in {[shown EXCEPT ![d] = report], [shown EXCEPT ![d] = NoReport]}
  /\ UNCHANGED <<report, card, change, verdicts>>

(* The page is opened again. *)
OpenReport(d) ==
  /\ ViewPage(d) = "error"
  /\ fetching' = fetching \cup {d}
  /\ card' = NewCards(d)
  /\ UNCHANGED <<report, shown, change, verdicts>>

AskForChange(d, c) ==
  /\ Len(change) < MaxReviews
  /\ \E b \in Buttons(d, c) :
       change' = Append(change, [by |-> d, card |-> c, to |-> b, step |-> "sent", version |-> 0])
  /\ card' = [card EXCEPT ![<<d, c>>] = [waits |-> Len(change) + 1, error |-> FALSE]]
  /\ UNCHANGED <<report, shown, fetching, verdicts>>

(* The server takes any status, and a fire status for a verified report    *)
(* only.                                                                   *)
status_change(k) ==
  /\ change[k].step = "sent" /\ change[k].card = "report"
  /\ report' = [report EXCEPT !.status = change[k].to, !.version = @ + 1]
  /\ change' = [change EXCEPT ![k].step = "done", ![k].version = report.version + 1]
  /\ UNCHANGED <<shown, fetching, card, verdicts>>

fire_status_change(k) ==
  /\ change[k].step = "sent" /\ change[k].card = "fire"
  /\ IF report.status = "verified"
     THEN /\ report' = [report EXCEPT !.fire = change[k].to, !.version = @ + 1]
          /\ change' = [change EXCEPT ![k].step = "done", ![k].version = report.version + 1]
     ELSE UNCHANGED report /\ change' = [change EXCEPT ![k].step = "refused"]
  /\ UNCHANGED <<shown, fetching, card, verdicts>>

(* The verification decides, and notes its decision with the report. *)
run_verification ==
  /\ verdicts < MaxVerdicts /\ verdicts' = verdicts + 1
  /\ \E v \in Verdicts :
       report' = [report EXCEPT !.notes = v, !.version = @ + 1,
                    !.status = [auto_verify |-> "verified", auto_reject |-> "rejected", manual_review |-> "pending"][v]]
  /\ UNCHANGED <<shown, fetching, card, change>>

(* The answer.  A success has the report fetched again, also when the card *)
(* that asked is gone, and takes both cards away; a failure is told by the *)
(* card that waits for it.                                                 *)
ChangeSucceeds(k) ==
  /\ change[k].step = "done"
  /\ change' = [change EXCEPT ![k].step = "heard"]
  /\ fetching' = fetching \cup {change[k].by}
  /\ card' = NewCards(change[k].by)
  /\ UNCHANGED <<report, shown, verdicts>>

ChangeFails(k) ==
  /\ change[k].step \in {"sent", "done", "refused"}
  /\ change' = [change EXCEPT ![k].step = "failed"]
  /\ card' = IF card[<<change[k].by, change[k].card>>].waits = k
             THEN [card EXCEPT ![<<change[k].by, change[k].card>>] = [waits |-> 0, error |-> TRUE]] ELSE card
  /\ UNCHANGED <<report, shown, fetching, verdicts>>

ReviewNext ==
  \/ \E d \in Reviewers : ReportArrives(d) \/ OpenReport(d) \/ \E c \in Cards : AskForChange(d, c)
  \/ \E k \in DOMAIN change : status_change(k) \/ fire_status_change(k) \/ ChangeSucceeds(k) \/ ChangeFails(k)
  \/ run_verification
ReviewSpec == ReviewInit /\ [][ReviewNext]_reviewVars

-----------------------------------------------------------------------------
(* The words for a decision, by its notes and the status of the report: a  *)
(* final status the notes do not lead to was set by hand.                  *)
Decision(v) ==
  [auto_verify |-> "verified", auto_reject |-> "rejected", manual_review |-> "none", none |-> "none"][v]
VerificationNotes(notes, status) ==
  LET final == status \in {"verified", "rejected"} IN
  IF notes = "none" THEN (IF final THEN "by hand" ELSE "not yet")
  ELSE IF final /\ Decision(notes) # status THEN "by hand" ELSE notes

ReviewTypeOK ==
  LET rows == [status : ReportStatuses \cup {"none"}, fire : FireStatuses, notes : Verdicts \cup {"none"}, version : Nat]
  IN
  /\ report \in rows /\ report.status # "none"
  /\ shown \in [Reviewers -> rows]
  /\ fetching \subseteq Reviewers
  /\ card \in [Reviewers \X Cards -> [waits : 0..MaxReviews, error : BOOLEAN]]
  /\ change \in Seq([by : Reviewers, card : Cards, to : ReportStatuses \cup FireStatuses \cup {"none"},
                                   step : {"sent", "done", "refused", "heard", "failed"}, version : Nat])
  /\ verdicts \in 0..MaxVerdicts

(* A desk that was told of its change, and has the report again, shows the *)
(* report with the change or as others have changed it since.              *)
DeskSeesItsChanges ==
  \A k \in DOMAIN change :
    change[k].step = "heard" /\ ViewPage(change[k].by) = "report" => shown[change[k].by].version >= change[k].version

(* The reason shown for a final status never speaks for another one: a     *)
(* report that was decided against its verification says so.               *)
ReasonFitsStatus ==
  report.status \in {"verified", "rejected"}
    => VerificationNotes(report.notes, report.status) \in {"by hand"} \cup {v \in Verdicts : Decision(v) = report.status}

(* A card never waits for a request that is over. *)
CardsWaitTheirTurn ==
  \A d \in Reviewers, c \in Cards :
    card[<<d, c>>].waits # 0 => change[card[<<d, c>>].waits].step \in {"sent", "done", "refused"}
=============================================================================
