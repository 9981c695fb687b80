--------------------------- MODULE SimulationPage ---------------------------
(***************************************************************************)
(* The whole simulation page: SimulationWorkspace and the containment      *)
(* lines (components/firefighter/SimulationPage.tsx,                       *)
(* containmentLineCard.tsx, hooks/useContainmentLine.ts, and the server's  *)
(* services/firefighter/containment_lines.py).                             *)
(*                                                                         *)
(* A drawn line is shown at once as a draft and saved; the answer makes    *)
(* the draft a saved line or removes it.  A deleted line is removed at     *)
(* once and comes back when the deletion fails.  Choosing a fire fetches   *)
(* its lines, which then replace all that are shown.  The requests are not *)
(* ordered: each may be handled and answered before or after the others.   *)
(***************************************************************************)
EXTENDS SimulationWorkspace

CONSTANTS
  Lines,        \* bound: the lines that are drawn or accepted, each once
  Proposals,    \* those of them that are suggested, not drawn
  AssignedTo,   \* the verified fire within 5 km of a line, or NoFire
  NoFetch

ASSUME LinesAssumption ==
  /\ Proposals \subseteq Lines
  /\ AssignedTo \in [Lines -> Fires \cup {NoFire}]
  /\ NoFetch \notin [of : Fires, at : {"sent", "read", "failed"}, rows : SUBSET Lines]

VARIABLES
  shown,    \* lines: the rows of the list, a set
  fetch,    \* the fetch of the selected fire's lines that is not cancelled
  stored,   \* the lines in the database
  post,     \* POST /containment-line of each line
  delete,   \* DELETE /containment-line of each line, and the row it removed
  raced     \* an edit overlapped a fetch or a change of fire, or an answer was lost

listVars == <<shown, fetch, stored, post, delete, raced>>
pageVars == <<workspaceVars, listVars>>

Rows == [line : Lines, fetched : BOOLEAN, synced : BOOLEAN]
\* Rows are told apart by localId: the server's id for a fetched row, a
\* random one for a row that was drawn or accepted.
SameId(a, b) == a.line = b.line /\ a.fetched = b.fetched
LinesFor(f) == {l \in stored : AssignedTo[l] = f}
Posting == {l \in Lines : post[l] \in {"sent", "stored", "refused"}}
Deleting == {l \in Lines : delete[l].at # "none"}
Busy == Posting \cup Deleting # {}
NoDelete == [at |-> "none", fetched |-> FALSE]
Drafts == {row \in shown : ~row.synced}

PageTypeOK ==
  /\ WorkspaceTypeOK
  /\ shown \subseteq Rows
  /\ fetch = NoFetch \/ /\ fetch.of \in Fires
                        /\ fetch.at \in {"sent", "read", "failed"}
                        /\ fetch.rows \subseteq Lines
  /\ stored \subseteq Lines
  /\ post \in [Lines -> {"unused", "sent", "stored", "refused", "over"}]
  /\ delete \in [Lines -> [at : {"none", "sent", "gone", "refused"}, fetched : BOOLEAN]]
  /\ raced \in BOOLEAN

PageInit ==
  /\ WorkspaceInit
  /\ shown = {}
  /\ fetch = NoFetch
  /\ stored = {}
  /\ post = [l \in Lines |-> "unused"]
  /\ delete = [l \in Lines |-> NoDelete]
  /\ raced = FALSE

-----------------------------------------------------------------------------
(* The fetch of the lines. *)

ChooseFire(f) ==
  /\ SelectFire(f)
  /\ IF f = NoFire
     THEN fetch' = NoFetch /\ shown' = {}
     ELSE fetch' = [of |-> f, at |-> "sent", rows |-> {}] /\ UNCHANGED shown
  /\ raced' = Busy
  /\ UNCHANGED <<stored, post, delete>>

ServerReads ==
  /\ fetch # NoFetch /\ fetch.at = "sent"
  /\ \/ fetch' = [fetch EXCEPT !.at = "read", !.rows = LinesFor(fetch.of)]
     \/ fetch' = [fetch EXCEPT !.at = "failed"]
  /\ UNCHANGED <<workspaceVars, shown, stored, post, delete, raced>>

(* fetchLines makes no difference between no lines and no answer. *)
LinesArrive ==
  /\ fetch # NoFetch /\ fetch.at # "sent"
  /\ fetch' = NoFetch
  /\ shown' = {[line |-> l, fetched |-> TRUE, synced |-> TRUE] : l \in fetch.rows}
  /\ raced' = (raced \/ fetch.at = "failed")
  /\ UNCHANGED <<workspaceVars, stored, post, delete>>

-----------------------------------------------------------------------------
(* Saving a line. *)

DrawComplete(l) ==
  /\ post[l] = "unused" /\ l \notin Proposals
  /\ shown' = shown \cup {[line |-> l, fetched |-> FALSE, synced |-> FALSE]}
  /\ post' = [post EXCEPT ![l] = "sent"]
  /\ raced' = (raced \/ fetch # NoFetch)
  /\ UNCHANGED <<workspaceVars, fetch, stored, delete>>

(* create_containment_line: a line needs a verified fire within 5 km. *)
ServerStores(l) ==
  /\ post[l] = "sent"
  /\ \/ /\ AssignedTo[l] # NoFire
        /\ stored' = stored \cup {l}
        /\ post' = [post EXCEPT ![l] = "stored"]
     \/ /\ post' = [post EXCEPT ![l] = "refused"]
        /\ UNCHANGED stored
  /\ UNCHANGED <<workspaceVars, shown, fetch, delete, raced>>

Closed(l) == post' = [post EXCEPT ![l] = "over"]

DraftSaved(l) ==
  /\ post[l] = "stored" /\ l \notin Proposals
  /\ shown' = {IF row.line = l /\ ~row.fetched THEN [row EXCEPT !.synced = TRUE] ELSE row
                 : row \in shown}
  /\ Closed(l)
  /\ UNCHANGED <<workspaceVars, fetch, stored, delete, raced>>

(* The request was refused, or its answer lost on the way back. *)
DraftFails(l) ==
  /\ post[l] \in {"stored", "refused"} /\ l \notin Proposals
  /\ shown' = {row \in shown : row.line # l \/ row.fetched}
  /\ Closed(l)
  /\ raced' = (raced \/ post[l] = "stored")
  /\ UNCHANGED <<workspaceVars, fetch, stored, delete>>

AcceptSuggestion(l) ==
  /\ post[l] = "unused" /\ l \in Proposals
  /\ HandleAccept
  /\ post' = [post EXCEPT ![l] = "sent"]
  /\ raced' = (raced \/ fetch # NoFetch)
  /\ UNCHANGED <<shown, fetch, stored, delete>>

SuggestionSaved(l) ==
  /\ post[l] = "stored" /\ l \in Proposals
  /\ AcceptSaved
  /\ shown' = shown \cup {[line |-> l, fetched |-> FALSE, synced |-> TRUE]}
  /\ Closed(l)
  /\ UNCHANGED <<fetch, stored, delete, raced>>

SuggestionFails(l) ==
  /\ post[l] \in {"stored", "refused"} /\ l \in Proposals
  /\ AcceptFails
  /\ Closed(l)
  /\ raced' = (raced \/ post[l] = "stored")
  /\ UNCHANGED <<shown, fetch, stored, delete>>

-----------------------------------------------------------------------------
(* Removing a line. *)

(* A draft has no id yet: nothing is sent, and its saving goes on. *)
DeleteLine(row) ==
  /\ row \in shown
  /\ row.synced => delete[row.line].at = "none"   \* bound: one deletion of a line at a time
  /\ shown' = {other \in shown : ~SameId(other, row)}
  /\ IF row.synced
     THEN delete' = [delete EXCEPT ![row.line] = [at |-> "sent", fetched |-> row.fetched]]
     ELSE UNCHANGED delete
  /\ raced' = (raced \/ fetch # NoFetch \/ ~row.synced)
  /\ UNCHANGED <<workspaceVars, fetch, stored, post>>

ServerDeletes(l) ==
  /\ delete[l].at = "sent"
  /\ \/ /\ l \in stored
        /\ stored' = stored \ {l}
        /\ delete' = [delete EXCEPT ![l].at = "gone"]
     \/ /\ delete' = [delete EXCEPT ![l].at = "refused"]
        /\ UNCHANGED stored
  /\ UNCHANGED <<workspaceVars, shown, fetch, post, raced>>

DeleteSucceeds(l) ==
  /\ delete[l].at = "gone"
  /\ delete' = [delete EXCEPT ![l] = NoDelete]
  /\ UNCHANGED <<workspaceVars, shown, fetch, stored, post, raced>>

(* The row comes back, whatever is shown by now. *)
DeleteFails(l) ==
  /\ delete[l].at \in {"gone", "refused"}
  /\ shown' = shown \cup {[line |-> l, fetched |-> delete[l].fetched, synced |-> TRUE]}
  /\ delete' = [delete EXCEPT ![l] = NoDelete]
  /\ raced' = (raced \/ delete[l].at = "gone")
  /\ UNCHANGED <<workspaceVars, fetch, stored, post>>

(* Clear drops the drafts. *)
CanClear == hasResult \/ shown # {} \/ tick > 0 \/ status = "error"
ClearAll ==
  /\ CanClear
  /\ HandleClear
  /\ shown' = shown \ Drafts
  /\ raced' = (raced \/ Drafts # {})
  /\ UNCHANGED <<fetch, stored, post, delete>>

(* The page is left: the requests in flight end or go unheard. *)
Leave ==
  /\ ~Busy
  /\ selected' = NoFire /\ chosen' = {} /\ multi' = FALSE
  /\ lastCluster' = NoAsk /\ progressKey' = NoAsk
  /\ ClearMap
  /\ suggestion' = NoFire /\ suggesting' = NoFire /\ accepting' = NoAsk
  /\ shown' = {} /\ fetch' = NoFetch /\ raced' = FALSE
  /\ UNCHANGED <<stored, post, delete, seeks>>

-----------------------------------------------------------------------------
LineStep ==
  \/ ServerReads \/ LinesArrive
  \/ \E l \in Lines :
       \/ DrawComplete(l) \/ ServerStores(l) \/ DraftSaved(l) \/ DraftFails(l)
       \/ ServerDeletes(l) \/ DeleteSucceeds(l) \/ DeleteFails(l)
  \/ \E row \in Rows : DeleteLine(row)

JointStep ==
  \/ \E f \in Fires \cup {NoFire} : ChooseFire(f)
  \/ \E l \in Lines : AcceptSuggestion(l) \/ SuggestionSaved(l) \/ SuggestionFails(l)
  \/ ClearAll \/ Leave

PageNext ==
  \/ (RunStep \/ ChoiceStep \/ SuggestStep) /\ ProgressEffect /\ UNCHANGED listVars
  \/ PollAnswers /\ UNCHANGED listVars
  \/ LineStep
  \/ JointStep /\ ProgressEffect

PageSpec == PageInit /\ [][PageNext]_pageVars

-----------------------------------------------------------------------------
(* A draft never lingers: its saving is in flight.  When nothing is in     *)
(* flight, the list shows what is stored, each line once: after an edit    *)
(* has raced, choosing another fire heals the list.                        *)
DraftsAreInFlight == \A row \in Drafts : row.line \in Posting
ShownIsStored ==
  ~raced /\ ~Busy /\ fetch = NoFetch =>
    /\ \A row \in shown : row.synced /\ row.line \in stored
    /\ \A a, b \in shown : a.line = b.line => a = b
    /\ LinesFor(selected) \subseteq {row.line : row \in shown}
ListSettles == DraftsAreInFlight /\ ShownIsStored
=============================================================================
