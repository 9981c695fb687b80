----------------------------- MODULE ReportForm -----------------------------
(***************************************************************************)
(* The page that reports a fire (app/frontend/src/components/reportfire):  *)
(* the map, the page's own form state (ReportPage.tsx), the details        *)
(* (ReportDetailsForm.tsx, LocationField.tsx, ReportPhotoUpload.tsx) and   *)
(* the two requests that file a report (hooks/useSubmitReport.ts).         *)
(*                                                                         *)
(* The place of a report is in three hands: the pin of the map, the place  *)
(* of the page, which is filed as coordinates, and the text of the         *)
(* details, which is filed as an address.  The details are emptied when    *)
(* they are sent, the page a second after the report was filed.            *)
(***************************************************************************)
EXTENDS PinMap

CONSTANT MaxReports     \* bound: reports sent

ASSUME ReportFormAssumption == MaxReports \in Nat

VARIABLES
  form,       \* the page: place (externalPin), location, boundarySize
  details,    \* text, whether it was chosen, photo, the errors shown
  sends,      \* reports on their way: what they say, and how far they are
  sent,       \* reports sent so far
  sendError,  \* the page shows that a report failed
  timers,     \* reports filed less than a second ago
  filed,      \* the reports the server has
  photos,     \* the photos it keeps, by report
  wiped       \* (history) the page's place was taken away and not set since

formVars == <<form, details, sends, sent, sendError, timers, filed, photos, wiped>>
reportFormVars == <<mapVars, formVars>>

Texts == Places \cup {"placeholder", "empty", "typed"}
initialFormState == [location |-> "placeholder", pin |-> Nowhere, size |-> "least"]
EmptyDetails == [text |-> "placeholder", valid |-> FALSE, photo |-> FALSE, errors |-> {}]

ReportFormInit ==
  /\ MapInit
  /\ form = initialFormState /\ details = EmptyDetails
  /\ sends = {} /\ sent = 0 /\ sendError = FALSE /\ timers = {}
  /\ filed = {} /\ photos = {} /\ wiped = FALSE

-----------------------------------------------------------------------------
(* The page's reducer, and the effect of the details on a new address. *)
SetLocation(p) == [form EXCEPT !.location = p, !.pin = p]
followLocation(was, now) ==
  IF now \in {was, "placeholder"} THEN details
  ELSE [details EXCEPT !.text = now, !.valid = TRUE, !.errors = @ \ {"location"}]

(* An address, from the map: the page takes it, the map follows the page,  *)
(* and the details follow when it is another than the page had.            *)
handleLocationSelect(l) ==
  /\ reverseGeocode(l)
  /\ form' = [SetLocation(l.place) EXCEPT !.size = IF l.place = form.pin THEN @ ELSE "least"]
  /\ pinMap' = externalPin(pinMap, form.pin, l.place)
  /\ details' = followLocation(form.location, l.place)
  /\ wiped' = FALSE
  /\ UNCHANGED <<looked, viewVars, sends, sent, sendError, timers, filed, photos>>

ClickMap(p) ==
  /\ handleMapClick(p)
  /\ form' = [form EXCEPT !.size = "least"]
  /\ UNCHANGED <<viewVars, details, sends, sent, sendError, timers, filed, photos, wiped>>

handleBoundarySizeChange ==
  /\ handleRimDrag
  /\ form' = [form EXCEPT !.size = "drawn"]
  /\ UNCHANGED <<lookups, looked, viewVars, details, sends, sent, sendError, timers, filed, photos, wiped>>

(* An address is picked from the suggestions, or something is typed; the   *)
(* placeholder goes when the field is entered.                             *)
handleLocationSearch(p) ==
  /\ details' = [details EXCEPT !.text = p, !.valid = TRUE, !.errors = @ \ {"location"}]
  /\ form' = [SetLocation(p) EXCEPT !.size = IF p = form.pin THEN @ ELSE "least"]
  /\ pinMap' = externalPin(pinMap, form.pin, p)
  /\ wiped' = FALSE
  /\ UNCHANGED <<lookups, looked, viewVars, sends, sent, sendError, timers, filed, photos>>
\* (fault) what is typed counts as chosen if something was chosen before
TypeOverChoice ==
  /\ \E val \in LocationField :
       details' = [details EXCEPT !.text = val, !.errors = IF val = "empty" THEN @ ELSE @ \ {"location"}]
  /\ UNCHANGED <<mapVars, form, sends, sent, sendError, timers, filed, photos, wiped>>
handleLocationChange ==
  /\ \E val \in LocationField :
       details' = [details EXCEPT !.text = val, !.valid = FALSE,
                                  !.errors = IF val = "empty" THEN @ ELSE @ \ {"location"}]
  /\ UNCHANGED <<mapVars, form, sends, sent, sendError, timers, filed, photos, wiped>>

(* A photo, or a file of another kind, which takes the photo away. *)
PhotoField == {TRUE, FALSE}
handlePhotoChange ==
  /\ \E isPhoto \in PhotoField :
       details' = [details EXCEPT !.photo = isPhoto, !.errors = IF isPhoto THEN @ \ {"photo"} ELSE @ \cup {"photo"}]
  /\ UNCHANGED <<mapVars, form, sends, sent, sendError, timers, filed, photos, wiped>>

-----------------------------------------------------------------------------
Errors ==
  (IF details.valid /\ details.text \in Places \cup {"typed"} THEN {} ELSE {"location"})
    \cup (IF details.photo THEN {} ELSE {"photo"})

(* The details are sent with the page's place and emptied, before anybody  *)
(* knows what becomes of them.                                             *)
handleSubmit ==
  \/ /\ Errors # {}
     /\ details' = [details EXCEPT !.errors = Errors]
     /\ UNCHANGED <<mapVars, form, sends, sent, sendError, timers, filed, photos, wiped>>
  \/ /\ Errors = {} /\ sent < MaxReports
     /\ sends' = sends \cup {[n |-> sent + 1, text |-> details.text, stage |-> "photo", wiped |-> wiped,
                              pin |-> IF form.pin = Nowhere THEN Origin ELSE form.pin]}
     /\ sent' = sent + 1
     /\ sendError' = FALSE
     /\ details' = [details EXCEPT !.text = "placeholder", !.photo = FALSE, !.errors = {}]
     /\ UNCHANGED <<mapVars, form, timers, filed, photos, wiped>>

(* First the photo, then the report. *)
uploadPhoto(s) ==
  /\ s \in sends /\ s.stage = "photo"
  /\ sends' = (sends \ {s}) \cup {[s EXCEPT !.stage = "report"]}
  /\ photos' = photos \cup {s.n}
  /\ UNCHANGED <<mapVars, form, details, sent, sendError, timers, filed, wiped>>
submitReport(s) ==
  /\ s \in sends /\ s.stage = "report"
  /\ sends' = sends \ {s}
  /\ filed' = filed \cup {s.n}
  /\ timers' = timers \cup {s.n}
  /\ UNCHANGED <<mapVars, form, details, sent, sendError, photos, wiped>>
submitFails(s) ==
  /\ s \in sends
  /\ sends' = sends \ {s}
  /\ sendError' = TRUE
  /\ filed' \in {filed} \cup (IF s.stage = "report" THEN {filed \cup {s.n}} ELSE {})
  /\ UNCHANGED <<mapVars, form, details, sent, timers, photos, wiped>>

(* A second later the page starts over, with a new map; the details keep   *)
(* what was entered meanwhile.                                             *)
ResetAfterSubmit(n) ==
  /\ n \in timers
  /\ timers' = timers \ {n}
  /\ form' = initialFormState
  /\ wiped' = TRUE
  /\ pinMap' = FreshMap
  /\ UNCHANGED <<lookups, looked, viewVars, details, sends, sent, sendError, filed, photos>>

ReportFormNext ==
  \/ \E p \in Places : ClickMap(p) \/ handleLocationSearch(p)
  \/ \E l \in lookups : handleLocationSelect(l)
  \/ handleBoundarySizeChange \/ handleLocationChange \/ handlePhotoChange \/ handleSubmit
  \/ \E s \in sends : uploadPhoto(s) \/ submitReport(s) \/ submitFails(s)
  \/ \E n \in timers : ResetAfterSubmit(n)
  \/ DragsRim /\ UNCHANGED <<viewVars, formVars>>

-----------------------------------------------------------------------------
ReportFormTypeOK ==
  /\ MapTypeOK
  /\ form \in [location : Places \cup {"placeholder"}, pin : Places \cup {Nowhere}, size : {"least", "drawn"}]
  /\ details \in [text : Texts, valid : BOOLEAN, photo : BOOLEAN, errors : SUBSET {"location", "photo"}]
  /\ sent \in 0..MaxReports /\ sendError \in BOOLEAN /\ wiped \in BOOLEAN
  /\ timers \subseteq 1..sent /\ photos \subseteq 1..sent /\ filed \subseteq 1..sent
  /\ \A s \in sends : s.n \in 1..sent /\ s.pin \in Places \cup {Origin} /\ s.stage \in {"photo", "report"}

(* A report says the place its coordinates are of, and that place was      *)
(* chosen, not typed: although a click, a late address, a suggestion and   *)
(* the emptying of the page all write one without the other.  The one way  *)
(* apart is the second after a report: its end takes the coordinates of    *)
(* the next one, which is then filed at 0, 0.                              *)
FiledAtItsPlace ==
  \A r \in sends : r.text \in Places /\ (r.pin = r.text \/ (r.pin = Origin /\ r.wiped))

(* The size that would be filed is the size of the circle on the map, and  *)
(* what the details complain of is missing.                                *)
SizeIsDrawn == form.size = pinMap.radius /\ details.errors \subseteq Errors

(* A report on the server has its photo, whichever request was lost. *)
PhotosAreKept == filed \subseteq photos

ReportsAreRight == FiledAtItsPlace /\ SizeIsDrawn /\ PhotosAreKept /\ PinHasItsLookup(form.pin)
=============================================================================
