---------------------------- MODULE ResourceForm ----------------------------
(***************************************************************************)
(* The page that registers a resource (app/frontend/src/components/        *)
(* resources): what is registered, how much of it, from when until when,   *)
(* and where; lib/ValidateResource.ts, hooks/useSubmitResource.ts, and the *)
(* server's own check (backend schemas/resource.py).                       *)
(*                                                                         *)
(* The fields stay open while a resource is on its way.  A typed address   *)
(* keeps the pin there was; with no pin it puts one at 0, 0.               *)
(***************************************************************************)
EXTENDS PinMap

CONSTANTS
  CrewMax, WaterMax,    \* the largest capacities, 1000 and 150000 in the code
  MaxResources, MaxPins \* bounds: resources sent, clicks on the map

ASSUME ResourceFormAssumption ==
  /\ CrewMax \in Nat /\ WaterMax \in Nat /\ 0 < CrewMax /\ CrewMax <= WaterMax
  /\ MaxResources \in Nat /\ MaxPins \in Nat

VARIABLES
  resource,    \* the form
  sending,     \* the resource on its way, or none
  registered,  \* the server's resources, by the number they were sent with
  sentOnce,    \* resources sent so far
  showErrors, showSuccess,
  refusal,     \* the page shows that the last one failed
  switched     \* (history) the kind was changed since the capacity was set

resourceVars == <<resource, sending, registered, sentOnce, showErrors, showSuccess, refusal, switched>>
resourceFormVars == <<mapVars, resourceVars>>

Kinds == {"water_tank", "crew"}
capacityMax(kind) == IF kind = "crew" THEN CrewMax ELSE WaterMax
(* The days: no end, an end after the beginning, or an end before it. *)
Spans == {"open", "forward", "backward"}
EmptyForm ==
  [kind |-> "water_tank", text |-> "placeholder", pin |-> Nowhere, capacity |-> 0, contact |-> FALSE, span |-> "open"]

ResourceFormInit ==
  /\ MapInit
  /\ resource = EmptyForm /\ sending = {} /\ registered = {} /\ sentOnce = 0
  /\ showErrors = FALSE /\ showSuccess = FALSE /\ refusal = FALSE /\ switched = FALSE

-----------------------------------------------------------------------------
(* The place of the form: picked from the suggestions, typed, or pinned. *)
SetPlace(text, p) == [resource EXCEPT !.text = text, !.pin = p]
NothingSent == UNCHANGED <<viewVars, sending, registered, sentOnce, showErrors, showSuccess, refusal>>

PickAddress(p) ==
  /\ resource' = SetPlace(p, p) /\ pinMap' = externalPin(pinMap, resource.pin, p)
  /\ NothingSent /\ UNCHANGED <<lookups, looked, switched>>
TypeAddress ==
  LET p == IF resource.pin = Nowhere THEN Origin ELSE resource.pin IN
  /\ resource' = SetPlace("typed", p) /\ pinMap' = externalPin(pinMap, resource.pin, p)
  /\ NothingSent /\ UNCHANGED <<lookups, looked, switched>>
PinOnMap(p) == looked < MaxPins /\ handleMapClick(p) /\ NothingSent /\ UNCHANGED <<resource, switched>>
PinAddress(l) ==
  /\ reverseGeocode(l)
  /\ resource' = SetPlace(l.place, l.place) /\ pinMap' = externalPin(pinMap, resource.pin, l.place)
  /\ NothingSent /\ UNCHANGED <<looked, switched>>

handleContactChange ==
  /\ resource' = [resource EXCEPT !.contact = ~@]
  /\ NothingSent /\ UNCHANGED <<pinVars, switched>>
handleResourceChange ==
  /\ \E k \in Kinds \ {resource.kind} : resource' = [resource EXCEPT !.kind = k]
  /\ switched' = TRUE
  /\ NothingSent /\ UNCHANGED pinVars

(* The slider stays in the range of the kind; what is typed is cut to it   *)
(* when the field is left.                                                 *)
Capacity == 0..WaterMax + 1
\* (fault) the slider's limits are left to the browser
ClampNothing(n) == n
clamp(n) == IF n > capacityMax(resource.kind) THEN capacityMax(resource.kind) ELSE n
SetCapacity ==
  /\ \E n \in Capacity : resource' = [resource EXCEPT !.capacity = clamp(n)]
  /\ switched' = FALSE
  /\ NothingSent /\ UNCHANGED pinVars

(* The toggle gives an end, the day of the beginning, or takes it away;    *)
(* either day may be changed without the other.                            *)
Availability == IF resource.span = "open" THEN {"forward"} ELSE Spans
handleAvailabilityChange ==
  /\ \E to \in Availability : resource' = [resource EXCEPT !.span = to]
  /\ NothingSent /\ UNCHANGED <<pinVars, switched>>

-----------------------------------------------------------------------------
validateResourceForm(r) ==
  (IF r.pin \in {Nowhere, Origin} THEN {"location"} ELSE {})
    \cup (IF r.contact THEN {} ELSE {"contact"})
    \cup (IF r.capacity > 0 THEN {} ELSE {"capacity"})
shown == IF showErrors THEN validateResourceForm(resource) ELSE {}

(* The buttons work when nothing is on its way; the fields always do. *)
RegisterView == sending = {}
RegisterResource ==
  /\ RegisterView
  /\ showSuccess' = FALSE
  /\ \/ /\ validateResourceForm(resource) # {}
        /\ showErrors' = TRUE
        /\ UNCHANGED <<sending, sentOnce, refusal>>
     \/ /\ validateResourceForm(resource) = {} /\ sentOnce < MaxResources
        /\ sending' = {[n |-> sentOnce + 1, form |-> resource, switched |-> switched]}
        /\ sentOnce' = sentOnce + 1
        /\ refusal' = FALSE
        /\ UNCHANGED showErrors
  /\ UNCHANGED <<mapVars, resource, registered, switched>>

handleCancel ==
  /\ RegisterView
  /\ resource' = EmptyForm /\ pinMap' = FreshMap
  /\ showErrors' = FALSE /\ showSuccess' = FALSE /\ switched' = FALSE
  /\ UNCHANGED <<lookups, looked, viewVars, sending, registered, sentOnce, refusal>>

(* The server's check has a range and an order of days that the form lacks. *)
cross_field_checks(r) ==
  r.capacity \in 1..capacityMax(r.kind) /\ r.span # "backward"

(* The answer: a resource that was registered empties the form, whatever   *)
(* it holds by now.                                                        *)
Created(s) ==
  /\ s \in sending /\ cross_field_checks(s.form)
  /\ registered' = registered \cup {s.n}
  /\ sending' = {}
  /\ resource' = EmptyForm /\ pinMap' = FreshMap
  /\ showErrors' = FALSE /\ showSuccess' = TRUE /\ switched' = FALSE
  /\ UNCHANGED <<lookups, looked, viewVars, sentOnce, refusal>>
NotCreated(s) ==
  /\ s \in sending
  /\ registered' \in {registered} \cup (IF cross_field_checks(s.form) THEN {registered \cup {s.n}} ELSE {})
  /\ sending' = {}
  /\ refusal' = TRUE
  /\ UNCHANGED <<mapVars, resource, sentOnce, showErrors, showSuccess, switched>>

SuccessFades ==
  /\ showSuccess
  /\ showSuccess' = FALSE
  /\ UNCHANGED <<mapVars, resource, sending, registered, sentOnce, showErrors, refusal, switched>>

ResourceFormNext ==
  \/ \E p \in Places : PickAddress(p) \/ PinOnMap(p)
  \/ \E l \in lookups : PinAddress(l)
  \/ TypeAddress \/ handleContactChange \/ handleResourceChange \/ handleAvailabilityChange
  \/ SetCapacity \/ RegisterResource \/ handleCancel \/ SuccessFades
  \/ \E s \in sending : Created(s) \/ NotCreated(s)

-----------------------------------------------------------------------------
ResourceFormTypeOK ==
  /\ MapTypeOK
  /\ resource \in [kind : Kinds, text : Places \cup {"placeholder", "typed"}, pin : Places \cup {Origin, Nowhere},
                   capacity : 0..WaterMax, contact : BOOLEAN, span : Spans]
  /\ sentOnce \in 0..MaxResources /\ registered \subseteq 1..sentOnce
  /\ \A s \in sending : s.n = sentOnce

(* A resource that is sent is somewhere, and where its address says if the *)
(* address was picked; a typed address may be that of another place than   *)
(* the pin, or of none.                                                    *)
ResourcesAreSomewhere ==
  \A s \in sending : s.form.pin \in Places /\ s.form.text \in {s.form.pin, "typed"}

(* A capacity beyond the range of its kind leaves the form only after the  *)
(* kind was changed under it.                                              *)
CapacitiesFit == \A s \in sending : s.form.capacity > capacityMax(s.form.kind) => s.switched

(* The page says that a resource was registered only when the last one     *)
(* was, and never shows at once that it was and that it was not; nor does  *)
(* it accuse a form that it has just emptied.                              *)
SuccessIsTrue ==
  showSuccess => /\ sentOnce \in registered
                 /\ sending = {} /\ ~refusal /\ shown = {}

ResourcesAreRight == ResourcesAreSomewhere /\ CapacitiesFit /\ SuccessIsTrue /\ PinHasItsLookup(resource.pin)
=============================================================================
