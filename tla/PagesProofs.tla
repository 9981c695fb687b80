----------------------------- MODULE PagesProofs -----------------------------
(***************************************************************************)
(* Proofs about what MCPages plays: the map with a pin and the forms       *)
(* beside it (PinMap, ReportForm, ResourceForm, SavedPlaces), the status   *)
(* of a resource, and the notices of a tab (NotificationFeed), each alone  *)
(* and together: for any places, limits, clicks, fetches and notices.      *)
(* The last part is about where those notices come from (FireNotices): for *)
(* every set of users and fires, every ladder of distances and any number  *)
(* of threads.                                                             *)
(***************************************************************************)
EXTENDS MCPages, FireNotices, FiniteSetTheorems, SequenceTheorems, TLAPS

PinTypes == [pin : Places \cup {Origin, Nowhere}, radius : {"least", "drawn"}, grip : Grips]

(* The pin is put somewhere, and the circle is small again. *)
LEMMA PinIsPut ==
  ASSUME NEW m \in PinTypes, NEW p \in Places \cup {Origin, Nowhere}
  PROVE  /\ resetBoundary(m, p) \in PinTypes
         /\ resetBoundary(m, p).pin = p /\ resetBoundary(m, p).radius = "least"
<1>1. rimEffect(m) \in Grips
  BY DEF rimEffect, Grips, PinTypes
<1>2. PICK g \in Grips : g = rimEffect(m)
  BY <1>1
<1>3. resetBoundary(m, p) = [m EXCEPT !.pin = p, !.radius = "least", !.grip = g]
  BY <1>2 DEF resetBoundary
<1>4. QED
  BY <1>3 DEF PinTypes

LEMMA PinIsFollowed ==
  ASSUME NEW m \in PinTypes, NEW was, NEW now \in Places \cup {Origin}
  PROVE  /\ externalPin(m, was, now) \in PinTypes
         /\ now = was => externalPin(m, was, now) = m
         /\ now # was => externalPin(m, was, now).pin = now /\ externalPin(m, was, now).radius = "least"
<1>1. now # Nowhere
  BY PinMapAssumption
<1>2. now = was => externalPin(m, was, now) = m
  BY DEF externalPin
<1>3. now # was => externalPin(m, was, now) = resetBoundary(m, now)
  BY <1>1 DEF externalPin
<1>4. QED
  BY <1>2, <1>3, PinIsPut

LEMMA FreshMapIsTyped == FreshMap \in PinTypes /\ FreshMap.pin = Nowhere /\ FreshMap.radius = "least"
  BY DEF FreshMap, PinTypes, Grips

LEMMA MapStarts == MapInit => MapTypeOK
<1>1. SUFFICES ASSUME MapInit PROVE MapTypeOK
  OBVIOUS
<1>2. pinMap \in PinTypes /\ lookups = {} /\ looked = 0 /\ mounts = 1 /\ flights = 0 /\ camera = FreshView
  BY <1>1, FreshMapIsTyped DEF MapInit, PinInit
<1>3. 0 \in 0..MaxClicks /\ 1 \in 1..MaxClicks + 1
  BY PinMapAssumption
<1>4. QED
  BY <1>2, <1>3 DEF MapTypeOK, PinTypes, FreshView

(* A click of any form, and a hand on the rim. *)
LEMMA ClickIsTyped ==
  ASSUME MapTypeOK, NEW p \in Places, handleMapClick(p), UNCHANGED viewVars
  PROVE  /\ MapTypeOK' /\ pinMap'.pin = p /\ pinMap'.radius = "least"
         /\ lookups \subseteq lookups' /\ \E l \in lookups' : l.place = p
<1>1. pinMap \in PinTypes
  BY DEF MapTypeOK, PinTypes
<1>2. pinMap' = resetBoundary(pinMap, p)
  BY DEF handleMapClick
<1>3. pinMap' \in PinTypes /\ pinMap'.pin = p /\ pinMap'.radius = "least"
  BY <1>1, <1>2, PinIsPut
<1>4. looked \in 0..MaxClicks /\ MaxClicks \in Nat /\ looked < MaxClicks
  BY PinMapAssumption DEF MapTypeOK, handleMapClick
<1>5. looked + 1 \in 1..MaxClicks /\ looked + 1 \in 0..MaxClicks
  BY <1>4
<1>6. [n |-> looked + 1, place |-> p] \in [n : 1..MaxClicks, place : Places]
  BY <1>5
<1>7. lookups' = lookups \cup {[n |-> looked + 1, place |-> p]} /\ looked' = looked + 1
  BY DEF handleMapClick
<1>8. MapTypeOK'
  BY <1>3, <1>5, <1>6, <1>7 DEF MapTypeOK, viewVars, PinTypes
<1>9. PICK l : l = [n |-> looked + 1, place |-> p]
  OBVIOUS
<1>10. l \in lookups' /\ l.place = p
  BY <1>7, <1>9
<1>11. QED
  BY <1>3, <1>7, <1>8, <1>10

LEMMA RimIsTyped ==
  ASSUME MapTypeOK, DragsRim, UNCHANGED viewVars
  PROVE  MapTypeOK' /\ pinMap'.pin = pinMap.pin /\ pinMap'.radius = pinMap.radius /\ lookups' = lookups
<1>1. pinMap \in PinTypes /\ UNCHANGED <<lookups, looked, camera, mounts, flights>>
  BY DEF MapTypeOK, PinTypes, DragsRim, viewVars
<1>2. PICK g \in Grips : pinMap' = [pinMap EXCEPT !.grip = g]
  BY DEF DragsRim, handleDragStart, handleDragEnd, ClickSettles, Grips
<1>3. pinMap' \in PinTypes /\ pinMap'.pin = pinMap.pin /\ pinMap'.radius = pinMap.radius
  BY <1>1, <1>2 DEF PinTypes
<1>4. QED
  BY <1>1, <1>3 DEF MapTypeOK, PinTypes

(* An address that comes, or a place that is picked, puts the pin where    *)
(* the form has it, and no other pin loses the address it waits for.      *)
LEMMA PlaceIsFollowed ==
  ASSUME MapTypeOK, NEW was \in Places \cup {Origin, Nowhere}, NEW p \in Places \cup {Origin}, PinHasItsLookup(was),
         pinMap' = externalPin(pinMap, was, p), UNCHANGED <<looked, viewVars>>,
         \/ lookups' = lookups
         \/ \E l \in lookups : lookups' = lookups \ {l} /\ l.place = p
  PROVE  /\ MapTypeOK' /\ PinHasItsLookup(p)'
         /\ pinMap'.radius = IF p = was THEN pinMap.radius ELSE "least"
<1>1. pinMap \in PinTypes
  BY DEF MapTypeOK, PinTypes
<1>2. /\ pinMap' \in PinTypes
      /\ p = was => pinMap' = pinMap
      /\ p # was => pinMap'.pin = p /\ pinMap'.radius = "least"
  BY <1>1, PinIsFollowed
<1>3. MapTypeOK'
  BY <1>2 DEF MapTypeOK, PinTypes, viewVars
<1>4. PICK q : q = p
  OBVIOUS
<1>5. PinHasItsLookup(q)'
  BY <1>2, <1>4 DEF PinHasItsLookup
<1>6. QED
  BY <1>2, <1>3, <1>4, <1>5

-----------------------------------------------------------------------------
(* The report form. *)
Report == [n : Nat, text : Texts, stage : {"photo", "report"}, wiped : BOOLEAN, pin : Places \cup {Origin}]

(* What was chosen is the place of the page, unless the page was emptied   *)
(* since; what is typed is not chosen.                                     *)
ChosenIsThePlace ==
  /\ details.valid => details.text \in Places \cup {"placeholder"}
  /\ details.valid /\ details.text \in Places => form.location = details.text \/ wiped
  /\ form.location \in Places => form.pin = form.location
  /\ wiped => form.location = "placeholder" /\ form.pin = Nowhere
ReportInv ==
  /\ ReportFormTypeOK /\ sends \subseteq Report /\ ChosenIsThePlace /\ ReportsAreRight
  /\ \A s \in sends : s.stage = "report" => s.n \in photos

LEMMA ReportStarts == ReportFormInit => ReportInv
<1>1. SUFFICES ASSUME ReportFormInit PROVE ReportInv
  OBVIOUS
<1>2. /\ MapTypeOK /\ pinMap.pin = Nowhere /\ pinMap.radius = "least" /\ Nowhere \notin Places /\ "placeholder" \notin Places
      /\ MaxReports \in Nat
  BY <1>1, MapStarts, FreshMapIsTyped, PinMapAssumption, ReportFormAssumption DEF ReportFormInit, MapInit, PinInit
<1>3. /\ form = initialFormState /\ details = EmptyDetails /\ sends = {} /\ sent = 0 /\ sendError = FALSE /\ timers = {}
      /\ filed = {} /\ photos = {} /\ wiped = FALSE
  BY <1>1 DEF ReportFormInit
<1>4. ReportFormTypeOK
  <2>1. 0 \in 0..MaxReports
    BY <1>2
  <2>2. /\ form \in [location : Places \cup {"placeholder"}, pin : Places \cup {Nowhere}, size : {"least", "drawn"}]
        /\ details \in [text : Texts, valid : BOOLEAN, photo : BOOLEAN, errors : SUBSET {"location", "photo"}]
    BY <1>3 DEF initialFormState, EmptyDetails, Texts
  <2>3. QED
    BY <1>2, <1>3, <2>1, <2>2 DEF ReportFormTypeOK
<1>5. ReportsAreRight
  BY <1>2, <1>3 DEF ReportsAreRight, FiledAtItsPlace, SizeIsDrawn, PhotosAreKept, PinHasItsLookup, initialFormState, EmptyDetails
<1>6. QED
  BY <1>2, <1>3, <1>4, <1>5 DEF ReportInv, ChosenIsThePlace, initialFormState, EmptyDetails

(* A place that is picked, or whose address comes, is the page's, and what *)
(* is chosen follows.                                                      *)
FormTypes == [location : Places \cup {"placeholder"}, pin : Places \cup {Nowhere}, size : {"least", "drawn"}]
DetailTypes == [text : Texts, valid : BOOLEAN, photo : BOOLEAN, errors : SUBSET {"location", "photo"}]

LEMMA PlaceKeepsReports ==
  ASSUME ReportInv, NEW p \in Places,
         handleLocationSearch(p) \/ \E l \in lookups : l.place = p /\ handleLocationSelect(l)
  PROVE  ReportInv'
<1>1. /\ MapTypeOK /\ form \in FormTypes /\ details \in DetailTypes /\ form.size = pinMap.radius /\ PinHasItsLookup(form.pin)
      /\ Nowhere \notin Places /\ {"placeholder", "typed", "empty"} \cap Places = {}
  BY PinMapAssumption DEF ReportInv, ReportFormTypeOK, FormTypes, DetailTypes, ReportsAreRight, SizeIsDrawn
<1>2. /\ UNCHANGED <<looked, viewVars, sends, sent, sendError, timers, filed, photos>> /\ wiped' = FALSE
      /\ pinMap' = externalPin(pinMap, form.pin, p)
      /\ form' = [SetLocation(p) EXCEPT !.size = IF p = form.pin THEN form.size ELSE "least"]
      /\ lookups' = lookups \/ \E l \in lookups : lookups' = lookups \ {l} /\ l.place = p
  <2>1. SetLocation(p).size = form.size
    BY <1>1 DEF SetLocation, FormTypes
  <2>2. CASE handleLocationSearch(p)
    BY <2>1, <2>2 DEF handleLocationSearch
  <2>3. CASE \E l \in lookups : l.place = p /\ handleLocationSelect(l)
    BY <2>1, <2>3 DEF handleLocationSelect, reverseGeocode
  <2>4. QED
    BY <2>2, <2>3
<1>3. form' \in FormTypes /\ form'.location = p /\ form'.pin = p /\ form'.size = IF p = form.pin THEN form.size ELSE "least"
  <2>1. PICK z \in {"least", "drawn"} : z = IF p = form.pin THEN form.size ELSE "least"
    BY <1>1 DEF FormTypes
  <2>2. form' = [form EXCEPT !.location = p, !.pin = p, !.size = z]
    BY <1>2, <2>1 DEF SetLocation
  <2>3. QED
    BY <1>1, <2>1, <2>2 DEF FormTypes
<1>4. MapTypeOK' /\ PinHasItsLookup(p)' /\ pinMap'.radius = form'.size
  <2>1. form.pin \in Places \cup {Origin, Nowhere}
    BY <1>1 DEF FormTypes
  <2>2. QED
    BY <1>1, <1>2, <1>3, <2>1, PlaceIsFollowed
<1>5. /\ details' \in DetailTypes /\ (details'.valid => details'.text \in Places \cup {"placeholder"})
      /\ details'.valid /\ details'.text \in Places => details'.text = p
      /\ details'.errors \subseteq Errors'
  <2>1. CASE details' = [details EXCEPT !.text = p, !.valid = TRUE, !.errors = @ \ {"location"}]
    <3>1. /\ details' \in DetailTypes /\ details'.text = p /\ details'.valid = TRUE /\ details'.photo = details.photo
          /\ details'.errors = details.errors \ {"location"}
      BY <1>1, <2>1 DEF DetailTypes, Texts
    <3>2. details.errors \subseteq Errors
      BY DEF ReportInv, ReportsAreRight, SizeIsDrawn
    <3>3. QED
      BY <3>1, <3>2 DEF Errors
  <2>2. CASE details' = details /\ p = form.location
    BY <1>1, <2>2 DEF ReportInv, ReportsAreRight, SizeIsDrawn, ChosenIsThePlace, Errors
  <2>3. QED
    BY <1>1, <2>1, <2>2 DEF handleLocationSearch, handleLocationSelect, followLocation
<1>6. ReportFormTypeOK'
  BY <1>2, <1>3, <1>4, <1>5 DEF ReportInv, ReportFormTypeOK, FormTypes, DetailTypes
<1>7. ReportsAreRight'
  <2>1. PinHasItsLookup(form.pin)'
    BY <1>3, <1>4 DEF PinHasItsLookup
  <2>2. QED
    BY <1>2, <1>4, <1>5, <2>1 DEF ReportInv, ReportsAreRight, FiledAtItsPlace, SizeIsDrawn, PhotosAreKept
<1>8. QED
  BY <1>1, <1>2, <1>3, <1>5, <1>6, <1>7 DEF ReportInv, ChosenIsThePlace

(* The map and the fields beside it, without a place. *)
LEMMA FieldsKeepReports ==
  ASSUME ReportInv,
         \/ \E p \in Places : ClickMap(p)
         \/ handleBoundarySizeChange \/ handleLocationChange \/ handlePhotoChange
         \/ DragsRim /\ UNCHANGED <<viewVars, formVars>>
  PROVE  ReportInv'
<1>1. /\ MapTypeOK /\ form \in FormTypes /\ details \in DetailTypes /\ form.size = pinMap.radius /\ PinHasItsLookup(form.pin)
      /\ details.errors \subseteq Errors /\ {"placeholder", "typed", "empty"} \cap Places = {}
  BY PinMapAssumption DEF ReportInv, ReportFormTypeOK, FormTypes, DetailTypes, ReportsAreRight, SizeIsDrawn
<1>2. UNCHANGED <<sends, sent, sendError, timers, filed, photos, wiped, viewVars>>
  BY DEF ClickMap, handleBoundarySizeChange, handleLocationChange, handlePhotoChange, formVars, mapVars
<1>3. CASE UNCHANGED details
  <2>1. /\ form' \in FormTypes /\ form'.location = form.location /\ form'.pin = form.pin /\ form'.size = pinMap'.radius
        /\ MapTypeOK' /\ PinHasItsLookup(form.pin)'
    <3>1. ASSUME NEW p \in Places, ClickMap(p)
          PROVE  /\ form' \in FormTypes /\ form'.location = form.location /\ form'.pin = form.pin /\ form'.size = pinMap'.radius
                 /\ MapTypeOK' /\ (pinMap'.pin \in Places => \E l \in lookups' : l.place = pinMap'.pin)
      <4>1. MapTypeOK' /\ pinMap'.radius = "least" /\ pinMap'.pin = p /\ \E l \in lookups' : l.place = p
        BY <1>1, <1>2, <3>1, ClickIsTyped DEF ClickMap
      <4>2. form' = [form EXCEPT !.size = "least"]
        BY <3>1 DEF ClickMap
      <4>3. QED
        BY <1>1, <4>1, <4>2 DEF FormTypes
    <3>2. CASE handleBoundarySizeChange
      <4>1. /\ pinMap' = [pinMap EXCEPT !.radius = "drawn"] /\ form' = [form EXCEPT !.size = "drawn"]
            /\ UNCHANGED <<lookups, looked>>
        BY <3>2 DEF handleBoundarySizeChange, handleRimDrag
      <4>2. pinMap \in PinTypes
        BY <1>1 DEF MapTypeOK, PinTypes
      <4>3. pinMap' \in PinTypes /\ pinMap'.pin = pinMap.pin /\ pinMap'.radius = "drawn"
        BY <4>1, <4>2 DEF PinTypes
      <4>4. form' \in FormTypes /\ form'.location = form.location /\ form'.pin = form.pin /\ form'.size = "drawn"
        BY <1>1, <4>1 DEF FormTypes
      <4>5. MapTypeOK'
        BY <1>1, <1>2, <4>1, <4>3 DEF MapTypeOK, PinTypes, viewVars
      <4>6. QED
        BY <1>1, <4>1, <4>3, <4>4, <4>5 DEF PinHasItsLookup
    <3>3. CASE DragsRim /\ UNCHANGED <<viewVars, formVars>>
      <4>1. MapTypeOK' /\ pinMap'.pin = pinMap.pin /\ pinMap'.radius = pinMap.radius /\ lookups' = lookups /\ form' = form
        BY <1>1, <3>3, RimIsTyped DEF formVars
      <4>2. QED
        BY <1>1, <4>1 DEF PinHasItsLookup
    <3>4. CASE handleLocationChange \/ handlePhotoChange
      <4>1. UNCHANGED <<mapVars, form>>
        BY <3>4 DEF handleLocationChange, handlePhotoChange
      <4>2. QED
        BY <1>1, <4>1 DEF mapVars, pinVars, viewVars, MapTypeOK, PinHasItsLookup
    <3>5. QED
      BY <3>1, <3>2, <3>3, <3>4 DEF PinHasItsLookup
  <2>2. ReportFormTypeOK'
    BY <1>1, <1>2, <1>3, <2>1 DEF ReportInv, ReportFormTypeOK, FormTypes, DetailTypes
  <2>3. ReportsAreRight'
    BY <1>1, <1>2, <1>3, <2>1 DEF ReportInv, ReportsAreRight, FiledAtItsPlace, SizeIsDrawn, PhotosAreKept, Errors, PinHasItsLookup
  <2>4. QED
    BY <1>2, <1>3, <2>1, <2>2, <2>3 DEF ReportInv, ChosenIsThePlace
<1>4. CASE handleLocationChange \/ handlePhotoChange
  <2>1. /\ UNCHANGED <<mapVars, form>>
        /\ details' \in DetailTypes
        /\ \/ details'.valid = FALSE
           \/ details'.valid = details.valid /\ details'.text = details.text
        /\ details'.errors \subseteq Errors'
    <3>1. CASE handleLocationChange
      <4>1. PICK v \in LocationField :
              details' = [details EXCEPT !.text = v, !.valid = FALSE,
                                         !.errors = IF v = "empty" THEN @ ELSE @ \ {"location"}]
        BY <3>1 DEF handleLocationChange
      <4>2. PICK e \in SUBSET {"location", "photo"} :
              e \subseteq details.errors /\ details' = [details EXCEPT !.text = v, !.valid = FALSE, !.errors = e]
        <5>1. CASE v = "empty"
          BY <1>1, <4>1, <5>1 DEF DetailTypes
        <5>2. CASE v # "empty"
          BY <1>1, <4>1, <5>2 DEF DetailTypes
        <5>3. QED
          BY <5>1, <5>2
      <4>3. /\ details' \in DetailTypes /\ details'.valid = FALSE /\ details'.photo = details.photo /\ details'.errors = e
        BY <1>1, <4>2 DEF DetailTypes, Texts, LocationField
      <4>4. QED
        BY <1>1, <3>1, <4>2, <4>3 DEF Errors, handleLocationChange
    <3>2. CASE handlePhotoChange
      <4>1. PICK b \in BOOLEAN :
              details' = [details EXCEPT !.photo = b, !.errors = IF b THEN @ \ {"photo"} ELSE @ \cup {"photo"}]
        BY <3>2 DEF handlePhotoChange, PhotoField
      <4>2. PICK e \in SUBSET {"location", "photo"} :
              /\ e = IF b THEN details.errors \ {"photo"} ELSE details.errors \cup {"photo"}
              /\ details' = [details EXCEPT !.photo = b, !.errors = e]
        <5>1. CASE b
          BY <1>1, <4>1, <5>1 DEF DetailTypes
        <5>2. CASE ~b
          BY <1>1, <4>1, <5>2 DEF DetailTypes
        <5>3. QED
          BY <5>1, <5>2
      <4>3. /\ details' \in DetailTypes /\ details'.valid = details.valid /\ details'.text = details.text
            /\ details'.photo = b /\ details'.errors = e
        BY <1>1, <4>2 DEF DetailTypes
      <4>4. details'.errors \subseteq Errors'
        <5>1. CASE b
          BY <1>1, <4>2, <4>3, <5>1 DEF Errors
        <5>2. CASE ~b
          BY <1>1, <4>2, <4>3, <5>2 DEF Errors
        <5>3. QED
          BY <5>1, <5>2
      <4>5. QED
        BY <3>2, <4>3, <4>4 DEF handlePhotoChange
    <3>3. QED
      BY <1>4, <3>1, <3>2
  <2>2. MapTypeOK' /\ PinHasItsLookup(form.pin)'
    BY <1>1, <2>1 DEF MapTypeOK, mapVars, pinVars, viewVars, PinHasItsLookup
  <2>3. ReportFormTypeOK'
    BY <1>2, <2>1, <2>2 DEF ReportInv, ReportFormTypeOK, DetailTypes
  <2>4. ReportsAreRight'
    BY <1>1, <1>2, <2>1, <2>2 DEF ReportInv, ReportsAreRight, FiledAtItsPlace, SizeIsDrawn, PhotosAreKept, mapVars, pinVars
  <2>5. QED
    BY <1>2, <2>1, <2>3, <2>4 DEF ReportInv, ChosenIsThePlace
<1>5. QED
  BY <1>3, <1>4 DEF ClickMap, handleBoundarySizeChange, formVars

LEMMA SubmitKeepsReports ==
  ASSUME ReportInv, handleSubmit PROVE ReportInv'
<1>1. /\ MapTypeOK /\ form \in FormTypes /\ details \in DetailTypes /\ sent \in 0..MaxReports /\ MaxReports \in Nat
      /\ {"placeholder", "typed"} \cap Places = {} /\ sends \subseteq Report
      /\ UNCHANGED <<pinMap, lookups, looked, camera, mounts, flights, form, timers, filed, photos, wiped>>
  BY PinMapAssumption, ReportFormAssumption
     DEF ReportInv, ReportFormTypeOK, FormTypes, DetailTypes, handleSubmit, mapVars, pinVars, viewVars
<1>2. MapTypeOK' /\ PinHasItsLookup(form.pin)'
  BY <1>1 DEF MapTypeOK, PinHasItsLookup, ReportInv, ReportsAreRight
<1>3. CASE Errors # {} /\ details' = [details EXCEPT !.errors = Errors] /\ UNCHANGED <<sends, sent, sendError>>
  <2>1. Errors \subseteq {"location", "photo"}
    BY DEF Errors
  <2>2. /\ details' \in DetailTypes /\ details'.valid = details.valid /\ details'.text = details.text
        /\ details'.photo = details.photo /\ details'.errors = Errors
    BY <1>1, <1>3, <2>1 DEF DetailTypes
  <2>3. Errors' = Errors
    BY <2>2 DEF Errors
  <2>4. ReportFormTypeOK'
    BY <1>1, <1>2, <1>3, <2>2 DEF ReportInv, ReportFormTypeOK, DetailTypes
  <2>5. ReportsAreRight'
    BY <1>1, <1>2, <1>3, <2>2, <2>3 DEF ReportInv, ReportsAreRight, FiledAtItsPlace, SizeIsDrawn, PhotosAreKept
  <2>6. QED
    BY <1>1, <1>3, <2>2, <2>4, <2>5 DEF ReportInv, ChosenIsThePlace
<1>4. ASSUME Errors = {}, sent < MaxReports,
             NEW s, s = [n |-> sent + 1, text |-> details.text, stage |-> "photo", wiped |-> wiped,
                         pin |-> IF form.pin = Nowhere THEN Origin ELSE form.pin],
             sends' = sends \cup {s}, sent' = sent + 1, sendError' = FALSE,
             details' = [details EXCEPT !.text = "placeholder", !.photo = FALSE, !.errors = {}]
      PROVE  ReportInv'
  <2>1. /\ details' \in DetailTypes /\ details'.text = "placeholder" /\ details'.errors = {} /\ details'.valid = details.valid
    BY <1>1, <1>4 DEF DetailTypes, Texts
  <2>2. /\ sent + 1 \in Nat /\ sent + 1 \in 0..MaxReports /\ sent' = sent + 1 /\ 1..sent \subseteq 1..(sent + 1)
        /\ sent + 1 \in 1..(sent + 1)
    BY <1>1, <1>4
  <2>3. details.text \in Places /\ details.valid = TRUE
    <3>1. details.valid /\ details.text \in Places \cup {"typed"}
      BY <1>4 DEF Errors
    <3>2. QED
      BY <1>1, <3>1 DEF ReportInv, ChosenIsThePlace, DetailTypes
  <2>4. /\ s.pin \in Places \cup {Origin} /\ s.n = sent + 1 /\ s.text = details.text /\ s.stage = "photo" /\ s.wiped = wiped
        /\ (s.pin = s.text \/ (s.pin = Origin /\ s.wiped))
    <3>1. /\ s.n = sent + 1 /\ s.text = details.text /\ s.stage = "photo" /\ s.wiped = wiped
          /\ s.pin = IF form.pin = Nowhere THEN Origin ELSE form.pin
      BY <1>4
    <3>2. Nowhere \notin Places
      BY PinMapAssumption
    <3>3. CASE form.location = details.text
      BY <1>1, <2>3, <3>1, <3>2, <3>3 DEF ReportInv, ChosenIsThePlace, FormTypes
    <3>4. CASE wiped
      BY <1>1, <2>3, <3>1, <3>2, <3>4 DEF ReportInv, ChosenIsThePlace, FormTypes
    <3>5. QED
      BY <2>3, <3>3, <3>4 DEF ReportInv, ChosenIsThePlace
  <2>5. s \in Report
    <3>1. details.text \in Texts /\ wiped \in BOOLEAN /\ sent + 1 \in Nat
      BY <1>1, <2>2 DEF DetailTypes, ReportInv, ReportFormTypeOK
    <3>2. PICK o \in Places \cup {Origin} : o = IF form.pin = Nowhere THEN Origin ELSE form.pin
      BY <1>1 DEF FormTypes
    <3>3. QED
      BY <1>4, <3>1, <3>2 DEF Report
  <2>6. ReportFormTypeOK'
    <3>1. \A x \in sends : x.n \in 1..sent /\ x.pin \in Places \cup {Origin} /\ x.stage \in {"photo", "report"}
      BY DEF ReportInv, ReportFormTypeOK
    <3>2. \A x \in sends' : x.n \in 1..sent' /\ x.pin \in Places \cup {Origin} /\ x.stage \in {"photo", "report"}
      BY <1>4, <2>2, <2>4, <3>1
    <3>3. timers' \subseteq 1..sent' /\ photos' \subseteq 1..sent' /\ filed' \subseteq 1..sent' /\ wiped' \in BOOLEAN
      BY <1>1, <2>2 DEF ReportInv, ReportFormTypeOK
    <3>4. sent' \in 0..MaxReports /\ sendError' \in BOOLEAN /\ form' \in FormTypes
      BY <1>1, <1>4, <2>2
    <3>5. QED
      BY <1>2, <2>1, <3>2, <3>3, <3>4 DEF ReportFormTypeOK, DetailTypes, FormTypes
  <2>7. ReportsAreRight'
    BY <1>1, <1>2, <1>4, <2>1, <2>3, <2>4 DEF ReportInv, ReportsAreRight, FiledAtItsPlace, SizeIsDrawn, PhotosAreKept
  <2>8. QED
    BY <1>1, <1>4, <2>1, <2>4, <2>5, <2>6, <2>7 DEF ReportInv, ChosenIsThePlace
<1>5. QED
  BY <1>3, <1>4 DEF handleSubmit

(* The two requests, and how they end. *)
LEMMA AnswersKeepReports ==
  ASSUME ReportInv, NEW s \in sends, uploadPhoto(s) \/ submitReport(s) \/ submitFails(s)
  PROVE  ReportInv'
<1>1. /\ UNCHANGED <<pinMap, lookups, looked, camera, mounts, flights, form, details, sent, wiped>>
      /\ sends \subseteq Report /\ s \in Report /\ s.n \in 1..sent
  BY DEF uploadPhoto, submitReport, submitFails, mapVars, pinVars, viewVars, ReportInv, ReportFormTypeOK
<1>2. ASSUME NEW r \in sends'
      PROVE  /\ r \in Report /\ r.n \in 1..sent /\ (r.stage = "report" => r.n \in photos')
             /\ r.text \in Places /\ (r.pin = r.text \/ (r.pin = Origin /\ r.wiped))
  <2>1. CASE r \in sends
    <3>1. r.stage = "report" => r.n \in photos
      BY <2>1 DEF ReportInv
    <3>2. photos \subseteq photos'
      BY DEF uploadPhoto, submitReport, submitFails
    <3>3. QED
      BY <2>1, <3>1, <3>2 DEF ReportInv, ReportFormTypeOK, ReportsAreRight, FiledAtItsPlace
  <2>2. CASE r = [s EXCEPT !.stage = "report"] /\ photos' = photos \cup {s.n}
    <3>1. r \in Report /\ r.n = s.n /\ r.text = s.text /\ r.pin = s.pin /\ r.wiped = s.wiped
      BY <1>1, <2>2 DEF Report
    <3>2. QED
      BY <1>1, <2>2, <3>1 DEF ReportInv, ReportsAreRight, FiledAtItsPlace
  <2>3. QED
    BY <2>1, <2>2 DEF uploadPhoto, submitReport, submitFails
<1>3. /\ timers' \subseteq 1..sent /\ photos' \subseteq 1..sent /\ filed' \subseteq 1..sent /\ filed' \subseteq photos'
      /\ sendError' \in BOOLEAN
  <2>1. s.stage = "report" => s.n \in photos
    BY DEF ReportInv
  <2>2. /\ timers \subseteq 1..sent /\ photos \subseteq 1..sent /\ filed \subseteq 1..sent /\ filed \subseteq photos
        /\ sendError \in BOOLEAN
    BY DEF ReportInv, ReportFormTypeOK, ReportsAreRight, PhotosAreKept
  <2>3. CASE uploadPhoto(s)
    BY <1>1, <2>2, <2>3 DEF uploadPhoto
  <2>4. CASE submitReport(s)
    BY <1>1, <2>1, <2>2, <2>4 DEF submitReport
  <2>5. CASE submitFails(s)
    <3>1. filed' = filed \/ (filed' = filed \cup {s.n} /\ s.stage = "report")
      BY <2>5 DEF submitFails
    <3>2. UNCHANGED <<timers, photos>> /\ sendError' = TRUE
      BY <2>5 DEF submitFails
    <3>3. QED
      BY <1>1, <2>1, <2>2, <3>1, <3>2
  <2>6. QED
    BY <2>3, <2>4, <2>5
<1>4. MapTypeOK' /\ PinHasItsLookup(form.pin)' /\ Errors' = Errors
  BY <1>1 DEF ReportInv, ReportFormTypeOK, MapTypeOK, ReportsAreRight, PinHasItsLookup, Errors
<1>5. \A r \in sends' : r.n \in 1..sent' /\ r.pin \in Places \cup {Origin} /\ r.stage \in {"photo", "report"}
  BY <1>1, <1>2 DEF Report
<1>6. ReportFormTypeOK'
  BY <1>1, <1>3, <1>4, <1>5 DEF ReportInv, ReportFormTypeOK
<1>7. ReportsAreRight'
  BY <1>1, <1>2, <1>3, <1>4 DEF ReportInv, ReportsAreRight, FiledAtItsPlace, SizeIsDrawn, PhotosAreKept
<1>8. QED
  BY <1>1, <1>2, <1>6, <1>7 DEF ReportInv, ChosenIsThePlace

LEMMA ResetKeepsReports ==
  ASSUME ReportInv, NEW i \in timers, ResetAfterSubmit(i)
  PROVE  ReportInv'
<1>1. /\ UNCHANGED <<lookups, looked, camera, mounts, flights, details, sends, sent, sendError, filed, photos>>
      /\ form' = initialFormState /\ wiped' = TRUE /\ pinMap' = FreshMap /\ timers' \subseteq timers
  BY DEF ResetAfterSubmit, viewVars
<1>2. form' \in FormTypes /\ form'.location = "placeholder" /\ form'.pin = Nowhere /\ form'.size = "least"
  BY <1>1 DEF initialFormState, FormTypes
<1>3. pinMap' \in PinTypes /\ pinMap'.pin = Nowhere /\ pinMap'.radius = "least" /\ Nowhere \notin Places /\ "placeholder" \notin Places
  BY <1>1, FreshMapIsTyped, PinMapAssumption
<1>4. MapTypeOK' /\ PinHasItsLookup(form.pin)' /\ Errors' = Errors
  BY <1>1, <1>3 DEF ReportInv, ReportFormTypeOK, MapTypeOK, PinTypes, PinHasItsLookup, Errors
<1>5. ReportFormTypeOK'
  BY <1>1, <1>2, <1>4 DEF ReportInv, ReportFormTypeOK, FormTypes
<1>6. ReportsAreRight'
  BY <1>1, <1>2, <1>3, <1>4 DEF ReportInv, ReportsAreRight, FiledAtItsPlace, SizeIsDrawn, PhotosAreKept
<1>7. QED
  BY <1>1, <1>2, <1>3, <1>5, <1>6 DEF ReportInv, ChosenIsThePlace

LEMMA ReportStep == ReportInv /\ ReportFormNext => ReportInv'
<1>1. SUFFICES ASSUME ReportInv, ReportFormNext PROVE ReportInv'
  OBVIOUS
<1>2. lookups \subseteq [n : 1..MaxClicks, place : Places]
  BY <1>1 DEF ReportInv, ReportFormTypeOK, MapTypeOK
<1>3. ASSUME NEW l \in lookups, handleLocationSelect(l) PROVE ReportInv'
  BY <1>1, <1>2, <1>3, PlaceKeepsReports
<1>4. ASSUME NEW p \in Places, handleLocationSearch(p) PROVE ReportInv'
  BY <1>1, <1>4, PlaceKeepsReports
<1>5. QED
  BY <1>1, <1>3, <1>4, FieldsKeepReports, SubmitKeepsReports, AnswersKeepReports, ResetKeepsReports DEF ReportFormNext

LEMMA ReportStays == ReportInv /\ UNCHANGED reportFormVars => ReportInv'
  BY DEF ReportInv, ReportFormTypeOK, MapTypeOK, ChosenIsThePlace, ReportsAreRight, FiledAtItsPlace, SizeIsDrawn,
         PhotosAreKept, PinHasItsLookup, Errors, reportFormVars, formVars, mapVars, pinVars, viewVars

-----------------------------------------------------------------------------
(* The view of the map.  It has moved once for each mount but the present, *)
(* and for that one if it knows so.                                        *)
ViewInv ==
  /\ MapTypeOK /\ (camera.user => camera.centered)
  /\ flights <= mounts - (IF camera.centered THEN 0 ELSE 1)
CameraTypes == [at : Places \cup {"city", "user"}, user : BOOLEAN, centered : BOOLEAN, locating : BOOLEAN]

LEMMA ViewStarts == MapInit => ViewInv
<1>1. MapInit => mounts = 1 /\ flights = 0 /\ ~camera.centered /\ ~camera.user
  BY DEF MapInit, FreshView
<1>2. QED
  BY <1>1, MapStarts DEF ViewInv

LEMMA ViewStep == ViewInv /\ ViewNext => ViewInv'
<1>1. SUFFICES ASSUME ViewInv, ViewNext PROVE ViewInv'
  OBVIOUS
<1>2. /\ pinMap \in PinTypes /\ lookups \subseteq [n : 1..MaxClicks, place : Places] /\ looked \in 0..MaxClicks
      /\ mounts \in 1..MaxClicks + 1 /\ flights \in Nat /\ camera \in CameraTypes /\ MaxClicks \in Nat
      /\ (camera.user => camera.centered) /\ flights <= mounts - (IF camera.centered THEN 0 ELSE 1)
  BY <1>1, PinMapAssumption DEF ViewInv, MapTypeOK, PinTypes, CameraTypes
<1>3. ASSUME NEW p \in Places, toLocation(p) PROVE ViewInv'
  <2>1. camera' \in CameraTypes /\ camera'.user = camera.user /\ camera'.centered = camera.centered
    BY <1>2, <1>3 DEF toLocation, CameraTypes
  <2>2. looked' \in 0..MaxClicks /\ UNCHANGED <<pinMap, lookups, mounts, flights>>
    BY <1>2, <1>3 DEF toLocation
  <2>3. QED
    BY <1>2, <2>1, <2>2 DEF ViewInv, MapTypeOK, PinTypes, CameraTypes
<1>4. CASE watchPosition
  <2>1. PICK to \in Places \cup {"city", "user"} : to = IF camera.centered THEN camera.at ELSE "user"
    BY <1>2 DEF CameraTypes
  <2>2. camera' = [camera EXCEPT !.user = TRUE, !.centered = TRUE, !.at = to]
    BY <1>2, <1>4, <2>1 DEF watchPosition, CameraTypes
  <2>3. camera' \in CameraTypes /\ camera'.user /\ camera'.centered
    BY <1>2, <2>2 DEF CameraTypes
  <2>4. /\ flights' = flights + (IF camera.centered THEN 0 ELSE 1) /\ UNCHANGED <<pinMap, lookups, looked, mounts>>
    BY <1>4 DEF watchPosition, pinVars
  <2>5. flights' \in Nat /\ flights' <= mounts
    BY <1>2, <2>4
  <2>6. QED
    BY <1>2, <2>3, <2>4, <2>5 DEF ViewInv, MapTypeOK, PinTypes, CameraTypes
<1>5. CASE handleRecenter \/ Located
  <2>1. UNCHANGED <<pinMap, lookups, looked, mounts, flights>>
    BY <1>5 DEF handleRecenter, Located, pinVars
  <2>2. \/ camera' = [camera EXCEPT !.at = "user"]
        \/ camera' = [camera EXCEPT !.locating = TRUE]
        \/ camera' = [camera EXCEPT !.locating = FALSE]
        \/ camera' = [at |-> "user", user |-> TRUE, centered |-> TRUE, locating |-> FALSE]
    BY <1>5 DEF handleRecenter, Located
  <2>3. /\ camera' \in CameraTypes
        /\ \/ camera'.user = camera.user /\ camera'.centered = camera.centered
           \/ camera'.user /\ camera'.centered
    <3>1. CASE camera' = [at |-> "user", user |-> TRUE, centered |-> TRUE, locating |-> FALSE]
      BY <3>1 DEF CameraTypes
    <3>2. CASE camera' = [camera EXCEPT !.at = "user"]
      BY <1>2, <3>2 DEF CameraTypes
    <3>3. CASE camera' = [camera EXCEPT !.locating = TRUE] \/ camera' = [camera EXCEPT !.locating = FALSE]
      BY <1>2, <3>3 DEF CameraTypes
    <3>4. QED
      BY <2>2, <3>1, <3>2, <3>3
  <2>4. flights' <= mounts' - (IF camera'.centered THEN 0 ELSE 1) /\ (camera'.user => camera'.centered)
    BY <1>2, <2>1, <2>3
  <2>5. QED
    BY <1>2, <2>1, <2>3, <2>4 DEF ViewInv, MapTypeOK, PinTypes, CameraTypes
<1>6. CASE MountAgain
  <2>1. /\ mounts' = mounts + 1 /\ mounts <= MaxClicks /\ camera' = FreshView /\ UNCHANGED <<pinMap, lookups, looked, flights>>
    BY <1>6 DEF MountAgain, pinVars
  <2>2. mounts' \in 1..MaxClicks + 1 /\ flights' <= mounts' - 1
    BY <1>2, <2>1
  <2>3. camera' \in CameraTypes /\ ~camera'.user /\ ~camera'.centered
    BY <2>1 DEF FreshView, CameraTypes
  <2>4. QED
    BY <1>2, <2>1, <2>2, <2>3 DEF ViewInv, MapTypeOK, PinTypes, CameraTypes
<1>7. QED
  BY <1>1, <1>3, <1>4, <1>5, <1>6 DEF ViewNext

LEMMA WatchMoves == ViewInv => WatchMovesOnce
  BY DEF ViewInv, MapTypeOK, WatchMovesOnce

-----------------------------------------------------------------------------
(* The resource form.  An address that was picked is of the pin, and there *)
(* is none without one; a capacity beyond its range came before its kind.  *)
ResourceTypes ==
  [kind : Kinds, text : Places \cup {"placeholder", "typed"}, pin : Places \cup {Origin, Nowhere},
   capacity : 0..WaterMax, contact : BOOLEAN, span : Spans]
PlaceIsPinned ==
  /\ resource.text \in Places => resource.pin = resource.text
  /\ resource.text = "placeholder" => resource.pin = Nowhere
CapacityFits == resource.capacity > capacityMax(resource.kind) => switched
ResourceInv ==
  /\ ResourceFormTypeOK /\ PlaceIsPinned /\ CapacityFits /\ ResourcesAreRight
  /\ switched \in BOOLEAN /\ refusal \in BOOLEAN /\ showErrors \in BOOLEAN /\ showSuccess \in BOOLEAN
  /\ showSuccess => ~showErrors
  /\ sending # {} => sentOnce # 0 /\ ~refusal

LEMMA ResourceFacts ==
  ASSUME ResourceInv
  PROVE  /\ MapTypeOK /\ resource \in ResourceTypes /\ sentOnce \in 0..MaxResources /\ MaxResources \in Nat
         /\ registered \subseteq 1..sentOnce
         /\ \A s \in sending : s.n = sentOnce
         /\ CrewMax \in Nat /\ WaterMax \in Nat /\ 0 < CrewMax /\ CrewMax <= WaterMax
         /\ capacityMax("crew") = CrewMax /\ capacityMax("water_tank") = WaterMax
         /\ Origin # Nowhere /\ {Origin, Nowhere, "placeholder", "typed"} \cap Places = {}
         /\ PinHasItsLookup(resource.pin)
  BY PinMapAssumption, ResourceFormAssumption
     DEF ResourceInv, ResourceFormTypeOK, ResourceTypes, ResourcesAreRight, capacityMax

LEMMA EmptyFormIsTyped ==
  /\ EmptyForm \in ResourceTypes /\ EmptyForm.text = "placeholder" /\ EmptyForm.pin = Nowhere /\ EmptyForm.capacity = 0
  /\ EmptyForm.kind = "water_tank"
<1>1. 0 \in 0..WaterMax
  BY ResourceFormAssumption
<1>2. QED
  BY <1>1 DEF EmptyForm, ResourceTypes, Kinds, Spans

LEMMA ResourceStarts == ResourceFormInit => ResourceInv
<1>1. SUFFICES ASSUME ResourceFormInit PROVE ResourceInv
  OBVIOUS
<1>2. MapTypeOK /\ pinMap.pin = Nowhere /\ Nowhere \notin Places /\ "placeholder" \notin Places
  BY <1>1, MapStarts, FreshMapIsTyped, PinMapAssumption DEF ResourceFormInit, MapInit, PinInit
<1>3. /\ resource = EmptyForm /\ sending = {} /\ registered = {} /\ sentOnce = 0
      /\ showErrors = FALSE /\ showSuccess = FALSE /\ refusal = FALSE /\ switched = FALSE
  BY <1>1 DEF ResourceFormInit
<1>4. 0 \in 0..MaxResources /\ 0 <= capacityMax("water_tank")
  BY ResourceFormAssumption DEF capacityMax
<1>5. ResourceFormTypeOK
  BY <1>2, <1>3, <1>4, EmptyFormIsTyped DEF ResourceFormTypeOK, ResourceTypes
<1>6. PlaceIsPinned /\ CapacityFits
  BY <1>2, <1>3, <1>4, EmptyFormIsTyped, ResourceFormAssumption DEF PlaceIsPinned, CapacityFits, capacityMax
<1>7. ResourcesAreRight
  BY <1>2, <1>3, EmptyFormIsTyped
     DEF ResourcesAreRight, ResourcesAreSomewhere, CapacitiesFit, SuccessIsTrue, PinHasItsLookup
<1>8. QED
  BY <1>3, <1>5, <1>6, <1>7 DEF ResourceInv

(* What is common to all that only changes the fields and the map. *)
LEMMA FieldsKeepResources ==
  ASSUME ResourceInv, resource' \in ResourceTypes, MapTypeOK', PlaceIsPinned', CapacityFits', switched' \in BOOLEAN,
         PinHasItsLookup(resource.pin)', UNCHANGED <<sending, registered, sentOnce, showErrors, showSuccess, refusal>>
  PROVE  ResourceInv'
<1>1. ResourceFormTypeOK'
  BY DEF ResourceInv, ResourceFormTypeOK, ResourceTypes
<1>2. ResourcesAreSomewhere' /\ CapacitiesFit'
  BY DEF ResourceInv, ResourcesAreRight, ResourcesAreSomewhere, CapacitiesFit, capacityMax
<1>3. SuccessIsTrue'
  <2>1. showSuccess => ~showErrors /\ sentOnce \in registered /\ sending = {} /\ ~refusal
    BY DEF ResourceInv, ResourcesAreRight, SuccessIsTrue
  <2>2. QED
    BY <2>1 DEF SuccessIsTrue, shown
<1>4. QED
  BY <1>1, <1>2, <1>3 DEF ResourceInv, ResourcesAreRight

LEMMA PlaceKeepsResources ==
  ASSUME ResourceInv,
         \/ TypeAddress
         \/ \E p \in Places : PickAddress(p) \/ \E l \in lookups : l.place = p /\ PinAddress(l)
  PROVE  ResourceInv'
<1>0. /\ MapTypeOK /\ resource \in ResourceTypes /\ PinHasItsLookup(resource.pin)
      /\ Origin # Nowhere /\ {Origin, Nowhere, "placeholder", "typed"} \cap Places = {}
  BY ResourceFacts
<1>1. PICK x \in Places \cup {"typed"}, p \in Places \cup {Origin} :
        /\ resource' = SetPlace(x, p) /\ pinMap' = externalPin(pinMap, resource.pin, p)
        /\ x \in {p, "typed"} /\ (x \in Places => x = p)
        /\ NothingSent /\ UNCHANGED <<looked, switched>>
        /\ \/ lookups' = lookups
           \/ \E l \in lookups : lookups' = lookups \ {l} /\ l.place = p
  <2>1. CASE TypeAddress
    <3>1. PICK p \in Places \cup {Origin} : p = IF resource.pin = Nowhere THEN Origin ELSE resource.pin
      BY <1>0 DEF ResourceTypes
    <3>2. resource' = SetPlace("typed", p) /\ pinMap' = externalPin(pinMap, resource.pin, p)
      BY <2>1, <3>1 DEF TypeAddress
    <3>3. QED
      BY <1>0, <2>1, <3>2 DEF TypeAddress
  <2>2. CASE \E p \in Places : PickAddress(p)
    BY <2>2 DEF PickAddress
  <2>3. CASE \E p \in Places : \E l \in lookups : l.place = p /\ PinAddress(l)
    BY <2>3 DEF PinAddress, reverseGeocode
  <2>4. QED
    BY <2>1, <2>2, <2>3
<1>2. resource' = [resource EXCEPT !.text = x, !.pin = p]
  BY <1>1 DEF SetPlace
<1>3. /\ resource' \in ResourceTypes /\ resource'.text = x /\ resource'.pin = p
      /\ resource'.capacity = resource.capacity /\ resource'.kind = resource.kind
  BY <1>0, <1>2 DEF ResourceTypes
<1>4. resource.pin \in Places \cup {Origin, Nowhere} /\ UNCHANGED <<looked, viewVars>>
  BY <1>0, <1>1 DEF ResourceTypes, NothingSent
<1>5. MapTypeOK' /\ PinHasItsLookup(p)'
  BY <1>0, <1>1, <1>4, PlaceIsFollowed
<1>6. PinHasItsLookup(resource.pin)'
  BY <1>3, <1>5 DEF PinHasItsLookup
<1>7. PlaceIsPinned' /\ CapacityFits' /\ switched' \in BOOLEAN
  BY <1>0, <1>1, <1>3 DEF PlaceIsPinned, CapacityFits, ResourceInv, capacityMax
<1>8. QED
  BY <1>1, <1>3, <1>5, <1>6, <1>7, FieldsKeepResources DEF NothingSent

LEMMA OthersKeepResources ==
  ASSUME ResourceInv,
         \/ \E p \in Places : PinOnMap(p)
         \/ handleContactChange \/ handleResourceChange \/ handleAvailabilityChange \/ SetCapacity
  PROVE  ResourceInv'
<1>1. /\ MapTypeOK /\ resource \in ResourceTypes /\ PinHasItsLookup(resource.pin)
      /\ WaterMax \in Nat /\ CrewMax \in Nat /\ CrewMax <= WaterMax
  BY ResourceFacts
<1>2. UNCHANGED <<sending, registered, sentOnce, showErrors, showSuccess, refusal, viewVars>>
  BY DEF PinOnMap, handleContactChange, handleResourceChange, handleAvailabilityChange, SetCapacity, NothingSent
<1>3. ASSUME NEW p \in Places, PinOnMap(p) PROVE ResourceInv'
  <2>1. MapTypeOK' /\ pinMap'.pin = p /\ \E l \in lookups' : l.place = p
    BY <1>1, <1>2, <1>3, ClickIsTyped DEF PinOnMap
  <2>2. UNCHANGED <<resource, switched>>
    BY <1>3 DEF PinOnMap
  <2>3. PinHasItsLookup(resource.pin)'
    BY <2>1 DEF PinHasItsLookup
  <2>4. PlaceIsPinned' /\ CapacityFits' /\ switched' \in BOOLEAN
    BY <2>2 DEF ResourceInv, PlaceIsPinned, CapacityFits, capacityMax
  <2>5. QED
    BY <1>1, <1>2, <2>1, <2>2, <2>3, <2>4, FieldsKeepResources
<1>4. CASE handleContactChange \/ handleResourceChange \/ handleAvailabilityChange \/ SetCapacity
  <2>1. UNCHANGED pinVars
    BY <1>4 DEF handleContactChange, handleResourceChange, handleAvailabilityChange, SetCapacity
  <2>2. MapTypeOK'
    BY <1>1, <1>2, <2>1 DEF MapTypeOK, pinVars, viewVars
  <2>3. /\ resource' \in ResourceTypes /\ resource'.text = resource.text /\ resource'.pin = resource.pin
        /\ switched' \in BOOLEAN /\ (resource'.capacity > capacityMax(resource'.kind) => switched')
    <3>1. CASE handleContactChange
      <4>1. resource' = [resource EXCEPT !.contact = ~resource.contact] /\ switched' = switched
        BY <1>1, <3>1 DEF handleContactChange, ResourceTypes
      <4>2. /\ resource' \in ResourceTypes /\ resource'.text = resource.text /\ resource'.pin = resource.pin
            /\ resource'.capacity = resource.capacity /\ resource'.kind = resource.kind
        BY <1>1, <4>1 DEF ResourceTypes
      <4>3. QED
        BY <4>1, <4>2 DEF ResourceInv, CapacityFits
    <3>2. CASE handleResourceChange
      <4>1. PICK k \in Kinds : resource' = [resource EXCEPT !.kind = k]
        BY <3>2 DEF handleResourceChange
      <4>2. switched' = TRUE
        BY <3>2 DEF handleResourceChange
      <4>3. QED
        BY <1>1, <4>1, <4>2 DEF ResourceTypes
    <3>3. CASE handleAvailabilityChange
      <4>1. PICK to \in Spans : resource' = [resource EXCEPT !.span = to]
        BY <3>3 DEF handleAvailabilityChange, Availability, Spans
      <4>2. /\ resource' \in ResourceTypes /\ resource'.text = resource.text /\ resource'.pin = resource.pin
            /\ resource'.capacity = resource.capacity /\ resource'.kind = resource.kind
        BY <1>1, <4>1 DEF ResourceTypes
      <4>3. QED
        BY <3>3, <4>2 DEF ResourceInv, CapacityFits, handleAvailabilityChange
    <3>4. CASE SetCapacity
      <4>1. PICK n \in Capacity : resource' = [resource EXCEPT !.capacity = clamp(n)]
        BY <3>4 DEF SetCapacity
      <4>2. capacityMax(resource.kind) \in 0..WaterMax
        BY <1>1 DEF capacityMax
      <4>3. clamp(n) \in 0..WaterMax /\ clamp(n) <= capacityMax(resource.kind)
        <5>1. n \in Nat
          BY <1>1 DEF Capacity
        <5>2. QED
          BY <1>1, <4>2, <5>1 DEF clamp
      <4>4. /\ resource' \in ResourceTypes /\ resource'.text = resource.text /\ resource'.pin = resource.pin
            /\ resource'.capacity = clamp(n) /\ resource'.kind = resource.kind
        BY <1>1, <4>1, <4>3 DEF ResourceTypes
      <4>5. ~(resource'.capacity > capacityMax(resource'.kind))
        BY <1>1, <4>2, <4>3, <4>4
      <4>6. QED
        BY <3>4, <4>4, <4>5 DEF SetCapacity
    <3>5. QED
      BY <1>4, <3>1, <3>2, <3>3, <3>4
  <2>4. PinHasItsLookup(resource.pin)'
    BY <1>1, <2>1, <2>3 DEF PinHasItsLookup, pinVars
  <2>5. PlaceIsPinned' /\ CapacityFits'
    BY <2>3 DEF ResourceInv, PlaceIsPinned, CapacityFits, capacityMax
  <2>6. QED
    BY <1>2, <2>2, <2>3, <2>4, <2>5, FieldsKeepResources
<1>5. QED
  BY <1>3, <1>4

(* What is sent is somewhere. *)
LEMMA RegisterKeepsResources ==
  ASSUME ResourceInv, RegisterResource PROVE ResourceInv'
<1>1. /\ UNCHANGED <<pinMap, lookups, looked, camera, mounts, flights, resource, registered, switched>> /\ sending = {}
      /\ showSuccess' = FALSE
  BY DEF RegisterResource, RegisterView, mapVars, pinVars, viewVars
<1>2. MapTypeOK' /\ PinHasItsLookup(resource.pin)' /\ PlaceIsPinned' /\ CapacityFits'
  BY <1>1, ResourceFacts DEF MapTypeOK, PinHasItsLookup, PlaceIsPinned, CapacityFits, ResourceInv, capacityMax
<1>3. CASE showErrors' = TRUE /\ UNCHANGED <<sending, sentOnce, refusal>>
  BY <1>1, <1>2, <1>3
     DEF ResourceInv, ResourceFormTypeOK, ResourcesAreRight, ResourcesAreSomewhere, CapacitiesFit, SuccessIsTrue
<1>4. ASSUME validateResourceForm(resource) = {}, sentOnce < MaxResources,
             NEW s, s = [n |-> sentOnce + 1, form |-> resource, switched |-> switched],
             sending' = {s}, sentOnce' = sentOnce + 1, refusal' = FALSE, showErrors' = showErrors
      PROVE  ResourceInv'
  <2>1. s.n = sentOnce + 1 /\ s.form = resource /\ s.switched = switched
    BY <1>4
  <2>2. /\ sentOnce + 1 \in 0..MaxResources /\ 1..sentOnce \subseteq 1..(sentOnce + 1) /\ sentOnce' # 0
    BY <1>4, ResourceFacts
  <2>3. resource.pin \notin {Nowhere, Origin}
    BY <1>4 DEF validateResourceForm
  <2>4. resource.pin \in Places /\ resource.text \in {resource.pin, "typed"}
    BY <2>3, ResourceFacts DEF ResourceInv, PlaceIsPinned, ResourceTypes
  <2>5. ResourceFormTypeOK'
    BY <1>1, <1>2, <1>4, <2>1, <2>2 DEF ResourceInv, ResourceFormTypeOK
  <2>6. ResourcesAreRight'
    BY <1>1, <1>2, <1>4, <2>1, <2>4
       DEF ResourceInv, CapacityFits, ResourcesAreRight, ResourcesAreSomewhere, CapacitiesFit, SuccessIsTrue, capacityMax
  <2>7. QED
    BY <1>1, <1>2, <1>4, <2>2, <2>5, <2>6 DEF ResourceInv
<1>5. QED
  BY <1>3, <1>4 DEF RegisterResource

LEMMA AnswersKeepResources ==
  ASSUME ResourceInv,
         handleCancel \/ SuccessFades \/ \E s \in sending : Created(s) \/ NotCreated(s)
  PROVE  ResourceInv'
<1>1. UNCHANGED <<lookups, looked, camera, mounts, flights, sentOnce>>
  BY DEF handleCancel, SuccessFades, Created, NotCreated, mapVars, pinVars, viewVars
<1>2. CASE resource' = EmptyForm /\ pinMap' = FreshMap /\ showErrors' = FALSE /\ switched' = FALSE
           /\ refusal' = refusal /\ sending' = {}
           /\ \/ showSuccess' = FALSE /\ registered' = registered
              \/ /\ showSuccess' = TRUE /\ registered' = registered \cup {sentOnce}
                 /\ sentOnce \in 1..sentOnce /\ ~refusal
  <2>1. MapTypeOK' /\ pinMap'.pin = Nowhere /\ Nowhere \notin Places /\ "placeholder" \notin Places
    <3>1. pinMap' \in PinTypes /\ pinMap'.pin = Nowhere
      BY <1>2, FreshMapIsTyped
    <3>2. QED
      BY <1>1, <3>1, ResourceFacts DEF MapTypeOK, PinTypes
  <2>2. PlaceIsPinned' /\ CapacityFits' /\ resource' \in ResourceTypes /\ PinHasItsLookup(resource.pin)'
    BY <1>2, <2>1, EmptyFormIsTyped, ResourceFacts DEF PlaceIsPinned, CapacityFits, capacityMax, PinHasItsLookup
  <2>3. registered' \subseteq 1..sentOnce
    BY <1>2, ResourceFacts
  <2>4. ResourceFormTypeOK'
    BY <1>1, <1>2, <2>1, <2>2, <2>3 DEF ResourceInv, ResourceFormTypeOK, ResourceTypes
  <2>5. ResourcesAreRight'
    BY <1>1, <1>2, <2>2 DEF ResourcesAreRight, ResourcesAreSomewhere, CapacitiesFit, SuccessIsTrue, shown
  <2>6. QED
    BY <1>2, <2>2, <2>4, <2>5 DEF ResourceInv
<1>3. CASE /\ UNCHANGED <<pinMap, resource, showErrors, switched>> /\ sending' \subseteq sending
           /\ registered' \in SUBSET (1..sentOnce) /\ registered \subseteq registered'
           /\ refusal' \in BOOLEAN /\ (sending' # {} => refusal' = refusal)
           /\ showSuccess' \in BOOLEAN /\ (showSuccess' => showSuccess /\ UNCHANGED <<sending, registered, refusal>>)
  <2>1. MapTypeOK' /\ PinHasItsLookup(resource.pin)' /\ PlaceIsPinned' /\ CapacityFits'
    BY <1>1, <1>3, ResourceFacts DEF MapTypeOK, PinHasItsLookup, PlaceIsPinned, CapacityFits, ResourceInv, capacityMax
  <2>2. ResourceFormTypeOK'
    BY <1>1, <1>3, <2>1 DEF ResourceInv, ResourceFormTypeOK
  <2>3. ResourcesAreRight'
    BY <1>1, <1>3, <2>1
       DEF ResourceInv, ResourcesAreRight, ResourcesAreSomewhere, CapacitiesFit, SuccessIsTrue, shown, capacityMax
  <2>4. QED
    BY <1>1, <1>3, <2>1, <2>2, <2>3 DEF ResourceInv
<1>4. CASE handleCancel
  BY <1>2, <1>4 DEF handleCancel, RegisterView
<1>5. CASE SuccessFades
  BY <1>3, <1>5, ResourceFacts DEF SuccessFades, mapVars, pinVars, ResourceInv
<1>6. ASSUME NEW s \in sending, Created(s) PROVE ResourceInv'
  <2>1. s.n = sentOnce /\ ~refusal
    BY ResourceFacts DEF ResourceInv
  <2>2. sentOnce \in 1..sentOnce
    BY <1>6, ResourceFacts DEF ResourceInv
  <2>3. QED
    BY <1>2, <1>6, <2>1, <2>2 DEF Created
<1>7. ASSUME NEW s \in sending, NotCreated(s) PROVE ResourceInv'
  <2>1. s.n = sentOnce /\ sentOnce \in 1..sentOnce
    BY ResourceFacts DEF ResourceInv
  <2>2. registered' = registered \/ registered' = registered \cup {s.n}
    BY <1>7 DEF NotCreated
  <2>3. registered' \in SUBSET (1..sentOnce) /\ registered \subseteq registered'
    BY <2>1, <2>2, ResourceFacts
  <2>4. /\ UNCHANGED <<pinMap, resource, showErrors, showSuccess, switched>> /\ sending' = {} /\ refusal' = TRUE
    BY <1>7 DEF NotCreated, mapVars, pinVars
  <2>5. showSuccess \in BOOLEAN /\ ~showSuccess
    BY <1>7 DEF ResourceInv, ResourcesAreRight, SuccessIsTrue
  <2>6. QED
    BY <1>3, <2>3, <2>4, <2>5
<1>8. QED
  BY <1>4, <1>5, <1>6, <1>7

LEMMA ResourceStep == ResourceInv /\ ResourceFormNext => ResourceInv'
<1>1. SUFFICES ASSUME ResourceInv, ResourceFormNext PROVE ResourceInv'
  OBVIOUS
<1>2. ASSUME NEW l \in lookups, PinAddress(l) PROVE ResourceInv'
  <2>1. l.place \in Places
    BY <1>1, ResourceFacts DEF MapTypeOK
  <2>2. QED
    BY <1>1, <1>2, <2>1, PlaceKeepsResources
<1>3. ASSUME NEW p \in Places, PickAddress(p) PROVE ResourceInv'
  BY <1>1, <1>3, PlaceKeepsResources
<1>4. QED
  BY <1>1, <1>2, <1>3, PlaceKeepsResources, OthersKeepResources, RegisterKeepsResources, AnswersKeepResources
     DEF ResourceFormNext

LEMMA ResourceStays == ResourceInv /\ UNCHANGED resourceFormVars => ResourceInv'
  BY DEF ResourceInv, ResourceFormTypeOK, MapTypeOK, PlaceIsPinned, CapacityFits, ResourcesAreRight, ResourcesAreSomewhere,
         CapacitiesFit, SuccessIsTrue, shown, PinHasItsLookup, capacityMax,
         resourceFormVars, resourceVars, mapVars, pinVars, viewVars

-----------------------------------------------------------------------------
(* Saved places.  Whoever was counted and not overtaken found room; a list *)
(* that is not the server's is followed by an answer that has it fetched.  *)
DialogTypes ==
  [open : BOOLEAN, address : Places \cup {"placeholder", "typed"}, pin : Places \cup {Nowhere},
   searched : Places \cup {Nowhere}, saving : 0..MaxAdds]
Add == [n : Nat, place : Places, address : Places, at : {"sent", "counted", "refused", "saved"}]
Delete == [of : Nat, done : BOOLEAN]
Listing == [at : {"idle", "asked", "read"}, says : SUBSET Nat]

SavedTypes ==
  /\ dialog \in DialogTypes /\ adds \subseteq Add /\ deletes \subseteq Delete
  /\ added \in 0..MaxAdds /\ missed \in BOOLEAN
  /\ listing \in Listing /\ listing.says \subseteq 1..added
  /\ listing.at = "idle" => listing = Idle
  /\ listing.at = "asked" => listing = Asked
  /\ \A a \in adds : a.n \in 1..added
  /\ \A d \in deletes : d.of \in 1..added
  /\ saved \subseteq 1..added /\ shownPlaces \subseteq 1..added /\ crossed \subseteq 1..added
PinIsNamed == dialog.pin # Nowhere => dialog.address = dialog.pin
CountedFoundRoom ==
  \A a \in adds : a.at = "counted" /\ a.n \notin crossed => Cardinality(saved) < MAX_LOCATIONS
Untold == missed \/ (\E a \in adds : a.at = "saved") \/ (\E d \in deletes : d.done)
ListIsFollowed ==
  /\ listing = Idle => shownPlaces = saved \/ Untold
  /\ listing.at = "read" => listing.says = saved \/ Untold
SavedInv ==
  /\ MapTypeOK /\ SavedTypes /\ PinIsNamed /\ CountedFoundRoom /\ ListIsFollowed /\ PlacesAreFew /\ PlacesAreNamed

LEMMA IdleIsNotAsked ==
  /\ Idle # Asked /\ Idle \in Listing /\ Asked \in Listing
  /\ Idle.at = "idle" /\ Asked.at = "asked" /\ Idle.says = {} /\ Asked.says = {}
  BY DEF Idle, Asked, Listing

LEMMA ClosedIsTyped == Closed \in DialogTypes /\ Closed.pin = Nowhere
<1>1. 0 \in 0..MaxAdds
  BY SavedPlacesAssumption
<1>2. QED
  BY <1>1 DEF Closed, DialogTypes

LEMMA SavedIsFinite ==
  ASSUME added \in Nat, NEW S, S \subseteq 1..added
  PROVE  IsFiniteSet(S) /\ Cardinality(S) \in Nat
<1>1. IsFiniteSet(1..added)
  BY FS_Interval
<1>2. IsFiniteSet(S)
  BY <1>1, FS_Subset
<1>3. QED
  BY <1>2, FS_CardinalityType

LEMMA SavedStarts == SavedPlacesInit => SavedInv
<1>1. SUFFICES ASSUME SavedPlacesInit PROVE SavedInv
  OBVIOUS
<1>2. /\ dialog = Closed /\ adds = {} /\ deletes = {} /\ saved = {} /\ shownPlaces = {} /\ listing = Idle
      /\ added = 0 /\ crossed = {} /\ missed = FALSE
  BY <1>1 DEF SavedPlacesInit
<1>3. MapTypeOK
  BY <1>1, MapStarts DEF SavedPlacesInit
<1>4. 0 \in 0..MaxAdds /\ MAX_LOCATIONS \in Nat
  BY SavedPlacesAssumption
<1>5. SavedTypes /\ PinIsNamed
  BY <1>2, <1>4, ClosedIsTyped, IdleIsNotAsked DEF SavedTypes, PinIsNamed
<1>6. CountedFoundRoom /\ ListIsFollowed /\ PlacesAreNamed
  BY <1>2, IdleIsNotAsked DEF CountedFoundRoom, ListIsFollowed, PlacesAreNamed
<1>7. PlacesAreFew
  <2>1. {x \in saved : x \notin crossed} = {}
    BY <1>2
  <2>2. QED
    BY <1>4, <2>1, FS_EmptySet DEF PlacesAreFew
<1>8. QED
  BY <1>3, <1>5, <1>6, <1>7 DEF SavedInv

(* The dialog and its map. *)
LEMMA DialogKeepsSaved ==
  ASSUME SavedInv,
         \/ OpenDialog \/ CancelDialog \/ handleAddressChange
         \/ \E p \in Places : handleSearchSelect(p) \/ PinInDialog(p)
         \/ \E l \in lookups : AddressInDialog(l)
  PROVE  SavedInv'
<1>1. /\ MapTypeOK /\ dialog \in DialogTypes /\ PinIsNamed /\ pinMap \in PinTypes
      /\ lookups \subseteq [n : 1..MaxClicks, place : Places] /\ Nowhere \notin Places
  BY PinMapAssumption DEF SavedInv, SavedTypes, MapTypeOK, PinTypes
<1>2. UNCHANGED <<viewVars, adds, deletes, saved, shownPlaces, listing, added, crossed, missed>>
  BY DEF OpenDialog, CancelDialog, handleAddressChange, handleSearchSelect, PinInDialog, AddressInDialog, SetAddress,
         mapVars, savedVars
<1>3. MapTypeOK' /\ dialog' \in DialogTypes /\ PinIsNamed'
  <2>1. CASE OpenDialog
    <3>1. /\ dialog' = [Closed EXCEPT !.open = TRUE] /\ pinMap' = FreshMap /\ lookups' = {} /\ looked' = looked
      BY <2>1 DEF OpenDialog
    <3>2. dialog' \in DialogTypes /\ dialog'.pin = Nowhere
      BY <3>1, ClosedIsTyped DEF DialogTypes
    <3>3. MapTypeOK'
      BY <1>1, <1>2, <3>1, FreshMapIsTyped DEF MapTypeOK, PinTypes, viewVars
    <3>4. QED
      BY <3>2, <3>3 DEF PinIsNamed
  <2>2. CASE CancelDialog
    BY <1>1, <2>2, ClosedIsTyped DEF CancelDialog, MapTypeOK, mapVars, pinVars, viewVars, PinIsNamed
  <2>3. CASE handleAddressChange
    <3>1. /\ dialog' = [dialog EXCEPT !.address = "typed", !.pin = Nowhere] /\ UNCHANGED <<pinMap, lookups, looked>>
      BY <2>3 DEF handleAddressChange, SetAddress
    <3>2. dialog' \in DialogTypes /\ dialog'.pin = Nowhere
      BY <1>1, <3>1 DEF DialogTypes
    <3>3. MapTypeOK'
      BY <1>1, <1>2, <3>1 DEF MapTypeOK, viewVars
    <3>4. QED
      BY <3>2, <3>3 DEF PinIsNamed
  <2>4. ASSUME NEW p \in Places, handleSearchSelect(p) PROVE MapTypeOK' /\ dialog' \in DialogTypes /\ PinIsNamed'
    <3>1. /\ dialog' = [dialog EXCEPT !.address = p, !.pin = p, !.searched = p]
          /\ pinMap' = externalPin(pinMap, dialog.searched, p) /\ UNCHANGED <<lookups, looked>>
      BY <2>4 DEF handleSearchSelect, SetAddress
    <3>2. dialog' \in DialogTypes /\ dialog'.pin = p /\ dialog'.address = p
      BY <1>1, <3>1 DEF DialogTypes
    <3>3. pinMap' \in PinTypes
      BY <1>1, <3>1, PinIsFollowed
    <3>4. MapTypeOK'
      BY <1>1, <1>2, <3>1, <3>3 DEF MapTypeOK, PinTypes, viewVars
    <3>5. QED
      BY <3>2, <3>4 DEF PinIsNamed
  <2>5. ASSUME NEW p \in Places, PinInDialog(p) PROVE MapTypeOK' /\ dialog' \in DialogTypes /\ PinIsNamed'
    BY <1>1, <1>2, <2>5, ClickIsTyped DEF PinInDialog, savedVars, PinIsNamed
  <2>6. ASSUME NEW l \in lookups, AddressInDialog(l) PROVE MapTypeOK' /\ dialog' \in DialogTypes /\ PinIsNamed'
    <3>1. /\ dialog' = [dialog EXCEPT !.address = l.place, !.pin = l.place]
          /\ lookups' \subseteq lookups /\ UNCHANGED <<pinMap, looked>>
      BY <2>6 DEF AddressInDialog, SetAddress, reverseGeocode
    <3>2. dialog' \in DialogTypes /\ dialog'.pin = l.place /\ dialog'.address = l.place
      BY <1>1, <3>1 DEF DialogTypes
    <3>3. MapTypeOK'
      BY <1>1, <1>2, <3>1 DEF MapTypeOK, viewVars
    <3>4. QED
      BY <3>2, <3>3 DEF PinIsNamed
  <2>7. QED
    BY <2>1, <2>2, <2>3, <2>4, <2>5, <2>6
<1>4. SavedTypes'
  BY <1>2, <1>3, IdleIsNotAsked DEF SavedInv, SavedTypes
<1>5. CountedFoundRoom' /\ ListIsFollowed' /\ PlacesAreFew' /\ PlacesAreNamed'
  BY <1>2 DEF SavedInv, CountedFoundRoom, ListIsFollowed, Untold, PlacesAreFew, PlacesAreNamed
<1>6. QED
  BY <1>3, <1>4, <1>5 DEF SavedInv

LEMMA SubmitKeepsSaved ==
  ASSUME SavedInv, SubmitPlace PROVE SavedInv'
<1>1. /\ UNCHANGED <<pinMap, lookups, looked, camera, mounts, flights, deletes, saved, shownPlaces, listing, crossed, missed>>
      /\ dialog.pin # Nowhere /\ added < MaxAdds /\ added' = added + 1
      /\ dialog' = [dialog EXCEPT !.saving = added + 1]
  BY DEF SubmitPlace, AddLocation, mapVars, pinVars, viewVars
<1>2. /\ added + 1 \in 0..MaxAdds /\ 1..added \subseteq 1..(added + 1) /\ added + 1 \in 1..(added + 1) /\ added + 1 \in Nat
  BY <1>1, SavedPlacesAssumption DEF SavedInv, SavedTypes
<1>3. PICK a : a = [n |-> added + 1, place |-> dialog.pin, address |-> dialog.address, at |-> "sent"]
  OBVIOUS
<1>4. adds' = adds \cup {a}
  BY <1>3 DEF SubmitPlace
<1>5. a \in Add /\ a.n = added + 1 /\ a.at = "sent" /\ a.place = a.address
  BY <1>1, <1>2, <1>3 DEF SavedInv, SavedTypes, PinIsNamed, DialogTypes, Add
<1>6. dialog' \in DialogTypes /\ dialog'.pin = dialog.pin /\ dialog'.address = dialog.address
  BY <1>1, <1>2 DEF SavedInv, SavedTypes, DialogTypes
<1>7. MapTypeOK' /\ PinIsNamed'
  BY <1>1, <1>6 DEF SavedInv, MapTypeOK, PinIsNamed
<1>8. SavedTypes'
  BY <1>1, <1>2, <1>4, <1>5, <1>6 DEF SavedInv, SavedTypes
<1>9. CountedFoundRoom' /\ PlacesAreFew' /\ PlacesAreNamed'
  BY <1>1, <1>4, <1>5 DEF SavedInv, CountedFoundRoom, PlacesAreFew, PlacesAreNamed
<1>10. ListIsFollowed'
  BY <1>1, <1>4 DEF SavedInv, ListIsFollowed, Untold
<1>11. QED
  BY <1>7, <1>8, <1>9, <1>10 DEF SavedInv

(* The server counts, then saves. *)
LEMMA CountKeepsSaved ==
  ASSUME SavedInv, NEW a \in adds, CountPlaces(a) PROVE SavedInv'
<1>1. /\ UNCHANGED <<pinMap, lookups, looked, camera, mounts, flights, dialog, deletes, saved, shownPlaces, listing, added,
                     crossed, missed>>
      /\ a.at = "sent"
  BY DEF CountPlaces, mapVars, pinVars, viewVars
<1>2. Cardinality(saved) \in Nat /\ MAX_LOCATIONS \in Nat
  <2>1. added \in 0..MaxAdds /\ saved \subseteq 1..added
    BY DEF SavedInv, SavedTypes
  <2>2. added \in Nat
    BY <2>1
  <2>3. QED
    BY <2>1, <2>2, SavedIsFinite, SavedPlacesAssumption
<1>3. PICK to \in {"refused", "counted"} :
        to = IF Cardinality(saved) >= MAX_LOCATIONS THEN "refused" ELSE "counted"
  OBVIOUS
<1>4. PICK b : b = [a EXCEPT !.at = to]
  OBVIOUS
<1>5. adds' = (adds \ {a}) \cup {b}
  BY <1>3, <1>4 DEF CountPlaces
<1>6. b \in Add /\ b.n = a.n /\ b.at = to /\ b.place = a.place /\ b.address = a.address
  BY <1>3, <1>4 DEF SavedInv, SavedTypes, Add
<1>7. MapTypeOK' /\ PinIsNamed' /\ PlacesAreFew'
  BY <1>1 DEF SavedInv, MapTypeOK, PinIsNamed, PlacesAreFew
<1>8. SavedTypes'
  BY <1>1, <1>5, <1>6 DEF SavedInv, SavedTypes
<1>9. PlacesAreNamed'
  BY <1>5, <1>6 DEF SavedInv, PlacesAreNamed
<1>10. CountedFoundRoom'
  <2>1. to = "counted" => Cardinality(saved) < MAX_LOCATIONS
    BY <1>2, <1>3
  <2>2. QED
    BY <1>1, <1>5, <1>6, <2>1 DEF SavedInv, CountedFoundRoom
<1>11. ListIsFollowed'
  <2>1. Untold => Untold'
    BY <1>1, <1>5 DEF Untold
  <2>2. QED
    BY <1>1, <2>1 DEF SavedInv, ListIsFollowed
<1>12. QED
  BY <1>7, <1>8, <1>9, <1>10, <1>11 DEF SavedInv

LEMMA CreateKeepsSaved ==
  ASSUME SavedInv, NEW a \in adds, create_saved_location(a) PROVE SavedInv'
<1>1. /\ UNCHANGED <<pinMap, lookups, looked, camera, mounts, flights, dialog, deletes, shownPlaces, listing, added, missed>>
      /\ a.at = "counted" /\ saved' = saved \cup {a.n}
      /\ crossed' = crossed \cup {b.n : b \in {c \in adds \ {a} : c.at = "counted"}}
  BY DEF create_saved_location, mapVars, pinVars, viewVars
<1>2. PICK b : b = [a EXCEPT !.at = "saved"]
  OBVIOUS
<1>3. adds' = (adds \ {a}) \cup {b}
  BY <1>2 DEF create_saved_location
<1>4. b \in Add /\ b.n = a.n /\ b.at = "saved" /\ b.place = a.place /\ b.address = a.address
  BY <1>2 DEF SavedInv, SavedTypes, Add
<1>5. a.n \in 1..added /\ crossed' \subseteq 1..added /\ crossed \subseteq crossed'
  BY <1>1 DEF SavedInv, SavedTypes
<1>6. MapTypeOK' /\ PinIsNamed' /\ PlacesAreNamed'
  BY <1>1, <1>3, <1>4 DEF SavedInv, MapTypeOK, PinIsNamed, PlacesAreNamed
<1>7. SavedTypes'
  BY <1>1, <1>3, <1>4, <1>5 DEF SavedInv, SavedTypes
<1>8. CountedFoundRoom'
  <2>1. ASSUME NEW c \in adds', c.at = "counted" PROVE c.n \in crossed'
    BY <1>1, <1>3, <1>4, <2>1
  <2>2. QED
    BY <2>1 DEF CountedFoundRoom
<1>9. ListIsFollowed'
  BY <1>3, <1>4 DEF ListIsFollowed, Untold
<1>10. PlacesAreFew'
  <2>0. /\ added \in Nat /\ MAX_LOCATIONS \in Nat /\ saved \subseteq 1..added
    BY SavedPlacesAssumption DEF SavedInv, SavedTypes
  <2>1. PICK F : F = {x \in saved' : x \notin crossed'}
    OBVIOUS
  <2>2. PICK G : G = {x \in saved : x \notin crossed}
    OBVIOUS
  <2>3. G \subseteq saved /\ F \subseteq G \cup {a.n} /\ (a.n \in F => a.n \notin crossed)
    BY <1>1, <1>5, <2>1, <2>2
  <2>4. IsFiniteSet(saved) /\ IsFiniteSet(G) /\ Cardinality(G) \in Nat /\ Cardinality(saved) \in Nat
    BY <2>0, <2>3, SavedIsFinite
  <2>5. Cardinality(G) <= MAX_LOCATIONS /\ Cardinality(G) <= Cardinality(saved)
    BY <2>2, <2>3, <2>4, FS_Subset DEF SavedInv, PlacesAreFew
  <2>6. CASE a.n \in F
    <3>1. Cardinality(saved) < MAX_LOCATIONS
      BY <1>1, <2>3, <2>6 DEF SavedInv, CountedFoundRoom
    <3>2. IsFiniteSet(G \cup {a.n}) /\ Cardinality(G \cup {a.n}) <= Cardinality(G) + 1 /\ Cardinality(G \cup {a.n}) \in Nat
      <4>1. IsFiniteSet(G \cup {a.n}) /\ Cardinality(G \cup {a.n}) = IF a.n \in G THEN Cardinality(G) ELSE Cardinality(G) + 1
        BY <2>4, FS_AddElement
      <4>2. QED
        BY <2>4, <4>1
    <3>3. Cardinality(F) <= Cardinality(G \cup {a.n}) /\ Cardinality(F) \in Nat
      BY <2>3, <3>2, FS_Subset, FS_CardinalityType
    <3>4. Cardinality(F) <= MAX_LOCATIONS
      BY <2>0, <2>4, <2>5, <3>1, <3>2, <3>3
    <3>5. QED
      BY <2>1, <3>4 DEF PlacesAreFew
  <2>7. CASE a.n \notin F
    <3>1. F \subseteq G
      BY <2>3, <2>7
    <3>2. Cardinality(F) <= Cardinality(G) /\ Cardinality(F) \in Nat
      BY <2>4, <3>1, FS_Subset, FS_CardinalityType
    <3>3. QED
      BY <2>0, <2>1, <2>4, <2>5, <3>2 DEF PlacesAreFew
  <2>8. QED
    BY <2>6, <2>7
<1>11. QED
  BY <1>6, <1>7, <1>8, <1>9, <1>10 DEF SavedInv

(* Answers, the list, and what is deleted. *)
LEMMA AnswersKeepSaved ==
  ASSUME SavedInv,
         \/ \E a \in adds : addLocation(a) \/ AddFails(a)
         \/ \E d \in deletes : removeLocation(d)
         \/ ServerLists \/ ListArrives
  PROVE  SavedInv'
<1>1. /\ UNCHANGED <<pinMap, lookups, looked, camera, mounts, flights, saved, added, crossed>>
      /\ adds' \subseteq adds /\ deletes' \subseteq deletes
  BY DEF addLocation, AddFails, removeLocation, ServerLists, ListArrives, mapVars, pinVars, viewVars
<1>2. /\ MapTypeOK' /\ PlacesAreNamed' /\ PlacesAreFew' /\ CountedFoundRoom'
      /\ adds' \subseteq Add /\ deletes' \subseteq Delete /\ added' \in 0..MaxAdds
      /\ \A a \in adds' : a.n \in 1..added'
      /\ \A d \in deletes' : d.of \in 1..added'
      /\ saved' \subseteq 1..added' /\ crossed' \subseteq 1..added'
  BY <1>1 DEF SavedInv, SavedTypes, MapTypeOK, PlacesAreNamed, PlacesAreFew, CountedFoundRoom
<1>3. dialog' \in DialogTypes /\ PinIsNamed'
  <2>1. CASE dialog' = Closed \/ dialog' = dialog
    BY <2>1, ClosedIsTyped DEF SavedInv, SavedTypes, PinIsNamed
  <2>2. CASE dialog' = [dialog EXCEPT !.saving = 0]
    <3>1. 0 \in 0..MaxAdds
      BY SavedPlacesAssumption
    <3>2. dialog' \in DialogTypes /\ dialog'.pin = dialog.pin /\ dialog'.address = dialog.address
      BY <2>2, <3>1 DEF SavedInv, SavedTypes, DialogTypes
    <3>3. QED
      BY <3>2 DEF SavedInv, PinIsNamed
  <2>3. QED
    BY <2>1, <2>2 DEF addLocation, AddFails, removeLocation, ServerLists, ListArrives
<1>4. SavedTypes' /\ ListIsFollowed'
  <2>1. ASSUME /\ listing' \in Listing /\ listing'.says \subseteq 1..added /\ shownPlaces' \subseteq 1..added /\ missed' \in BOOLEAN
               /\ listing'.at = "idle" => listing' = Idle
               /\ listing'.at = "asked" => listing' = Asked
        PROVE  SavedTypes'
    BY <1>1, <1>2, <1>3, <2>1 DEF SavedTypes
  <2>2. /\ listing \in Listing /\ listing.says \subseteq 1..added /\ shownPlaces \subseteq 1..added /\ missed \in BOOLEAN
        /\ listing.at = "idle" => listing = Idle
        /\ listing.at = "asked" => listing = Asked
        /\ saved \subseteq 1..added /\ added \in Nat
    BY DEF SavedInv, SavedTypes
  <2>3. CASE listing' = Asked /\ UNCHANGED <<shownPlaces, missed>>
    BY <2>1, <2>2, <2>3, IdleIsNotAsked DEF ListIsFollowed
  <2>4. CASE UNCHANGED <<listing, shownPlaces>> /\ missed' \in BOOLEAN /\ (Untold => Untold')
    BY <1>1, <2>1, <2>2, <2>4 DEF SavedInv, ListIsFollowed
  <2>5. ASSUME NEW a \in adds, AddFails(a) PROVE SavedTypes' /\ ListIsFollowed'
    <3>1. /\ adds' = adds \ {a} /\ missed' = (missed \/ a.at = "saved") /\ UNCHANGED <<listing, shownPlaces, deletes>>
      BY <2>5 DEF AddFails
    <3>2. Untold => Untold'
      BY <3>1 DEF Untold
    <3>3. QED
      BY <2>4, <3>1, <3>2
  <2>6. ASSUME NEW d \in deletes, removeLocation(d) PROVE SavedTypes' /\ ListIsFollowed'
    <3>1. /\ deletes' = deletes \ {d} /\ UNCHANGED <<shownPlaces, adds>>
          /\ \/ listing' = Asked /\ UNCHANGED missed
             \/ missed' = (missed \/ d.done) /\ UNCHANGED listing
      BY <2>6 DEF removeLocation
    <3>2. CASE missed' = (missed \/ d.done) /\ UNCHANGED listing
      <4>1. missed' \in BOOLEAN
        BY <3>2
      <4>2. Untold => Untold'
        BY <3>1, <3>2 DEF Untold
      <4>3. QED
        BY <2>4, <3>1, <3>2, <4>1, <4>2
    <3>3. QED
      BY <2>3, <3>1, <3>2
  <2>7. CASE ServerLists
    <3>1. listing' = [at |-> "read", says |-> saved] /\ missed' = FALSE /\ UNCHANGED shownPlaces
      BY <2>7 DEF ServerLists
    <3>2. listing'.at = "read" /\ listing'.says = saved
      BY <3>1
    <3>3. listing' \in Listing
      <4>1. saved \in SUBSET Nat
        BY <2>2
      <4>2. QED
        BY <3>1, <4>1 DEF Listing
    <3>4. listing' # Idle
      BY <3>2, IdleIsNotAsked
    <3>5. SavedTypes'
      BY <2>1, <2>2, <3>1, <3>2, <3>3
    <3>6. ListIsFollowed'
      BY <1>1, <3>2, <3>4 DEF ListIsFollowed
    <3>7. QED
      BY <3>5, <3>6
  <2>8. CASE ListArrives
    <3>1. CASE listing.at = "read" /\ shownPlaces' = listing.says /\ UNCHANGED missed
      <4>1. listing' = Idle /\ UNCHANGED <<adds, deletes>>
        BY <2>8 DEF ListArrives
      <4>2. Untold' = Untold
        BY <3>1, <4>1 DEF Untold
      <4>3. shownPlaces' = saved \/ Untold'
        BY <3>1, <4>2 DEF SavedInv, ListIsFollowed
      <4>4. SavedTypes'
        BY <2>1, <2>2, <3>1, <4>1, IdleIsNotAsked
      <4>5. ListIsFollowed'
        BY <1>1, <4>1, <4>3, IdleIsNotAsked DEF ListIsFollowed
      <4>6. QED
        BY <4>4, <4>5
    <3>2. CASE shownPlaces' = {} /\ missed' = TRUE
      <4>1. listing' = Idle
        BY <2>8 DEF ListArrives
      <4>2. SavedTypes'
        BY <2>1, <2>2, <3>2, <4>1, IdleIsNotAsked
      <4>3. Untold'
        BY <3>2 DEF Untold
      <4>4. QED
        BY <4>2, <4>3 DEF ListIsFollowed
    <3>3. QED
      BY <2>8, <3>1, <3>2 DEF ListArrives
  <2>9. ASSUME NEW a \in adds, addLocation(a) PROVE SavedTypes' /\ ListIsFollowed'
    BY <2>3, <2>9 DEF addLocation
  <2>10. QED
    BY <2>5, <2>6, <2>7, <2>8, <2>9
<1>5. QED
  BY <1>2, <1>3, <1>4 DEF SavedInv

LEMMA DeletesKeepSaved ==
  ASSUME SavedInv,
         \/ \E x \in shownPlaces : handleDelete(x)
         \/ \E d \in deletes : delete_saved_location(d)
  PROVE  SavedInv'
<1>1. /\ UNCHANGED <<pinMap, lookups, looked, camera, mounts, flights, dialog, adds, shownPlaces, listing, added, crossed, missed>>
      /\ saved' \subseteq saved
  BY DEF handleDelete, delete_saved_location, mapVars, pinVars, viewVars
<1>2. MapTypeOK' /\ PinIsNamed' /\ PlacesAreNamed'
  BY <1>1 DEF SavedInv, MapTypeOK, PinIsNamed, PlacesAreNamed
<1>3. /\ deletes' \subseteq Delete /\ \A d \in deletes' : d.of \in 1..added
      /\ saved' = saved \/ \E d \in deletes' : d.done
      /\ Untold => Untold'
  <2>1. deletes \subseteq Delete /\ (\A d \in deletes : d.of \in 1..added) /\ shownPlaces \subseteq 1..added /\ added \in Nat
    BY DEF SavedInv, SavedTypes
  <2>2. ASSUME NEW x \in shownPlaces, handleDelete(x)
        PROVE  /\ deletes' \subseteq Delete /\ \A d \in deletes' : d.of \in 1..added
               /\ saved' = saved /\ deletes \subseteq deletes'
    <3>1. PICK d : d = [of |-> x, done |-> FALSE]
      OBVIOUS
    <3>2. d \in Delete /\ d.of = x
      BY <2>1, <3>1 DEF Delete
    <3>3. deletes' = deletes \cup {d} /\ saved' = saved
      BY <2>2, <3>1 DEF handleDelete
    <3>4. QED
      BY <2>1, <3>2, <3>3
  <2>3. ASSUME NEW d \in deletes, delete_saved_location(d)
        PROVE  /\ deletes' \subseteq Delete /\ \A e \in deletes' : e.of \in 1..added
               /\ \E e \in deletes' : e.done
    <3>1. PICK e : e = [d EXCEPT !.done = TRUE]
      OBVIOUS
    <3>2. e \in Delete /\ e.of = d.of /\ e.done
      BY <2>1, <3>1 DEF Delete
    <3>3. deletes' = (deletes \ {d}) \cup {e}
      BY <2>3, <3>1 DEF delete_saved_location
    <3>4. QED
      BY <2>1, <3>2, <3>3
  <2>4. QED
    BY <1>1, <2>2, <2>3 DEF Untold
<1>4. SavedTypes'
  BY <1>1, <1>3 DEF SavedInv, SavedTypes
<1>5. CountedFoundRoom' /\ PlacesAreFew'
  <2>1. added \in Nat /\ saved \subseteq 1..added /\ MAX_LOCATIONS \in Nat
    BY SavedPlacesAssumption DEF SavedInv, SavedTypes
  <2>2. Cardinality(saved') <= Cardinality(saved) /\ Cardinality(saved) \in Nat /\ Cardinality(saved') \in Nat
    BY <1>1, <2>1, SavedIsFinite, FS_Subset, FS_CardinalityType
  <2>3. CountedFoundRoom'
    BY <1>1, <2>1, <2>2 DEF SavedInv, CountedFoundRoom
  <2>4. PICK F : F = {x \in saved' : x \notin crossed}
    OBVIOUS
  <2>5. PICK G : G = {x \in saved : x \notin crossed}
    OBVIOUS
  <2>6. F \subseteq G /\ G \subseteq 1..added
    BY <1>1, <2>1, <2>4, <2>5
  <2>7. Cardinality(F) <= Cardinality(G) /\ Cardinality(F) \in Nat /\ Cardinality(G) \in Nat
    BY <2>1, <2>6, SavedIsFinite, FS_Subset, FS_CardinalityType
  <2>8. PlacesAreFew'
    BY <1>1, <2>1, <2>4, <2>5, <2>7 DEF SavedInv, PlacesAreFew
  <2>9. QED
    BY <2>3, <2>8
<1>6. ListIsFollowed'
  BY <1>1, <1>3 DEF SavedInv, ListIsFollowed, Untold
<1>7. QED
  BY <1>2, <1>4, <1>5, <1>6 DEF SavedInv

LEMMA SavedStep == SavedInv /\ SavedPlacesNext => SavedInv'
  BY DialogKeepsSaved, SubmitKeepsSaved, CountKeepsSaved, CreateKeepsSaved, AnswersKeepSaved, DeletesKeepSaved
     DEF SavedPlacesNext

LEMMA SavedStays == SavedInv /\ UNCHANGED savedPlacesVars => SavedInv'
  BY DEF SavedInv, MapTypeOK, SavedTypes, PinIsNamed, CountedFoundRoom, ListIsFollowed, Untold, PlacesAreFew, PlacesAreNamed,
         savedPlacesVars, savedVars, mapVars, pinVars, viewVars

LEMMA PlacesHold == SavedInv => PlacesAreRight
  BY DEF SavedInv, ListIsFollowed, Untold, PlacesAreRight, ListFollows

-----------------------------------------------------------------------------
(* The status of a resource, in the same way. *)
StatusChange == [n : Nat, to : Statuses, done : BOOLEAN]
StatusUntold == untold \/ \E c \in changes : c.done
StatusInv ==
  /\ status \in Statuses /\ shownStatus \in Statuses \cup {"none"} /\ changed \in 0..MaxStatusChanges
  /\ untold \in BOOLEAN /\ changes \subseteq StatusChange
  /\ asking \in [at : {"idle", "asked", "read"}, says : SUBSET Statuses]
  /\ asking.at = "idle" => asking = Idle
  /\ asking.at = "asked" => asking = Asked
  /\ asking = Idle => shownStatus = status \/ StatusUntold
  /\ asking.at = "read" => asking.says = {status} \/ StatusUntold

LEMMA StatusStarts == SavedPlacesInit => StatusInv
<1>1. 0 \in 0..MaxStatusChanges /\ FirstStatus \in Statuses
  BY SavedPlacesAssumption
<1>2. QED
  BY <1>1, IdleIsNotAsked DEF SavedPlacesInit, StatusInv, Idle

LEMMA StatusStep == StatusInv /\ StatusNext => StatusInv'
<1>1. SUFFICES ASSUME StatusInv, StatusNext PROVE StatusInv'
  OBVIOUS
<1>2. CASE handleStatusChange
  <2>1. PICK s \in Statuses : changes' = changes \cup {[n |-> changed + 1, to |-> s, done |-> FALSE]}
    BY <1>2 DEF handleStatusChange, ResourceDropdown
  <2>2. changed' = changed + 1 /\ changed < MaxStatusChanges /\ UNCHANGED <<status, shownStatus, asking, untold>>
    BY <1>2 DEF handleStatusChange
  <2>3. changed' \in 0..MaxStatusChanges /\ changed + 1 \in Nat
    <3>1. changed \in 0..MaxStatusChanges
      BY <1>1 DEF StatusInv
    <3>2. QED
      BY <2>2, <3>1, SavedPlacesAssumption
  <2>4. changes' \subseteq StatusChange
    <3>1. [n |-> changed + 1, to |-> s, done |-> FALSE] \in StatusChange
      BY <2>3 DEF StatusChange
    <3>2. QED
      BY <1>1, <2>1, <3>1 DEF StatusInv
  <2>5. StatusUntold => StatusUntold'
    BY <2>1, <2>2 DEF StatusUntold
  <2>6. QED
    BY <1>1, <2>2, <2>3, <2>4, <2>5 DEF StatusInv
<1>3. ASSUME NEW c \in changes, update_resource_status(c) PROVE StatusInv'
  <2>1. PICK d : d = [c EXCEPT !.done = TRUE]
    OBVIOUS
  <2>2. /\ status' = c.to /\ changes' = (changes \ {c}) \cup {d} /\ UNCHANGED <<shownStatus, changed, asking, untold>>
    BY <1>3, <2>1 DEF update_resource_status
  <2>3. c \in StatusChange
    BY <1>1 DEF StatusInv
  <2>4. d \in StatusChange /\ d.done /\ c.to \in Statuses
    BY <2>1, <2>3 DEF StatusChange
  <2>5. changes' \subseteq StatusChange /\ StatusUntold'
    BY <1>1, <2>2, <2>4 DEF StatusInv, StatusUntold
  <2>6. QED
    BY <1>1, <2>2, <2>4, <2>5 DEF StatusInv
<1>4. ASSUME NEW c \in changes, updateStatus(c) PROVE StatusInv'
  <2>1. changes' \subseteq changes /\ asking' = Asked /\ UNCHANGED <<status, shownStatus, changed, untold>>
    BY <1>4 DEF updateStatus
  <2>2. asking' \in [at : {"idle", "asked", "read"}, says : SUBSET Statuses] /\ asking' # Idle /\ asking'.at = "asked"
    BY <2>1, IdleIsNotAsked DEF Asked
  <2>3. QED
    BY <1>1, <2>1, <2>2 DEF StatusInv
<1>5. ASSUME NEW c \in changes, StatusNotUpdated(c) PROVE StatusInv'
  <2>1. /\ changes' = changes \ {c} /\ untold' = (untold \/ c.done) /\ UNCHANGED <<status, shownStatus, changed, asking>>
    BY <1>5 DEF StatusNotUpdated
  <2>2. untold' \in BOOLEAN
    BY <2>1
  <2>3. StatusUntold => StatusUntold'
    BY <2>1 DEF StatusUntold
  <2>4. QED
    BY <1>1, <2>1, <2>2, <2>3 DEF StatusInv
<1>6. CASE ServerTellsStatus
  <2>1. /\ asking' = [at |-> "read", says |-> {status}] /\ untold' = FALSE
        /\ UNCHANGED <<status, shownStatus, changes, changed>>
    BY <1>6 DEF ServerTellsStatus
  <2>2. {status} \in SUBSET Statuses
    BY <1>1 DEF StatusInv
  <2>3. /\ asking' \in [at : {"idle", "asked", "read"}, says : SUBSET Statuses] /\ asking'.at = "read"
        /\ asking'.says = {status}
    BY <2>1, <2>2
  <2>4. asking' # Idle
    BY <2>3, IdleIsNotAsked
  <2>5. QED
    BY <1>1, <2>1, <2>3, <2>4 DEF StatusInv
<1>7. CASE ResourcesArrive
  <2>1. asking' = Idle /\ UNCHANGED <<status, changes, changed>>
    BY <1>7 DEF ResourcesArrive
  <2>2. asking' \in [at : {"idle", "asked", "read"}, says : SUBSET Statuses] /\ asking'.at = "idle"
    BY <2>1 DEF Idle
  <2>3. CASE asking.at = "read" /\ shownStatus' \in asking.says /\ UNCHANGED untold
    <3>1. shownStatus' \in Statuses
      <4>1. asking.says \subseteq Statuses
        BY <1>1 DEF StatusInv
      <4>2. QED
        BY <2>3, <4>1
    <3>2. StatusUntold' = StatusUntold
      BY <2>1, <2>3 DEF StatusUntold
    <3>3. shownStatus' = status' \/ StatusUntold'
      BY <1>1, <2>1, <2>3, <3>2 DEF StatusInv
    <3>4. QED
      BY <1>1, <2>1, <2>2, <2>3, <3>1, <3>3 DEF StatusInv
  <2>4. CASE shownStatus' = "none" /\ untold' = TRUE
    <3>1. StatusUntold'
      BY <2>4 DEF StatusUntold
    <3>2. QED
      BY <1>1, <2>1, <2>2, <2>4, <3>1 DEF StatusInv
  <2>5. QED
    BY <1>7, <2>3, <2>4 DEF ResourcesArrive
<1>8. QED
  BY <1>1, <1>2, <1>3, <1>4, <1>5, <1>6, <1>7 DEF StatusNext

LEMMA StatusStays == StatusInv /\ UNCHANGED statusVars => StatusInv'
  BY DEF StatusInv, StatusUntold, statusVars

LEMMA StatusHolds == StatusInv => StatusFollows
  BY DEF StatusInv, StatusUntold, StatusFollows

LEMMA SavedTyped == SavedInv /\ StatusInv => SavedPlacesTypeOK
  BY DEF SavedInv, SavedTypes, StatusInv, SavedPlacesTypeOK, DialogTypes, Add

-----------------------------------------------------------------------------
(* The notices of a tab.  Numbers in a finite set have ranks, and the      *)
(* j-th is the one of which j - 1 are less.                                *)
Below(S, i) == {k \in S : k < i}

LEMMA RanksGrow ==
  ASSUME NEW S \in SUBSET Nat, IsFiniteSet(S), NEW i \in S
  PROVE  /\ Cardinality(Below(S, i)) \in 0..(Cardinality(S) - 1)
         /\ \A j \in S : i < j => Cardinality(Below(S, i)) < Cardinality(Below(S, j))
<1>1. ASSUME NEW T \in SUBSET S PROVE IsFiniteSet(T) /\ Cardinality(T) \in Nat
  BY <1>1, FS_Subset, FS_CardinalityType
<1>2. PICK B \in SUBSET S : B = Below(S, i)
  BY DEF Below
<1>3. i \notin B /\ B \cup {i} \in SUBSET S
  BY <1>2 DEF Below
<1>4. Cardinality(B \cup {i}) = Cardinality(B) + 1
  BY <1>1, <1>3, FS_AddElement
<1>5. ASSUME NEW T \in SUBSET S, B \cup {i} \subseteq T PROVE Cardinality(B) < Cardinality(T)
  <2>1. Cardinality(B \cup {i}) <= Cardinality(T)
    BY <1>1, <1>5, FS_Subset
  <2>2. QED
    BY <1>1, <1>4, <2>1
<1>6. Cardinality(B) \in 0..(Cardinality(S) - 1)
  <2>1. Cardinality(B) < Cardinality(S)
    BY <1>3, <1>5
  <2>2. Cardinality(B) \in Nat /\ Cardinality(S) \in Nat
    BY <1>1
  <2>3. QED
    BY <2>1, <2>2
<1>7. ASSUME NEW j \in S, i < j PROVE Cardinality(B) < Cardinality(Below(S, j))
  <2>1. PICK C \in SUBSET S : C = Below(S, j)
    BY DEF Below
  <2>2. \A k \in S : k < i => k < j
    BY <1>7
  <2>3. B \cup {i} \subseteq C
    BY <1>2, <1>7, <2>1, <2>2 DEF Below
  <2>4. QED
    BY <1>5, <2>1, <2>3
<1>8. QED
  BY <1>2, <1>6, <1>7

LEMMA Ranks ==
  ASSUME NEW S \in SUBSET Nat, IsFiniteSet(S)
  PROVE  /\ \A j \in 1..Cardinality(S) : Nth(S, j) \in S /\ Cardinality(Below(S, Nth(S, j))) = j - 1
         /\ \A i \in S : /\ Cardinality(Below(S, i)) + 1 \in 1..Cardinality(S)
                         /\ Nth(S, Cardinality(Below(S, i)) + 1) = i
<1>0. Cardinality(S) \in Nat
  BY FS_CardinalityType
<1>1. PICK rank : rank = [i \in S |-> Cardinality(Below(S, i))]
  OBVIOUS
<1>2. \A i \in S : rank[i] = Cardinality(Below(S, i)) /\ rank[i] \in 0..(Cardinality(S) - 1)
  BY <1>1, RanksGrow
<1>3. \A i, j \in S : rank[i] = rank[j] => i = j
  <2>1. SUFFICES ASSUME NEW i \in S, NEW j \in S, rank[i] = rank[j], i < j PROVE FALSE
    OBVIOUS
  <2>2. rank[i] < rank[j]
    BY <1>2, <2>1, RanksGrow
  <2>3. QED
    BY <1>2, <2>1, <2>2
<1>4. rank \in Injection(S, 0..(Cardinality(S) - 1))
  BY <1>1, <1>2, <1>3 DEF Injection, IsInjective
<1>5. IsFiniteSet(0..(Cardinality(S) - 1)) /\ Cardinality(0..(Cardinality(S) - 1)) = Cardinality(S)
  <2>1. PICK n \in Nat : n = Cardinality(S)
    BY <1>0
  <2>2. 0 \in Int /\ n - 1 \in Int /\ (IF 0 > n - 1 THEN 0 ELSE n - 1 - 0 + 1) = n
    OBVIOUS
  <2>3. IsFiniteSet(0..(n - 1)) /\ Cardinality(0..(n - 1)) = IF 0 > n - 1 THEN 0 ELSE n - 1 - 0 + 1
    BY <2>2, FS_Interval
  <2>4. QED
    BY <2>1, <2>2, <2>3
<1>6. rank \in Surjection(S, 0..(Cardinality(S) - 1))
  BY <1>4, <1>5, FS_Injection
<1>7. ASSUME NEW j \in 1..Cardinality(S) PROVE Nth(S, j) \in S /\ Cardinality(Below(S, Nth(S, j))) = j - 1
  <2>1. j - 1 \in 0..(Cardinality(S) - 1)
    BY <1>0
  <2>2. PICK i \in S : rank[i] = j - 1
    BY <1>6, <2>1 DEF Surjection
  <2>3. \E k \in S : Cardinality(Below(S, k)) = j - 1
    BY <1>2, <2>2
  <2>4. QED
    BY <2>3 DEF Nth, Below
<1>8. ASSUME NEW i \in S
      PROVE  Cardinality(Below(S, i)) + 1 \in 1..Cardinality(S) /\ Nth(S, Cardinality(Below(S, i)) + 1) = i
  <2>1. PICK j : j = Cardinality(Below(S, i)) + 1
    OBVIOUS
  <2>2. j \in 1..Cardinality(S) /\ j - 1 = rank[i]
    BY <1>0, <1>2, <2>1
  <2>3. Nth(S, j) \in S /\ rank[Nth(S, j)] = rank[i]
    BY <1>2, <1>7, <2>2
  <2>4. Nth(S, j) = i
    BY <1>3, <2>3
  <2>5. QED
    BY <2>1, <2>2, <2>4
<1>9. QED
  BY <1>7, <1>8

LEMMA NthApart ==
  ASSUME NEW S \in SUBSET Nat, IsFiniteSet(S), NEW i \in 1..Cardinality(S), NEW j \in 1..Cardinality(S), Nth(S, i) = Nth(S, j)
  PROVE  i = j
<1>1. i - 1 = j - 1
  BY Ranks
<1>2. Cardinality(S) \in Nat
  BY FS_CardinalityType
<1>3. QED
  BY <1>1, <1>2

-----------------------------------------------------------------------------
NoticeType == [id : Nat, read : BOOLEAN]
Fetch == [n : Nat, toasts : BOOLEAN, asked : BOOLEAN, ok : BOOLEAN, answer : Seq(NoticeType),
          heard : SUBSET Nat, marks : SUBSET Nat]

(* No two notices of a list are one.  An answer has what its tab had heard *)
(* of, unless a day has passed or the page was too short, and no notice    *)
(* that was marked is unread in it.                                        *)
Apart(list) == \A i, j \in DOMAIN list : list[i].id = list[j].id => i = j
InAnswer(list, id) == id \in idsOf(list) \/ id \in aged \/ Cardinality(id..made) > PageSize
AnswerIs(f) ==
  /\ idsOf(f.answer) \subseteq 1..made /\ Apart(f.answer)
  /\ \A i \in DOMAIN f.answer : ~f.answer[i].read => f.answer[i].id \notin f.marks
  /\ f.ok => \A id \in f.heard : InAnswer(f.answer, id)
FetchIs(f) == f.n \in 1..fetched /\ f.heard \subseteq 1..made /\ f.marks \subseteq readMarks /\ AnswerIs(f)
FeedInv ==
  /\ FeedTypeOK /\ feed \in Seq(NoticeType) /\ Apart(feed) /\ idsOf(feed) \subseteq known
  /\ toasted \subseteq known \cup forgotten /\ ToastsAreNew
  /\ fetches \subseteq Fetch /\ \A f \in fetches : FetchIs(f)

(* The newest of the day, as many as a page has.  What is not in it is     *)
(* older than a page of notices.                                           *)
LEMMA PageIs ==
  ASSUME FeedTypeOK
  PROVE  /\ list_notifications \in Seq(NoticeType) /\ Apart(list_notifications)
         /\ idsOf(list_notifications) \subseteq 1..made
         /\ \A i \in DOMAIN list_notifications :
              ~list_notifications[i].read => list_notifications[i].id \notin readMarks
         /\ \A id \in 1..made : InAnswer(list_notifications, id)
<1>1. made \in Nat /\ PageSize \in Nat
  BY FeedAssumption DEF FeedTypeOK
<1>2. PICK day : day = (1..made) \ aged
  OBVIOUS
<1>3. day \in SUBSET Nat /\ day \subseteq 1..made /\ IsFiniteSet(day) /\ Cardinality(day) \in Nat
  <2>1. day \subseteq 1..made /\ IsFiniteSet(1..made)
    BY <1>1, <1>2, FS_Interval
  <2>2. IsFiniteSet(day)
    BY <2>1, FS_Subset
  <2>3. QED
    BY <2>1, <2>2, FS_CardinalityType
<1>4. PICK c \in Nat : c = Cardinality(day)
  BY <1>3
<1>5. PICK m \in Nat : m = PageOf(day) /\ m <= c /\ (m = c \/ m = PageSize)
  BY <1>1, <1>4 DEF PageOf
<1>6. PICK list : list = list_notifications
  OBVIOUS
<1>7. list = [i \in 1..m |-> Notice(Nth(day, c + 1 - i), Nth(day, c + 1 - i) \in readMarks)]
  BY <1>2, <1>4, <1>5, <1>6 DEF list_notifications
<1>8. ASSUME NEW i \in 1..m
      PROVE  c + 1 - i \in 1..c /\ Nth(day, c + 1 - i) \in day
  <2>1. c + 1 - i \in 1..c
    BY <1>5
  <2>2. QED
    BY <1>3, <1>4, <2>1, Ranks
<1>9. DOMAIN list = 1..m /\ \A i \in 1..m :
        /\ list[i] \in NoticeType /\ list[i].id = Nth(day, c + 1 - i) /\ list[i].id \in day
        /\ (list[i].read <=> list[i].id \in readMarks)
  <2>1. DOMAIN list = 1..m
    BY <1>7
  <2>2. ASSUME NEW i \in 1..m
        PROVE  /\ list[i] \in NoticeType /\ list[i].id = Nth(day, c + 1 - i) /\ list[i].id \in day
               /\ (list[i].read <=> list[i].id \in readMarks)
    <3>1. PICK id \in day : id = Nth(day, c + 1 - i)
      BY <1>8
    <3>2. PICK b \in BOOLEAN : b <=> id \in readMarks
      OBVIOUS
    <3>3. list[i] = [id |-> id, read |-> b] /\ id \in Nat
      BY <1>3, <1>7, <3>1, <3>2 DEF Notice
    <3>4. QED
      BY <3>1, <3>2, <3>3 DEF NoticeType
  <2>3. QED
    BY <2>1, <2>2
<1>10. list \in Seq(NoticeType)
  <2>1. list \in [1..m -> NoticeType]
    BY <1>7, <1>9
  <2>2. QED
    BY <2>1, SeqDef
<1>11. Apart(list)
  <2>1. SUFFICES ASSUME NEW i \in 1..m, NEW j \in 1..m, list[i].id = list[j].id PROVE i = j
    BY <1>9 DEF Apart
  <2>2. Nth(day, c + 1 - i) = Nth(day, c + 1 - j)
    BY <1>9, <2>1
  <2>3. c + 1 - i = c + 1 - j
    BY <1>3, <1>4, <1>8, <2>2, NthApart
  <2>4. QED
    BY <2>3
<1>12. idsOf(list) \subseteq 1..made /\ \A i \in DOMAIN list : ~list[i].read => list[i].id \notin readMarks
  BY <1>3, <1>9 DEF idsOf
<1>13. ASSUME NEW id \in 1..made, id \notin aged, ~(Cardinality(id..made) > PageSize) PROVE id \in idsOf(list)
  <2>1. id \in day /\ id \in Nat
    BY <1>2, <1>13
  <2>2. PICK r \in Nat : r = Cardinality(Below(day, id)) /\ r + 1 \in 1..c /\ Nth(day, r + 1) = id
    <3>1. PICK r : r = Cardinality(Below(day, id))
      OBVIOUS
    <3>2. r + 1 \in 1..c /\ Nth(day, r + 1) = id /\ r \in 0..(c - 1)
      BY <1>3, <1>4, <2>1, <3>1, Ranks, RanksGrow
    <3>3. QED
      BY <3>1, <3>2
  <2>3. c - r <= PageSize
    <3>1. PICK later : later = day \ Below(day, id)
      OBVIOUS
    <3>2. day \cap Below(day, id) = Below(day, id)
      BY DEF Below
    <3>3. Cardinality(later) = c - r
      <4>1. Cardinality(later) = Cardinality(day) - Cardinality(day \cap Below(day, id))
        BY <1>3, <3>1, FS_Difference
      <4>2. QED
        BY <1>4, <2>2, <3>2, <4>1
    <3>4. later \subseteq id..made
      <4>1. SUFFICES ASSUME NEW k \in later PROVE k \in id..made
        OBVIOUS
      <4>2. k \in 1..made /\ ~(k < id)
        BY <1>3, <3>1 DEF Below
      <4>3. QED
        BY <1>1, <2>1, <4>2
    <3>5. IsFiniteSet(id..made) /\ Cardinality(id..made) \in Nat
      <4>1. id \in Int /\ made \in Int
        BY <1>1, <2>1
      <4>2. QED
        BY <4>1, FS_Interval, FS_CardinalityType
    <3>6. Cardinality(later) <= Cardinality(id..made)
      BY <3>4, <3>5, FS_Subset
    <3>7. QED
      BY <1>1, <1>13, <2>2, <3>3, <3>5, <3>6
  <2>4. PICK i : i = c - r
    OBVIOUS
  <2>5. i \in 1..m /\ c + 1 - i = r + 1
    BY <1>1, <1>5, <2>2, <2>3, <2>4
  <2>6. list[i].id = id
    BY <1>9, <2>2, <2>5
  <2>7. QED
    BY <1>9, <2>5, <2>6 DEF idsOf
<1>14. QED
  BY <1>6, <1>10, <1>11, <1>12, <1>13 DEF InAnswer

LEMMA FeedStarts == FeedInit => FeedInv
<1>1. SUFFICES ASSUME FeedInit PROVE FeedInv
  OBVIOUS
<1>2. 0 \in 0..MaxNotices /\ 1 \in 0..MaxFetches /\ 1 \in 1..1
  BY FeedAssumption
<1>3. /\ made = 0 /\ aged = {} /\ readMarks = {} /\ session \in BOOLEAN /\ socket = "opening" /\ wire = {}
      /\ feed = <<>> /\ known = {} /\ loadDone = FALSE /\ toast = 0
      /\ fetched = 1 /\ reads = {} /\ toasted = {} /\ twice = {} /\ forgotten = {}
  BY <1>1 DEF FeedInit
<1>4. PICK b \in BOOLEAN :
        fetches = {[n |-> 1, toasts |-> b, asked |-> TRUE, ok |-> FALSE, answer |-> <<>>, heard |-> {}, marks |-> {}]}
  BY <1>1 DEF FeedInit
<1>5. PICK f : f = [n |-> 1, toasts |-> b, asked |-> TRUE, ok |-> FALSE, answer |-> <<>>, heard |-> {}, marks |-> {}]
  OBVIOUS
<1>6. <<>> \in Seq(NoticeType) /\ DOMAIN <<>> = {}
  OBVIOUS
<1>7. /\ f \in Fetch /\ f.n = 1 /\ f.heard = {} /\ f.marks = {} /\ f.answer = <<>> /\ f.ok = FALSE
  BY <1>5, <1>6 DEF Fetch
<1>8. FetchIs(f)
  BY <1>2, <1>3, <1>6, <1>7 DEF FetchIs, AnswerIs, idsOf, Apart
<1>9. FeedTypeOK
  <2>1. \A g \in fetches : g.n \in 1..fetched /\ g.heard \subseteq 1..made
    BY <1>2, <1>3, <1>4, <1>5, <1>7
  <2>2. \A i \in DOMAIN feed : feed[i] \in [id : 1..made, read : BOOLEAN]
    BY <1>3, <1>6
  <2>3. made \in 0..MaxNotices /\ toast \in 0..made /\ fetched \in 0..MaxFetches
    BY <1>2, <1>3
  <2>4. /\ aged \subseteq 1..made /\ readMarks \subseteq 1..made /\ wire \subseteq 1..made /\ known \subseteq 1..made
        /\ twice \subseteq toasted /\ forgotten \subseteq 1..made /\ toasted \subseteq 1..made /\ reads \subseteq 1..made
    BY <1>3
  <2>5. session \in BOOLEAN /\ socket \in {"opening", "open", "closed"} /\ loadDone \in BOOLEAN
    BY <1>3
  <2>6. QED
    BY <2>1, <2>2, <2>3, <2>4, <2>5 DEF FeedTypeOK
<1>10. QED
  BY <1>3, <1>4, <1>5, <1>6, <1>7, <1>8, <1>9 DEF FeedInv, Apart, idsOf, ToastsAreNew

(* What the server has only grows, and an answer stays what it is.         *)
LEMMA FetchesStay ==
  ASSUME FeedInv, made' \in {made, made + 1}, aged \subseteq aged', readMarks \subseteq readMarks',
         fetched' \in {fetched, fetched + 1}, NEW f \in fetches
  PROVE  FetchIs(f)'
<1>1. FetchIs(f) /\ f \in Fetch /\ made \in Nat /\ fetched \in Nat /\ PageSize \in Nat
  BY FeedAssumption DEF FeedInv, FeedTypeOK
<1>2. 1..made \subseteq 1..made' /\ 1..fetched \subseteq 1..fetched'
  BY <1>1
<1>3. ASSUME NEW id \in f.heard, InAnswer(f.answer, id) PROVE InAnswer(f.answer, id)'
  <2>1. id \in 1..made
    BY <1>1 DEF FetchIs
  <2>2. CASE Cardinality(id..made) > PageSize
    <3>0. id \in Int /\ made \in Int /\ made' \in Int /\ id <= made /\ id <= made' /\ made <= made'
      BY <1>1, <2>1
    <3>1. /\ Cardinality(id..made) = IF id > made THEN 0 ELSE made - id + 1
          /\ Cardinality(id..made') = IF id > made' THEN 0 ELSE made' - id + 1
      BY <3>0, FS_Interval
    <3>2. Cardinality(id..made') > PageSize
      BY <1>1, <2>2, <3>0, <3>1
    <3>3. QED
      BY <3>2 DEF InAnswer
  <2>3. QED
    BY <1>3, <2>2 DEF InAnswer
<1>4. QED
  BY <1>1, <1>2, <1>3 DEF FetchIs, AnswerIs, Apart

LEMMA FeedFacts ==
  ASSUME FeedInv
  PROVE  /\ made \in 0..MaxNotices /\ MaxNotices \in Nat /\ made \in Nat /\ aged \subseteq 1..made /\ readMarks \subseteq 1..made
         /\ wire \subseteq 1..made /\ known \subseteq 1..made /\ forgotten \subseteq 1..made /\ toasted \subseteq 1..made
         /\ toast \in 0..made /\ reads \subseteq 1..made /\ fetched \in 0..MaxFetches /\ fetched \in Nat /\ MaxFetches \in Nat
         /\ feed \in Seq(NoticeType) /\ Len(feed) \in Nat /\ DOMAIN feed = 1..Len(feed) /\ feed \in [1..Len(feed) -> NoticeType]
         /\ \A i \in DOMAIN feed : feed[i] \in NoticeType /\ feed[i].id \in 1..made /\ feed[i].id \in known
<1>1. /\ made \in 0..MaxNotices /\ MaxNotices \in Nat /\ aged \subseteq 1..made /\ readMarks \subseteq 1..made
      /\ wire \subseteq 1..made /\ known \subseteq 1..made /\ forgotten \subseteq 1..made /\ toasted \subseteq 1..made
      /\ toast \in 0..made /\ reads \subseteq 1..made /\ fetched \in 0..MaxFetches /\ MaxFetches \in Nat
      /\ feed \in Seq(NoticeType)
  BY FeedAssumption DEF FeedInv, FeedTypeOK
<1>2. made \in Nat /\ fetched \in Nat
  BY <1>1
<1>3. Len(feed) \in Nat /\ DOMAIN feed = 1..Len(feed) /\ feed \in [1..Len(feed) -> NoticeType]
  BY <1>1, LenProperties
<1>4. \A i \in DOMAIN feed : feed[i].id \in known
  BY DEF FeedInv, idsOf
<1>5. QED
  BY <1>1, <1>2, <1>3, <1>4

(* What leaves the list and what is known alone. *)
LEMMA QuietKeepsFeed ==
  ASSUME FeedInv, UNCHANGED <<feed, known, pastToasts>>, FeedTypeOK', fetches' \subseteq Fetch, \A f \in fetches' : FetchIs(f)'
  PROVE  FeedInv'
  BY DEF FeedInv, pastToasts, Apart, idsOf, ToastsAreNew

LEMMA ServerKeepsFeed ==
  ASSUME FeedInv,
         \/ MakeNotice \/ NoticeAges \/ notification_ws \/ SocketBreaks \/ SignsInOnThePage \/ dismissToast
         \/ \E f \in fetches : FetchFails(f)
         \/ \E id \in reads : read_notification(id)
  PROVE  FeedInv'
<1>1. /\ UNCHANGED <<feed, known, pastToasts, fetched, loadDone>> /\ fetches' \subseteq fetches
      /\ made' \in {made, made + 1} /\ aged \subseteq aged' /\ readMarks \subseteq readMarks'
  BY DEF MakeNotice, NoticeAges, notification_ws, SocketBreaks, SignsInOnThePage, dismissToast, FetchFails, read_notification
<1>2. \A f \in fetches' : FetchIs(f)'
  BY <1>1, FetchesStay
<1>3. 1..made \subseteq 1..made' /\ 0..made \subseteq 0..made'
  BY <1>1, FeedFacts
<1>4. made' \in 0..MaxNotices
  BY <1>1, FeedFacts DEF MakeNotice, NoticeAges, notification_ws, SocketBreaks, SignsInOnThePage, dismissToast, FetchFails,
     read_notification
<1>5. /\ aged' \subseteq 1..made' /\ readMarks' \subseteq 1..made' /\ wire' \subseteq 1..made' /\ reads' \subseteq 1..made'
      /\ toast' \in 0..made' /\ session' \in BOOLEAN /\ socket' \in {"opening", "open", "closed"}
  <2>1. /\ aged \subseteq 1..made' /\ readMarks \subseteq 1..made' /\ wire \subseteq 1..made' /\ reads \subseteq 1..made'
        /\ toast \in 0..made' /\ session \in BOOLEAN /\ socket \in {"opening", "open", "closed"} /\ 0 \in 0..made'
    BY <1>1, <1>3, FeedFacts DEF FeedInv, FeedTypeOK
  <2>2. CASE MakeNotice
    <3>1. made + 1 \in 1..made'
      BY <2>2, FeedFacts DEF MakeNotice
    <3>2. QED
      BY <2>1, <2>2, <3>1 DEF MakeNotice
  <2>3. CASE NoticeAges
    BY <2>1, <2>3 DEF NoticeAges
  <2>4. CASE notification_ws \/ SocketBreaks \/ SignsInOnThePage
    BY <2>1, <2>4 DEF notification_ws, SocketBreaks, SignsInOnThePage
  <2>5. CASE dismissToast \/ \E f \in fetches : FetchFails(f)
    BY <2>1, <2>5 DEF dismissToast, FetchFails
  <2>6. ASSUME NEW id \in reads, read_notification(id)
        PROVE  readMarks' \subseteq 1..made' /\ reads' \subseteq reads /\ UNCHANGED <<aged, wire, toast, session, socket>>
    <3>1. readMarks' = readMarks \/ readMarks' = readMarks \cup {id}
      BY <2>6 DEF read_notification
    <3>2. QED
      BY <2>1, <2>6, <3>1 DEF read_notification
  <2>7. QED
    BY <2>1, <2>2, <2>3, <2>4, <2>5, <2>6
<1>6. FeedTypeOK'
  <2>1. \A f \in fetches' : f.n \in 1..fetched' /\ f.heard \subseteq 1..made'
    BY <1>2 DEF FetchIs
  <2>2. \A i \in DOMAIN feed' : feed'[i] \in [id : 1..made', read : BOOLEAN]
    BY <1>1, <1>3 DEF FeedInv, FeedTypeOK
  <2>3. /\ known' \subseteq 1..made' /\ forgotten' \subseteq 1..made' /\ toasted' \subseteq 1..made' /\ twice' \subseteq toasted'
        /\ loadDone' \in BOOLEAN /\ fetched' \in 0..MaxFetches
    BY <1>1, <1>3 DEF FeedInv, FeedTypeOK, pastToasts
  <2>4. QED
    BY <1>4, <1>5, <2>1, <2>2, <2>3 DEF FeedTypeOK
<1>7. QED
  BY <1>1, <1>2, <1>6, QuietKeepsFeed DEF FeedInv

(* A fetch is asked, and answered by the server. *)
LEMMA AskingKeepsFeed ==
  ASSUME FeedInv, refetchSilent \/ \E f \in fetches : ServerAnswers(f)
  PROVE  FeedInv'
<1>1. UNCHANGED <<made, aged, readMarks, session, socket, wire, feed, known, loadDone, toast, reads, pastToasts>>
  BY DEF refetchSilent, ServerAnswers
<1>2. fetched' \in {fetched, fetched + 1} /\ fetched' \in 0..MaxFetches
  <2>1. fetched \in 0..MaxFetches /\ MaxFetches \in Nat
    BY FeedFacts
  <2>2. fetched' = fetched \/ (fetched' = fetched + 1 /\ fetched < MaxFetches)
    BY DEF refetchSilent, ServerAnswers
  <2>3. QED
    BY <2>1, <2>2
<1>3. \A f \in fetches : FetchIs(f)'
  BY <1>1, <1>2, FetchesStay
<1>4. PICK g \in Fetch : fetches' \subseteq fetches \cup {g} /\ FetchIs(g)'
  <2>1. CASE refetchSilent
    <3>1. PICK g : g = [n |-> fetched + 1, toasts |-> FALSE, asked |-> TRUE, ok |-> FALSE, answer |-> <<>>,
                        heard |-> known, marks |-> readMarks]
      OBVIOUS
    <3>2. fetches' = fetches \cup {g} /\ fetched' = fetched + 1
      BY <2>1, <3>1 DEF refetchSilent
    <3>3. <<>> \in Seq(NoticeType) /\ DOMAIN <<>> = {}
      OBVIOUS
    <3>4. known \in SUBSET Nat /\ readMarks \in SUBSET Nat /\ fetched + 1 \in Nat /\ fetched + 1 \in 1..fetched'
      BY <3>2, FeedFacts
    <3>5. /\ g \in Fetch /\ g.n = fetched + 1 /\ g.heard = known /\ g.marks = readMarks /\ g.answer = <<>> /\ g.ok = FALSE
      BY <3>1, <3>3, <3>4 DEF Fetch
    <3>6. known \subseteq 1..made
      BY FeedFacts
    <3>7. FetchIs(g)'
      BY <1>1, <3>3, <3>4, <3>5, <3>6 DEF FetchIs, AnswerIs, idsOf, Apart
    <3>8. QED
      BY <3>2, <3>5, <3>7
  <2>2. ASSUME NEW f \in fetches, ServerAnswers(f) PROVE \E g \in Fetch : fetches' \subseteq fetches \cup {g} /\ FetchIs(g)'
    <3>1. PICK list : list = IF session THEN list_notifications ELSE <<>>
      OBVIOUS
    <3>2. PICK b \in BOOLEAN : b = session
      BY DEF FeedInv, FeedTypeOK
    <3>3. PICK g : g = [f EXCEPT !.asked = FALSE, !.ok = b, !.answer = list]
      OBVIOUS
    <3>4. fetches' = (fetches \ {f}) \cup {g}
      BY <2>2, <3>1, <3>2, <3>3 DEF ServerAnswers
    <3>5. <<>> \in Seq(NoticeType) /\ DOMAIN <<>> = {}
      OBVIOUS
    <3>6. /\ list \in Seq(NoticeType) /\ Apart(list) /\ idsOf(list) \subseteq 1..made
          /\ \A i \in DOMAIN list : ~list[i].read => list[i].id \notin readMarks
          /\ b => \A id \in 1..made : InAnswer(list, id)
      <4>1. CASE session
        <5>1. list = list_notifications
          BY <3>1, <4>1
        <5>2. QED
          BY <5>1, PageIs DEF FeedInv
      <4>2. CASE ~session
        <5>1. list = <<>> /\ b = FALSE
          BY <3>1, <3>2, <4>2
        <5>2. QED
          BY <3>5, <5>1 DEF Apart, idsOf
      <4>3. QED
        BY <4>1, <4>2
    <3>7. f \in Fetch /\ FetchIs(f)
      BY DEF FeedInv
    <3>8. /\ g \in Fetch /\ g.n = f.n /\ g.heard = f.heard /\ g.marks = f.marks /\ g.answer = list /\ g.ok = b
      BY <3>3, <3>6, <3>7 DEF Fetch
    <3>9. AnswerIs(g)
      BY <3>6, <3>7, <3>8 DEF FetchIs, AnswerIs
    <3>10. FetchIs(g)'
      BY <1>1, <2>2, <3>7, <3>8, <3>9 DEF FetchIs, AnswerIs, InAnswer, ServerAnswers
    <3>11. QED
      BY <3>4, <3>8, <3>10
  <2>3. QED
    BY <2>1, <2>2
<1>5. fetches' \subseteq Fetch /\ \A f \in fetches' : FetchIs(f)'
  BY <1>3, <1>4 DEF FeedInv
<1>6. \A f \in fetches' : f.n \in 1..fetched' /\ f.heard \subseteq 1..made'
  BY <1>5 DEF FetchIs
<1>7. FeedTypeOK'
  BY <1>1, <1>2, <1>6 DEF FeedInv, FeedTypeOK, pastToasts
<1>8. QED
  BY <1>1, <1>5, <1>7, QuietKeepsFeed

(* What a new list must be. *)
LEMMA ListKeepsFeed ==
  ASSUME FeedInv, UNCHANGED <<made, aged, readMarks, session, socket, fetched>>,
         wire' \subseteq wire, fetches' \subseteq fetches, reads' \subseteq 1..made, loadDone' \in BOOLEAN,
         feed' \in Seq(NoticeType), Apart(feed)', idsOf(feed)' \subseteq known', known' \subseteq 1..made,
         forgotten' = forgotten \cup (known \ known'),
         \/ NoToast
         \/ \E id \in known' \ known : showToast(id)
  PROVE  FeedInv'
<1>1. \A f \in fetches' : FetchIs(f)'
  BY FetchesStay
<1>2. fetches' \subseteq Fetch
  BY DEF FeedInv
<1>3. /\ twice' \subseteq toasted' /\ toasted' \subseteq 1..made /\ toast' \in 0..made
      /\ toasted' \subseteq known' \cup forgotten' /\ twice' \subseteq forgotten'
  <2>1. /\ twice \subseteq toasted /\ toasted \subseteq 1..made /\ toast \in 0..made /\ forgotten \subseteq forgotten'
        /\ toasted \subseteq known \cup forgotten /\ twice \subseteq forgotten
    BY DEF FeedInv, FeedTypeOK, ToastsAreNew
  <2>2. CASE NoToast
    BY <2>1, <2>2 DEF NoToast
  <2>3. ASSUME NEW id \in known' \ known, showToast(id)
        PROVE  /\ twice' \subseteq toasted' /\ toasted' \subseteq 1..made /\ toast' \in 0..made
               /\ toasted' \subseteq known' \cup forgotten' /\ twice' \subseteq forgotten'
    <3>1. id \in 1..made /\ id \in 0..made
      <4>1. id \in 1..made
        BY <2>3
      <4>2. QED
        BY <4>1, FeedFacts
    <3>2. /\ toast' = id /\ toasted' = toasted \cup {id} /\ (id \in toasted => id \in forgotten)
          /\ twice' = IF id \in toasted THEN twice \cup {id} ELSE twice
      BY <2>1, <2>3 DEF showToast
    <3>3. twice' \subseteq forgotten /\ twice' \subseteq toasted'
      BY <2>1, <3>2
    <3>4. QED
      BY <2>1, <3>1, <3>2, <3>3
  <2>4. QED
    BY <2>2, <2>3
<1>4. \A i \in DOMAIN feed' : feed'[i] \in [id : 1..made, read : BOOLEAN]
  <2>1. ASSUME NEW i \in DOMAIN feed' PROVE feed'[i] \in NoticeType /\ feed'[i].id \in 1..made
    <3>1. feed' \in [1..Len(feed') -> NoticeType] /\ DOMAIN feed' = 1..Len(feed')
      BY LenProperties
    <3>2. feed'[i].id \in idsOf(feed)'
      BY DEF idsOf
    <3>3. QED
      BY <2>1, <3>1, <3>2
  <2>2. QED
    BY <2>1 DEF NoticeType
<1>5. \A f \in fetches' : f.n \in 1..fetched' /\ f.heard \subseteq 1..made'
  BY <1>1 DEF FetchIs
<1>6. FeedTypeOK'
  <2>1. /\ forgotten' \subseteq 1..made /\ wire' \subseteq 1..made
    BY FeedFacts
  <2>2. QED
    BY <1>3, <1>4, <1>5, <2>1 DEF FeedInv, FeedTypeOK
<1>7. QED
  BY <1>1, <1>2, <1>3, <1>6 DEF FeedInv, ToastsAreNew

(* The answer replaces the list. *)
LEMMA AnswerKeepsFeed ==
  ASSUME FeedInv, NEW f \in fetches, fetchNotifications(f)
  PROVE  FeedInv'
<1>1. /\ UNCHANGED <<made, aged, readMarks, session, socket, wire, fetched, reads>> /\ fetches' \subseteq fetches
  BY DEF fetchNotifications
<1>2. CASE ~f.ok
  <2>1. NoToast /\ UNCHANGED <<feed, known, loadDone, forgotten>>
    BY <1>2 DEF fetchNotifications
  <2>2. known \ known' = {} /\ Apart(feed)' /\ idsOf(feed)' \subseteq known'
    BY <2>1 DEF FeedInv, Apart, idsOf
  <2>3. loadDone \in BOOLEAN /\ feed \in Seq(NoticeType)
    BY DEF FeedInv, FeedTypeOK
  <2>4. QED
    BY <1>1, <2>1, <2>2, <2>3, FeedFacts, ListKeepsFeed
<1>3. CASE f.ok
  <2>1. /\ feed' = f.answer /\ known' = idsOf(f.answer) /\ forgotten' = forgotten \cup (known \ known') /\ loadDone' = TRUE
    BY <1>3 DEF fetchNotifications
  <2>2. f.answer \in Seq(NoticeType) /\ idsOf(f.answer) \subseteq 1..made /\ Apart(f.answer)
    BY DEF FeedInv, Fetch, FetchIs, AnswerIs
  <2>3. PICK new : new = {i \in DOMAIN f.answer : f.answer[i].id \notin known /\ ~f.answer[i].read}
    OBVIOUS
  <2>4. NoToast \/ (new # {} /\ showToast(f.answer[Nth(new, 1)].id))
    BY <1>3, <2>3 DEF fetchNotifications
  <2>5. CASE new # {} /\ showToast(f.answer[Nth(new, 1)].id)
    <3>1. Len(f.answer) \in Nat /\ DOMAIN f.answer = 1..Len(f.answer)
      BY <2>2, LenProperties
    <3>2. new \in SUBSET Nat /\ IsFiniteSet(new)
      <4>1. new \subseteq 1..Len(f.answer) /\ IsFiniteSet(1..Len(f.answer))
        BY <2>3, <3>1, FS_Interval
      <4>2. IsFiniteSet(new)
        BY <4>1, FS_Subset
      <4>3. 1..Len(f.answer) \subseteq Nat
        BY <3>1
      <4>4. new \in SUBSET Nat
        BY <4>1, <4>3
      <4>5. QED
        BY <4>2, <4>4
    <3>3. 1 \in 1..Cardinality(new)
      BY <2>5, <3>2, FS_CardinalityType, FS_EmptySet
    <3>4. Nth(new, 1) \in new
      BY <3>2, <3>3, Ranks
    <3>5. f.answer[Nth(new, 1)].id \in known' \ known
      BY <2>1, <2>3, <3>4 DEF idsOf
    <3>6. QED
      BY <1>1, <2>1, <2>2, <2>5, <3>5, FeedFacts, ListKeepsFeed DEF Apart, idsOf
  <2>6. CASE NoToast
    BY <1>1, <2>1, <2>2, <2>6, FeedFacts, ListKeepsFeed DEF Apart, idsOf
  <2>7. QED
    BY <2>4, <2>5, <2>6
<1>4. QED
  BY <1>2, <1>3

(* A push goes before the others. *)
LEMMA FirstOfList ==
  ASSUME NEW x \in NoticeType, NEW s \in Seq(NoticeType), NEW t, t = <<x>> \o s
  PROVE  /\ t \in Seq(NoticeType) /\ DOMAIN t = 1..(Len(s) + 1) /\ Len(s) \in Nat /\ DOMAIN s = 1..Len(s) /\ t[1] = x
         /\ \A i \in 1..Len(s) : i + 1 \in DOMAIN t /\ t[i + 1] = s[i]
         /\ \A i \in DOMAIN t : i = 1 \/ (i - 1 \in 1..Len(s) /\ t[i] = s[i - 1])
<1>1. Len(s) \in Nat /\ DOMAIN s = 1..Len(s)
  BY LenProperties
<1>2. <<x>> \in Seq(NoticeType) /\ Len(<<x>>) = 1 /\ <<x>>[1] = x
  OBVIOUS
<1>3. /\ t \in Seq(NoticeType) /\ Len(t) = 1 + Len(s)
      /\ \A i \in 1..(1 + Len(s)) : t[i] = IF i <= 1 THEN <<x>>[i] ELSE s[i - 1]
  BY <1>2, ConcatProperties
<1>4. DOMAIN t = 1..Len(t)
  BY <1>3, LenProperties
<1>5. 1..(1 + Len(s)) = 1..(Len(s) + 1) /\ 1 \in 1..(1 + Len(s))
  BY <1>1
<1>6. t[1] = x
  BY <1>2, <1>3, <1>5
<1>7. ASSUME NEW i \in 1..Len(s) PROVE i + 1 \in DOMAIN t /\ t[i + 1] = s[i]
  <2>1. i + 1 \in 1..(1 + Len(s)) /\ ~(i + 1 <= 1) /\ i + 1 - 1 = i
    BY <1>1
  <2>2. QED
    BY <1>3, <1>4, <2>1
<1>8. ASSUME NEW i \in DOMAIN t, i # 1 PROVE i - 1 \in 1..Len(s) /\ t[i] = s[i - 1]
  <2>1. i \in 1..(1 + Len(s)) /\ ~(i <= 1) /\ i - 1 \in 1..Len(s)
    BY <1>1, <1>3, <1>4, <1>8
  <2>2. QED
    BY <1>3, <2>1
<1>9. QED
  BY <1>1, <1>3, <1>4, <1>5, <1>6, <1>7, <1>8

LEMMA NoticeIs ==
  ASSUME NEW id \in Nat, NEW b \in BOOLEAN
  PROVE  Notice(id, b) \in NoticeType /\ Notice(id, b).id = id /\ Notice(id, b).read = b
  BY DEF Notice, NoticeType

LEMMA PushIs ==
  ASSUME FeedInv, NEW id \in wire, id \notin known, feed' = <<Notice(id, FALSE)>> \o feed
  PROVE  feed' \in Seq(NoticeType) /\ Apart(feed)' /\ idsOf(feed)' = idsOf(feed) \cup {id}
<1>0. id \in Nat
  BY FeedFacts
<1>1. PICK x \in NoticeType : x = Notice(id, FALSE) /\ x.id = id
  BY <1>0, NoticeIs
<1>2. PICK t : t = feed' /\ t = <<x>> \o feed
  BY <1>1
<1>3. /\ t \in Seq(NoticeType) /\ DOMAIN t = 1..(Len(feed) + 1) /\ Len(feed) \in Nat /\ DOMAIN feed = 1..Len(feed) /\ t[1] = x
      /\ \A i \in 1..Len(feed) : i + 1 \in DOMAIN t /\ t[i + 1] = feed[i]
      /\ \A i \in DOMAIN t : i = 1 \/ (i - 1 \in 1..Len(feed) /\ t[i] = feed[i - 1])
  <2>1. feed \in Seq(NoticeType)
    BY FeedFacts
  <2>2. t = <<x>> \o feed
    BY <1>2
  <2>3. QED
    BY <2>1, <2>2, FirstOfList
<1>4. \A i \in DOMAIN feed : feed[i].id # id
  BY FeedFacts
<1>5. Apart(t)
  <2>1. SUFFICES ASSUME NEW i \in DOMAIN t, NEW j \in DOMAIN t, t[i].id = t[j].id PROVE i = j
    BY DEF Apart
  <2>2. CASE i = 1 \/ j = 1
    <3>1. ASSUME NEW k \in DOMAIN t, k # 1 PROVE t[k].id # x.id
      <4>1. k - 1 \in DOMAIN feed /\ t[k] = feed[k - 1]
        BY <1>3, <3>1
      <4>2. QED
        BY <1>1, <1>4, <4>1
    <3>2. t[1] = x
      BY <1>3
    <3>3. QED
      BY <2>1, <2>2, <3>1, <3>2
  <2>3. CASE i # 1 /\ j # 1
    <3>1. i - 1 \in DOMAIN feed /\ j - 1 \in DOMAIN feed /\ feed[i - 1].id = feed[j - 1].id
      BY <1>3, <2>1, <2>3
    <3>2. i - 1 = j - 1
      BY <3>1 DEF FeedInv, Apart
    <3>3. i \in Nat /\ j \in Nat
      BY <1>3
    <3>4. QED
      BY <3>2, <3>3
  <2>4. QED
    BY <2>2, <2>3
<1>6. idsOf(t) = idsOf(feed) \cup {id}
  <2>1. ASSUME NEW i \in DOMAIN t PROVE t[i].id \in idsOf(feed) \cup {id}
    BY <1>1, <1>3 DEF idsOf
  <2>2. ASSUME NEW i \in DOMAIN feed PROVE feed[i].id \in idsOf(t)
    BY <1>3 DEF idsOf
  <2>3. id \in idsOf(t)
    <3>1. 1 \in DOMAIN t
      BY <1>3
    <3>2. QED
      BY <1>1, <1>3, <3>1 DEF idsOf
  <2>4. QED
    BY <2>1, <2>2, <2>3 DEF idsOf
<1>7. t = feed' /\ t \in Seq(NoticeType)
  BY <1>2, <1>3
<1>8. Apart(feed)'
  BY <1>5, <1>7, Zenon DEF Apart
<1>9. idsOf(feed)' = idsOf(feed) \cup {id}
  BY <1>6, <1>7, Zenon DEF idsOf
<1>10. QED
  BY <1>7, <1>8, <1>9

LEMMA PushKeepsFeed ==
  ASSUME FeedInv, NEW id \in wire, onmessage(id)
  PROVE  FeedInv'
<1>1. /\ UNCHANGED <<made, aged, readMarks, session, socket, fetched, fetches, reads, loadDone, forgotten>> /\ wire' \subseteq wire
  BY DEF onmessage
<1>2. loadDone \in BOOLEAN /\ feed \in Seq(NoticeType) /\ reads \subseteq 1..made /\ id \in 1..made /\ known \subseteq 1..made
  BY FeedFacts DEF FeedInv, FeedTypeOK
<1>3. CASE id \in known
  <2>1. NoToast /\ UNCHANGED <<feed, known>>
    BY <1>3 DEF onmessage
  <2>2. known \ known' = {} /\ Apart(feed)' /\ idsOf(feed)' \subseteq known'
    BY <2>1 DEF FeedInv, Apart, idsOf
  <2>3. QED
    BY <1>1, <1>2, <2>1, <2>2, ListKeepsFeed
<1>4. CASE id \notin known
  <2>1. known' = known \cup {id} /\ feed' = <<Notice(id, FALSE)>> \o feed /\ (NoToast \/ showToast(id))
    BY <1>4 DEF onmessage
  <2>2. feed' \in Seq(NoticeType) /\ Apart(feed)' /\ idsOf(feed)' \subseteq known' /\ known \ known' = {}
    BY <1>4, <2>1, PushIs DEF FeedInv
  <2>3. id \in known' \ known /\ known' \subseteq 1..made
    BY <1>2, <1>4, <2>1
  <2>4. QED
    BY <1>1, <1>2, <2>1, <2>2, <2>3, ListKeepsFeed
<1>5. QED
  BY <1>3, <1>4

(* A day passes: what is left of the list is in its order. *)
LEMMA YoungAre ==
  ASSUME FeedInv, DropsOld
  PROVE  /\ feed' \in Seq(NoticeType) /\ Apart(feed)'
         /\ \A j \in DOMAIN feed' : \E i \in DOMAIN feed : feed'[j] = feed[i]
         /\ \A i \in DOMAIN feed : feed[i].id \in aged \/ feed[i].id \in idsOf(feed')
<1>1. PICK young : young = {i \in DOMAIN feed : feed[i].id \notin aged}
  OBVIOUS
<1>2. young \in SUBSET Nat /\ IsFiniteSet(young) /\ Cardinality(young) \in Nat
  <2>1. young \subseteq 1..Len(feed) /\ Len(feed) \in Nat
    BY <1>1, FeedFacts
  <2>2. IsFiniteSet(1..Len(feed))
    BY <2>1, FS_Interval
  <2>3. IsFiniteSet(young)
    BY <2>1, <2>2, FS_Subset
  <2>4. QED
    BY <2>1, <2>3, FS_CardinalityType
<1>3. PICK t : t = feed'
  OBVIOUS
<1>4. PICK c \in Nat : c = Cardinality(young)
  BY <1>2
<1>5. t = [j \in 1..c |-> feed[Nth(young, j)]]
  BY <1>1, <1>3, <1>4 DEF DropsOld
<1>6. \A j \in 1..c : Nth(young, j) \in young
  BY <1>2, <1>4, Ranks
<1>7. DOMAIN t = 1..c /\ \A j \in 1..c : Nth(young, j) \in DOMAIN feed /\ t[j] = feed[Nth(young, j)]
  BY <1>1, <1>5, <1>6
<1>8. t \in Seq(NoticeType)
  <2>1. \A j \in 1..c : t[j] \in NoticeType
    BY <1>7, FeedFacts
  <2>2. t \in [1..c -> NoticeType]
    BY <1>5, <1>7, <2>1
  <2>3. QED
    BY <2>2, SeqDef
<1>9. Apart(t)
  <2>1. SUFFICES ASSUME NEW i \in 1..c, NEW j \in 1..c, t[i].id = t[j].id PROVE i = j
    BY <1>7 DEF Apart
  <2>2. Nth(young, i) = Nth(young, j)
    BY <1>7, <2>1 DEF FeedInv, Apart
  <2>3. QED
    BY <1>2, <1>4, <2>2, NthApart
<1>10. ASSUME NEW i \in DOMAIN feed, feed[i].id \notin aged PROVE feed[i].id \in idsOf(t)
  <2>1. i \in young
    BY <1>1, <1>10
  <2>2. PICK j : j = Cardinality(Below(young, i)) + 1
    OBVIOUS
  <2>3. j \in 1..c /\ Nth(young, j) = i
    BY <1>2, <1>4, <2>1, <2>2, Ranks
  <2>4. QED
    BY <1>7, <2>3 DEF idsOf
<1>11. QED
  BY <1>3, <1>7, <1>8, <1>9, <1>10 DEF Apart

LEMMA DroppingKeepsFeed ==
  ASSUME FeedInv, DropsOld
  PROVE  FeedInv'
<1>1. UNCHANGED <<made, aged, readMarks, session, socket, wire, known, loadDone, toast, fetches, fetched, reads, pastToasts>>
  BY DEF DropsOld
<1>2. idsOf(feed)' \subseteq known'
  <2>1. \A j \in DOMAIN feed' : \E i \in DOMAIN feed : feed'[j] = feed[i]
    BY YoungAre
  <2>2. \A j \in DOMAIN feed' : feed'[j].id \in idsOf(feed)
    BY <2>1 DEF idsOf
  <2>3. QED
    BY <1>1, <2>2 DEF FeedInv, idsOf
<1>3. NoToast /\ forgotten' = forgotten \cup (known \ known')
  BY <1>1 DEF NoToast, pastToasts
<1>4. loadDone \in BOOLEAN /\ reads \subseteq 1..made /\ known \subseteq 1..made
  BY FeedFacts DEF FeedInv, FeedTypeOK
<1>5. QED
  BY <1>1, <1>2, <1>3, <1>4, YoungAre, ListKeepsFeed

(* A card is clicked. *)
LEMMA MarkedIs ==
  ASSUME FeedInv, NEW i, markAsRead(i)
  PROVE  /\ feed' \in Seq(NoticeType) /\ DOMAIN feed' = DOMAIN feed /\ i \in DOMAIN feed
         /\ \A j \in DOMAIN feed : /\ feed'[j].id = feed[j].id
                                   /\ feed'[j].read = TRUE \/ feed'[j] = feed[j]
<1>1. i \in DOMAIN feed /\ feed' = [feed EXCEPT ![i].read = TRUE]
  BY DEF markAsRead, NotificationSidebar
<1>2. PICK x \in NoticeType : x = [feed[i] EXCEPT !.read = TRUE] /\ x.id = feed[i].id /\ x.read = TRUE
  <2>1. feed[i] \in NoticeType
    BY <1>1, FeedFacts
  <2>2. PICK x : x = [feed[i] EXCEPT !.read = TRUE]
    OBVIOUS
  <2>3. x \in NoticeType /\ x.id = feed[i].id /\ x.read = TRUE
    BY <2>1, <2>2 DEF NoticeType
  <2>4. QED
    BY <2>2, <2>3
<1>3. feed' = [feed EXCEPT ![i] = x]
  BY <1>1, <1>2
<1>4. feed \in [1..Len(feed) -> NoticeType] /\ Len(feed) \in Nat /\ DOMAIN feed = 1..Len(feed)
  BY FeedFacts
<1>5. feed' \in [1..Len(feed) -> NoticeType] /\ feed'[i] = x /\ \A j \in DOMAIN feed \ {i} : feed'[j] = feed[j]
  BY <1>1, <1>3, <1>4
<1>6. feed' \in Seq(NoticeType) /\ DOMAIN feed' = DOMAIN feed
  BY <1>4, <1>5, SeqDef
<1>7. QED
  BY <1>1, <1>2, <1>5, <1>6

LEMMA MarkingKeepsFeed ==
  ASSUME FeedInv, NEW i, markAsRead(i)
  PROVE  FeedInv'
<1>1. /\ UNCHANGED <<made, aged, readMarks, session, socket, wire, known, loadDone, toast, fetches, fetched, pastToasts>>
      /\ reads' = reads \cup {feed[i].id}
  BY DEF markAsRead
<1>2. Apart(feed)' /\ idsOf(feed)' \subseteq known'
  <2>1. PICK t : t = feed'
    OBVIOUS
  <2>2. DOMAIN t = DOMAIN feed /\ \A j \in DOMAIN feed : t[j].id = feed[j].id
    BY <2>1, MarkedIs
  <2>3. \A j, k \in DOMAIN t : t[j].id = t[k].id => j = k
    BY <2>2 DEF FeedInv, Apart
  <2>4. \A j \in DOMAIN t : t[j].id \in known'
    BY <1>1, <2>2, FeedFacts
  <2>5. QED
    BY <2>1, <2>3, <2>4 DEF Apart, idsOf
<1>3. NoToast /\ forgotten' = forgotten \cup (known \ known')
  BY <1>1 DEF NoToast, pastToasts
<1>4. loadDone \in BOOLEAN /\ reads' \subseteq 1..made /\ known \subseteq 1..made
  BY <1>1, MarkedIs, FeedFacts DEF FeedInv, FeedTypeOK
<1>5. feed' \in Seq(NoticeType)
  BY MarkedIs
<1>6. QED
  BY <1>1, <1>2, <1>3, <1>4, <1>5, ListKeepsFeed

LEMMA FeedStep == FeedInv /\ FeedNext => FeedInv'
  BY ServerKeepsFeed, AskingKeepsFeed, AnswerKeepsFeed, PushKeepsFeed, DroppingKeepsFeed, MarkingKeepsFeed DEF FeedNext

LEMMA FeedStays == FeedInv /\ UNCHANGED feedVars => FeedInv'
  BY DEF FeedInv, FeedTypeOK, Apart, idsOf, ToastsAreNew, FetchIs, AnswerIs, InAnswer, feedVars, pastToasts

(* As many notices as places in the list. *)
LEMMA FeedIsListedOnce == FeedInv => ListedOnce
<1>1. SUFFICES ASSUME FeedInv PROVE Cardinality(idsOf(feed)) = Len(feed)
  BY DEF FeedInv, ListedOnce
<1>2. PICK f : f = [i \in 1..Len(feed) |-> feed[i].id]
  OBVIOUS
<1>3. f \in Bijection(1..Len(feed), idsOf(feed))
  <2>1. DOMAIN feed = 1..Len(feed) /\ Apart(feed)
    BY <1>1, FeedFacts DEF FeedInv
  <2>2. f \in [1..Len(feed) -> idsOf(feed)]
    BY <1>2, <2>1 DEF idsOf
  <2>3. f \in Injection(1..Len(feed), idsOf(feed))
    BY <1>2, <2>1, <2>2 DEF Apart, Injection, IsInjective
  <2>4. f \in Surjection(1..Len(feed), idsOf(feed))
    BY <1>2, <2>1, <2>2 DEF Surjection, idsOf
  <2>5. QED
    BY <2>3, <2>4 DEF Bijection
<1>4. ExistsBijection(1..Len(feed), idsOf(feed)) /\ Len(feed) \in Nat
  BY <1>1, <1>3, FeedFacts DEF ExistsBijection
<1>5. QED
  BY <1>4, FS_CountingElements

(* What a step may do to the list. *)
(* A notice that is read is not in the list unread. *)
LEMMA ReadOnce ==
  ASSUME FeedInv, NEW x \in ToSet(feed), x.read
  PROVE  Notice(x.id, FALSE) \notin ToSet(feed)
<1>1. SUFFICES ASSUME Notice(x.id, FALSE) \in ToSet(feed) PROVE FALSE
  OBVIOUS
<1>2. PICK i \in DOMAIN feed : feed[i] = x
  BY DEF ToSet
<1>3. PICK j \in DOMAIN feed : feed[j] = Notice(x.id, FALSE)
  BY <1>1 DEF ToSet
<1>4. feed[j].id = x.id /\ feed[j].read = FALSE
  BY <1>3 DEF Notice
<1>5. i = j
  BY <1>2, <1>4 DEF FeedInv, Apart
<1>6. QED
  BY <1>2, <1>4, <1>5

LEMMA FeedStaysListed ==
  ASSUME FeedInv, FeedNext PROVE ListedStay /\ ReadStay
<1>1. CASE feed' = feed
  BY <1>1, ReadOnce DEF ListedStay, ReadStay
<1>2. ASSUME NEW f \in fetches, fetchNotifications(f), f.ok PROVE ListedStay /\ ReadStay
  <2>1. feed' = f.answer /\ fetches \ fetches' = {f}
    BY <1>2 DEF fetchNotifications
  <2>2. FetchIs(f)
    BY DEF FeedInv
  <2>3. ListedStay
    BY <1>2, <2>1, <2>2 DEF ListedStay, FetchIs, AnswerIs, InAnswer
  <2>4. ASSUME NEW x \in ToSet(feed), Notice(x.id, FALSE) \in ToSet(f.answer) PROVE x.id \notin f.marks
    <3>1. PICK i \in DOMAIN f.answer : f.answer[i] = Notice(x.id, FALSE)
      BY <2>4 DEF ToSet
    <3>2. f.answer[i].id = x.id /\ f.answer[i].read = FALSE
      BY <3>1 DEF Notice
    <3>3. QED
      BY <2>2, <3>2 DEF FetchIs, AnswerIs
  <2>5. QED
    BY <2>1, <2>3, <2>4 DEF ReadStay
<1>3. ASSUME NEW id \in wire, onmessage(id), id \notin known PROVE ListedStay /\ ReadStay
  <2>1. feed' = <<Notice(id, FALSE)>> \o feed
    BY <1>3 DEF onmessage
  <2>2. ListedStay
    BY <1>3, <2>1, PushIs DEF ListedStay, idsOf
  <2>3. ASSUME NEW x \in ToSet(feed), x.read, Notice(x.id, FALSE) \in ToSet(feed') PROVE FALSE
    <3>0. id \in Nat
      BY FeedFacts
    <3>1. PICK n \in NoticeType : n = Notice(id, FALSE) /\ n.id = id
      BY <3>0, NoticeIs
    <3>2. PICK t : t = feed' /\ t = <<n>> \o feed
      BY <2>1, <3>1
    <3>3. /\ DOMAIN feed = 1..Len(feed) /\ t[1] = n
          /\ \A i \in DOMAIN t : i = 1 \/ (i - 1 \in 1..Len(feed) /\ t[i] = feed[i - 1])
      <4>1. feed \in Seq(NoticeType)
        BY FeedFacts
      <4>2. t = <<n>> \o feed
        BY <3>2
      <4>3. QED
        BY <4>1, <4>2, FirstOfList
    <3>4. PICK j \in DOMAIN t : t[j] = Notice(x.id, FALSE)
      BY <2>3, <3>2 DEF ToSet
    <3>5. PICK i \in DOMAIN feed : feed[i] = x
      BY <2>3 DEF ToSet
    <3>6. x.id # id
      BY <1>3, <3>5, FeedFacts
    <3>7. j # 1
      <4>1. Notice(x.id, FALSE).id = x.id
        BY DEF Notice
      <4>2. QED
        BY <3>1, <3>3, <3>4, <3>6, <4>1
    <3>8. Notice(x.id, FALSE) \in ToSet(feed)
      BY <3>3, <3>4, <3>7 DEF ToSet
    <3>9. QED
      BY <2>3, <3>8, ReadOnce
  <2>4. QED
    BY <2>2, <2>3 DEF ReadStay
<1>4. CASE DropsOld
  <2>1. ListedStay
    BY <1>4, YoungAre DEF ListedStay, idsOf
  <2>2. ASSUME NEW x \in ToSet(feed), x.read, Notice(x.id, FALSE) \in ToSet(feed') PROVE FALSE
    <3>1. ToSet(feed') \subseteq ToSet(feed)
      BY <1>4, YoungAre DEF ToSet
    <3>2. QED
      BY <2>2, <3>1, ReadOnce
  <2>3. QED
    BY <2>1, <2>2 DEF ReadStay
<1>5. ASSUME NEW i, markAsRead(i) PROVE ListedStay /\ ReadStay
  <2>1. ListedStay
    BY <1>5, MarkedIs DEF ListedStay, idsOf
  <2>2. ASSUME NEW x \in ToSet(feed), x.read, Notice(x.id, FALSE) \in ToSet(feed') PROVE FALSE
    <3>1. PICK j \in DOMAIN feed' : feed'[j] = Notice(x.id, FALSE)
      BY <2>2 DEF ToSet
    <3>2. feed'[j].read = FALSE
      BY <3>1 DEF Notice
    <3>3. j \in DOMAIN feed /\ feed'[j] = feed[j]
      BY <1>5, <3>1, <3>2, MarkedIs
    <3>4. Notice(x.id, FALSE) \in ToSet(feed)
      BY <3>1, <3>3 DEF ToSet
    <3>5. QED
      BY <2>2, <3>4, ReadOnce
  <2>3. QED
    BY <2>1, <2>2 DEF ReadStay
<1>6. QED
  BY <1>1, <1>2, <1>3, <1>4, <1>5
     DEF FeedNext, MakeNotice, NoticeAges, notification_ws, SocketBreaks, SignsInOnThePage, dismissToast, refetchSilent,
         ServerAnswers, FetchFails, read_notification, onmessage, fetchNotifications

-----------------------------------------------------------------------------
(* The scenes together.  Each part has its types in every scene, and holds *)
(* what it promises in its own.                                            *)
PagesInv ==
  /\ ReportFormTypeOK /\ ResourceFormTypeOK /\ SavedPlacesTypeOK /\ StatusInv /\ FeedInv
  /\ scene = "report" => ReportInv
  /\ scene = "resource" => ResourceInv
  /\ scene = "view" => ViewInv
  /\ scene = "saved" => SavedInv

(* The form beside another page's map is as it was. *)
LEMMA FormsLeftAlone ==
  /\ ReportFormTypeOK /\ UNCHANGED formVars /\ MapTypeOK' => ReportFormTypeOK'
  /\ ResourceFormTypeOK /\ UNCHANGED resourceVars /\ MapTypeOK' => ResourceFormTypeOK'
  /\ SavedPlacesTypeOK /\ UNCHANGED savedVars /\ StatusInv' /\ MapTypeOK' => SavedPlacesTypeOK'
<1>1. ReportFormTypeOK /\ UNCHANGED formVars /\ MapTypeOK' => ReportFormTypeOK'
  BY DEF ReportFormTypeOK, formVars
<1>2. ResourceFormTypeOK /\ UNCHANGED resourceVars /\ MapTypeOK' => ResourceFormTypeOK'
  BY DEF ResourceFormTypeOK, resourceVars
<1>3. SavedPlacesTypeOK /\ UNCHANGED savedVars /\ StatusInv' /\ MapTypeOK' => SavedPlacesTypeOK'
  BY DEF SavedPlacesTypeOK, StatusInv, savedVars
<1>4. QED
  BY <1>1, <1>2, <1>3

LEMMA MapIsTyped ==
  /\ PagesInv => MapTypeOK
  /\ MapTypeOK /\ UNCHANGED mapVars => MapTypeOK'
<1>1. PagesInv => MapTypeOK
  BY DEF PagesInv, ReportFormTypeOK
<1>2. MapTypeOK /\ UNCHANGED mapVars => MapTypeOK'
  BY DEF MapTypeOK, mapVars, pinVars, viewVars
<1>3. QED
  BY <1>1, <1>2

LEMMA PagesStart == PagesInit => PagesInv
<1>1. SUFFICES ASSUME PagesInit PROVE PagesInv
  OBVIOUS
<1>2. ReportInv /\ ResourceInv /\ SavedInv /\ StatusInv /\ FeedInv
  BY <1>1, ReportStarts, ResourceStarts, SavedStarts, StatusStarts, FeedStarts DEF PagesInit
<1>3. ViewInv
  BY <1>1, ViewStarts DEF PagesInit, ReportFormInit
<1>4. QED
  BY <1>2, <1>3, SavedTyped DEF PagesInv, ReportInv, ResourceInv

LEMMA PagesStep == PagesInv /\ [PagesNext]_pagesVars => PagesInv'
<1>1. SUFFICES ASSUME PagesInv, [PagesNext]_pagesVars PROVE PagesInv'
  OBVIOUS
<1>2. CASE UNCHANGED pagesVars
  <2>1. UNCHANGED <<scene, mapVars, formVars, resourceVars, savedVars, statusVars, feedVars>>
    BY <1>2 DEF pagesVars
  <2>2. MapTypeOK' /\ StatusInv' /\ FeedInv'
    BY <1>1, <2>1, MapIsTyped, StatusStays, FeedStays DEF PagesInv
  <2>3. UNCHANGED reportFormVars /\ UNCHANGED resourceFormVars /\ UNCHANGED savedPlacesVars
    BY <2>1 DEF reportFormVars, resourceFormVars, savedPlacesVars
  <2>4. ViewInv => ViewInv'
    BY <2>1, <2>2 DEF ViewInv, mapVars, viewVars
  <2>5. QED
    BY <1>1, <2>1, <2>2, <2>3, <2>4, FormsLeftAlone, ReportStays, ResourceStays, SavedStays DEF PagesInv
<1>3. CASE PagesNext /\ scene = "report"
  <2>1. ReportFormNext /\ UNCHANGED <<scene, resourceVars, savedVars, statusVars, feedVars>>
    BY <1>3 DEF PagesNext
  <2>2. ReportInv' /\ StatusInv' /\ FeedInv'
    BY <1>1, <1>3, <2>1, ReportStep, StatusStays, FeedStays DEF PagesInv
  <2>3. ReportFormTypeOK' /\ MapTypeOK'
    BY <2>2 DEF ReportInv, ReportFormTypeOK
  <2>4. QED
    BY <1>1, <1>3, <2>1, <2>2, <2>3, FormsLeftAlone DEF PagesInv
<1>4. CASE PagesNext /\ scene = "resource"
  <2>1. ResourceFormNext /\ UNCHANGED <<scene, formVars, savedVars, statusVars, feedVars>>
    BY <1>4 DEF PagesNext
  <2>2. ResourceInv' /\ StatusInv' /\ FeedInv'
    BY <1>1, <1>4, <2>1, ResourceStep, StatusStays, FeedStays DEF PagesInv
  <2>3. ResourceFormTypeOK' /\ MapTypeOK'
    BY <2>2 DEF ResourceInv, ResourceFormTypeOK
  <2>4. QED
    BY <1>1, <1>4, <2>1, <2>2, <2>3, FormsLeftAlone DEF PagesInv
<1>5. CASE PagesNext /\ scene = "view"
  <2>1. ViewNext /\ UNCHANGED <<scene, formVars, resourceVars, savedVars, statusVars, feedVars>>
    BY <1>5 DEF PagesNext
  <2>2. ViewInv' /\ StatusInv' /\ FeedInv'
    BY <1>1, <1>5, <2>1, ViewStep, StatusStays, FeedStays DEF PagesInv
  <2>3. MapTypeOK'
    BY <2>2 DEF ViewInv
  <2>4. QED
    BY <1>1, <1>5, <2>1, <2>2, <2>3, FormsLeftAlone DEF PagesInv
<1>6. CASE PagesNext /\ scene = "saved"
  <2>1. SavedPlacesNext /\ UNCHANGED <<scene, formVars, resourceVars, statusVars, feedVars>>
    BY <1>6 DEF PagesNext
  <2>2. SavedInv' /\ StatusInv' /\ FeedInv'
    BY <1>1, <1>6, <2>1, SavedStep, StatusStays, FeedStays DEF PagesInv
  <2>3. MapTypeOK'
    BY <2>2 DEF SavedInv
  <2>4. SavedPlacesTypeOK'
    BY <2>2, SavedTyped, PTL
  <2>5. QED
    BY <1>1, <1>6, <2>1, <2>2, <2>3, <2>4, FormsLeftAlone DEF PagesInv
<1>7. CASE PagesNext /\ scene = "status"
  <2>1. StatusNext /\ UNCHANGED <<scene, mapVars, formVars, resourceVars, savedVars, feedVars>>
    BY <1>7 DEF PagesNext
  <2>2. StatusInv' /\ FeedInv' /\ MapTypeOK'
    BY <1>1, <2>1, StatusStep, FeedStays, MapIsTyped DEF PagesInv
  <2>3. QED
    BY <1>1, <1>7, <2>1, <2>2, FormsLeftAlone DEF PagesInv
<1>8. CASE PagesNext /\ scene = "feed"
  <2>1. FeedNext /\ UNCHANGED <<scene, mapVars, formVars, resourceVars, savedVars, statusVars>>
    BY <1>8 DEF PagesNext
  <2>2. FeedInv' /\ StatusInv' /\ MapTypeOK'
    BY <1>1, <2>1, FeedStep, StatusStays, MapIsTyped DEF PagesInv
  <2>3. QED
    BY <1>1, <1>8, <2>1, <2>2, FormsLeftAlone DEF PagesInv
<1>9. QED
  BY <1>1, <1>2, <1>3, <1>4, <1>5, <1>6, <1>7, <1>8 DEF PagesNext

LEMMA PagesHold == PagesSpec => []PagesInv
  BY PagesStart, PagesStep, PTL DEF PagesSpec

(* The pages of the forms and the tab are of their types. *)
THEOREM PagesAreTyped == PagesSpec => []TypeOK
<1>1. PagesInv => TypeOK
  BY DEF PagesInv, FeedInv, TypeOK
<1>2. QED
  BY <1>1, PagesHold, PTL

(* A report, a resource and a saved place are of the place they say,       *)
(* whatever came late; the watch moves a map's view once; the lists of     *)
(* places and of a resource's status are the server's when all is told.    *)
THEOREM FormsAreRight == PagesSpec => []FormsHold
<1>1. PagesInv => FormsHold
  <2>1. PagesInv /\ scene = "report" => ReportsAreRight
    BY DEF PagesInv, ReportInv
  <2>2. PagesInv /\ scene = "resource" => ResourcesAreRight
    BY DEF PagesInv, ResourceInv
  <2>3. PagesInv => (scene = "view" => WatchMovesOnce) /\ (scene = "saved" => PlacesAreRight) /\ StatusFollows
    BY WatchMoves, PlacesHold, StatusHolds DEF PagesInv
  <2>4. QED
    BY <2>1, <2>2, <2>3 DEF FormsHold
<1>2. QED
  BY <1>1, PagesHold, PTL

(* A notice is in the list of a tab once, and a toast shows it once unless *)
(* the tab was made to forget it.                                          *)
THEOREM TabsAreRight == PagesSpec => []TabsHold
<1>1. PagesInv => TabsHold
  BY FeedIsListedOnce DEF PagesInv, FeedInv, TabsHold
<1>2. QED
  BY <1>1, PagesHold, PTL

(* What takes a notice out of the list, and what makes it unread. *)
THEOREM NoticesAreKept == PagesSpec => NoticesStay
<1>1. PagesInv /\ [PagesNext]_pagesVars => [ListedStay /\ ReadStay]_feedVars
  <2>1. SUFFICES ASSUME PagesInv, [PagesNext]_pagesVars, ~UNCHANGED feedVars PROVE ListedStay /\ ReadStay
    OBVIOUS
  <2>2. FeedNext
    BY <2>1 DEF PagesNext, pagesVars
  <2>3. QED
    BY <2>1, <2>2, FeedStaysListed DEF PagesInv
<1>2. QED
  BY <1>1, PagesHold, PTL DEF PagesSpec, NoticesStay

-----------------------------------------------------------------------------
(***************************************************************************)
(* Who is told of a fire.                                                  *)
(***************************************************************************)

LEMMA DistanceRange == AllDistances \subseteq 0..NoDistance /\ NoDistance \in AllDistances
BY DistancesAssumption DEF AllDistances, NoDistance

LEMMA NearerIsOne ==
  ASSUME NEW a \in AllDistances, NEW b \in AllDistances
  PROVE  /\ Nearer(a, b) \in AllDistances
         /\ a # NoDistance => Nearer(a, b) # NoDistance
<1>1. a \in 0..NoDistance /\ b \in 0..NoDistance
  BY DistanceRange
<1>2. QED
  BY <1>1 DEF Nearer, NoDistance

(* Storing notices keeps the closest distances in their type and never     *)
(* makes a user who was told of a fire one who was not.                    *)
NoticesAreStored ==
  /\ closest' \in [Users -> [Fires -> AllDistances]]
  /\ \A u \in Users, f \in Fires : Told(u, f) => Told(u, f)'

LEMMA StoreKeepsNotices ==
  ASSUME NoticesTypeOK, NEW t \in Threads, Store(t) PROVE NoticesAreStored
<1> DEFINE u == check[t].user
           c == check[t]
           new == [f \in Fires |-> IF f \in c.found THEN Nearer(closest[u][f], c.near[f])
                                   ELSE closest[u][f]]
<1>1. u \in Users /\ c.near \in [Fires -> AllDistances]
  BY DEF Store, NoticesTypeOK
<1>2. closest' = [closest EXCEPT ![u] = new]
  BY <1>1 DEF Store, Recorded, NoticesTypeOK
<1>3. \A f \in Fires : closest[u][f] \in AllDistances
  BY <1>1 DEF NoticesTypeOK
<1>4. \A f \in Fires : new[f] \in AllDistances /\ (closest[u][f] # NoDistance => new[f] # NoDistance)
  BY <1>1, <1>3, NearerIsOne
<1> HIDE DEF new, u, c
<1>5. new \in [Fires -> AllDistances]
  BY <1>4 DEF new
<1>6. QED
  BY <1>1, <1>2, <1>4, <1>5 DEF NoticesAreStored, Told, NoticesTypeOK

LEMMA AnnounceKeepsNotices ==
  ASSUME NoticesTypeOK, Announce PROVE NoticesAreStored
<1> DEFINE f == decision.fire
           near == decision.near
<1>1. f \in Fires /\ near \in [Users -> AllDistances]
  BY DEF Announce, NoticesTypeOK
<1>2. \A u \in Users : closest'[u] = IF u \notin decision.audience THEN closest[u]
                         ELSE [closest[u] EXCEPT ![f] = Nearer(closest[u][f], near[u])]
  BY <1>1 DEF Announce, Recorded, NoticesTypeOK
<1>3. \A u \in Users : closest[u] \in [Fires -> AllDistances]
  BY DEF NoticesTypeOK
<1>4. \A u \in Users : /\ Nearer(closest[u][f], near[u]) \in AllDistances
                       /\ closest[u][f] # NoDistance => Nearer(closest[u][f], near[u]) # NoDistance
  BY <1>1, <1>3, NearerIsOne
<1>5. ASSUME NEW u \in Users
      PROVE  /\ closest'[u] \in [Fires -> AllDistances]
             /\ \A g \in Fires : closest[u][g] # NoDistance => closest'[u][g] # NoDistance
  <2> DEFINE d == Nearer(closest[u][f], near[u])
             row == closest[u]
  <2>1. /\ d \in AllDistances /\ (row[f] # NoDistance => d # NoDistance)
        /\ row \in [Fires -> AllDistances]
        /\ closest'[u] = IF u \notin decision.audience THEN row ELSE [row EXCEPT ![f] = d]
    BY <1>2, <1>3, <1>4
  <2> HIDE DEF d, row, f
  <2>2. /\ closest'[u] \in [Fires -> AllDistances]
        /\ \A g \in Fires : row[g] # NoDistance => closest'[u][g] # NoDistance
    BY <1>1, <2>1
  <2>3. QED
    BY <2>2 DEF row
<1>6. closest' = [u \in Users |-> closest'[u]]
  BY DEF Announce
<1>7. QED
  BY <1>5, <1>6 DEF NoticesAreStored, Told

-----------------------------------------------------------------------------
(***************************************************************************)
(* Until a withdrawal has been announced, those who have not heard of it   *)
(* are users it is going to be announced to.                               *)
(***************************************************************************)

WithdrawalIsPending ==
  \A p \in unheard :
    /\ decision.at \in {"written", "counted"} /\ decision.fire = p[2]
    /\ ~(decision.to /\ ~decision.previous)
    /\ Told(p[1], p[2])
    /\ decision.at = "counted" => p[1] \in decision.audience

NoticesInv == NoticesTypeOK /\ WithdrawalIsPending

LEMMA NoticesStart == Init => NoticesInv
<1> SUFFICES ASSUME Init PROVE NoticesInv
  OBVIOUS
<1>1. Free \in Work
  BY DEF Free, Work
<1>2. NoDecision \in Deciding
  BY DEF NoDecision, Deciding
<1>3. QED
  BY <1>1, <1>2, DistanceRange, BoundsAssumption
  DEF Init, NoticesInv, NoticesTypeOK, WithdrawalIsPending, Free, NoDecision

(* A check that goes from one state to another. *)
LEMMA CheckKeepsNotices ==
  ASSUME NoticesInv, NEW t \in Threads, NEW w \in Work, check' = [check EXCEPT ![t] = w],
         w.at # "free" => w.user \in Users,
         w.at = "looking" => w.near \in [Fires -> AllDistances],
         round' \subseteq Users,
         UNCHANGED <<distance, fireStatus, closest, decision, unheard, bounds>>
  PROVE  NoticesInv'
BY DEF NoticesInv, NoticesTypeOK, WithdrawalIsPending, Told, bounds

LEMMA NoticesStep == NoticesInv /\ [Next]_vars => NoticesInv'
<1> SUFFICES ASSUME NoticesInv, [Next]_vars PROVE NoticesInv'
  OBVIOUS
<1>1. ASSUME NEW u \in Users, Move(u) PROVE NoticesInv'
  <2>1. distance' \in [Users -> [Fires -> AllDistances]]
    BY <1>1 DEF Move, NoticesInv, NoticesTypeOK, AllDistances
  <2>2. [Free EXCEPT !.at = "called", !.user = u] \in Work
    BY DEF Free, Work
  <2>3. /\ check' \in [Threads -> Work]
        /\ \A t \in Threads :
             /\ check'[t].at # "free" => check'[t].user \in Users
             /\ check'[t].at = "looking" => check'[t].near \in [Fires -> AllDistances]
    BY <1>1, <2>2 DEF Move, NoticesInv, NoticesTypeOK, Threads, Free
  <2>4. moves' \in [Users -> 0..MaxMoves]
    BY <1>1, BoundsAssumption DEF Move, NoticesInv, NoticesTypeOK
  <2>5. QED
    BY <1>1, <2>1, <2>3, <2>4 DEF Move, NoticesInv, NoticesTypeOK, WithdrawalIsPending, Told
<1>2. ASSUME NEW f \in Fires, Grow(f) PROVE NoticesInv'
  <2>1. distance' \in [Users -> [Fires -> AllDistances]]
    BY <1>2 DEF Grow, NoticesInv, NoticesTypeOK
  <2>2. growth' \in 0..MaxGrowth
    BY <1>2, BoundsAssumption DEF Grow, NoticesInv, NoticesTypeOK
  <2>3. QED
    BY <1>2, <2>1, <2>2 DEF Grow, NoticesInv, NoticesTypeOK, WithdrawalIsPending, Told
<1>3. ASSUME NEW f \in Fires, SystemDecides(f) PROVE NoticesInv'
  BY <1>3, BoundsAssumption DEF SystemDecides, NoticesInv, NoticesTypeOK, WithdrawalIsPending, Told
<1>4. CASE StartRound
  BY <1>4 DEF StartRound, NoticesInv, NoticesTypeOK, WithdrawalIsPending, Told, bounds
<1>5. ASSUME NEW u \in Users, NextInRound(u) PROVE NoticesInv'
  <2> DEFINE w == [Free EXCEPT !.at = "called", !.user = u]
  <2>1. w \in Work /\ w.user = u /\ w.at = "called"
    BY DEF Free, Work
  <2>2. Sweeper \in Threads
    BY DEF Threads
  <2>3. QED
    BY <1>5, <2>1, <2>2, CheckKeepsNotices DEF NextInRound, NoticesInv, NoticesTypeOK
<1>6. ASSUME NEW t \in Threads, ReadFires(t) PROVE NoticesInv'
  <2> DEFINE u == check[t].user
             w == [check[t] EXCEPT !.at = "looking", !.near = distance[u],
                     !.todo = {f \in Fires : fireStatus[f] /\ Rung(u, distance[u][f]) # NoDistance}]
  <2>1. u \in Users /\ check[t] \in Work
    BY <1>6 DEF ReadFires, NoticesInv, NoticesTypeOK
  <2>2. distance[u] \in [Fires -> AllDistances]
    BY <2>1 DEF NoticesInv, NoticesTypeOK
  <2>3. w \in Work /\ w.user = u /\ w.near = distance[u]
    BY <2>1, <2>2 DEF Work
  <2>4. check' = [check EXCEPT ![t] = w]
    BY <1>6 DEF ReadFires, NoticesInv, NoticesTypeOK
  <2>5. UNCHANGED <<distance, fireStatus, closest, round, decision, unheard, bounds>>
    BY <1>6 DEF ReadFires
  <2>6. round' \subseteq Users
    BY <2>5 DEF NoticesInv, NoticesTypeOK
  <2> HIDE DEF w
  <2>7. QED
    BY <2>1, <2>2, <2>3, <2>4, <2>5, <2>6, CheckKeepsNotices
<1>7. ASSUME NEW t \in Threads, NEW f \in Fires, Look(t, f) PROVE NoticesInv'
  <2> DEFINE closer == Rung(check[t].user, check[t].near[f])
                         < Rung(check[t].user, Previous(check[t].user, f))
             w == [check[t] EXCEPT !.todo = check[t].todo \ {f},
                     !.found = IF closer THEN check[t].found \cup {f} ELSE check[t].found]
  <2>1. check' = [check EXCEPT ![t] = w]
    BY <1>7 DEF Look, NoticesInv, NoticesTypeOK
  <2>2. check[t] \in Work
    BY DEF NoticesInv, NoticesTypeOK
  <2> HIDE DEF closer
  <2>3. w \in Work /\ w.at = check[t].at /\ w.user = check[t].user /\ w.near = check[t].near
    BY <2>2 DEF Work
  <2>4. /\ w.at # "free" => w.user \in Users
        /\ w.at = "looking" => w.near \in [Fires -> AllDistances]
    BY <2>3 DEF NoticesInv, NoticesTypeOK
  <2>5. UNCHANGED <<distance, fireStatus, closest, round, decision, unheard, bounds>>
    BY <1>7 DEF Look
  <2>6. round' \subseteq Users
    BY <2>5 DEF NoticesInv, NoticesTypeOK
  <2> HIDE DEF w
  <2>7. QED
    BY <2>1, <2>3, <2>4, <2>5, <2>6, CheckKeepsNotices
<1>8. ASSUME NEW t \in Threads, Store(t) PROVE NoticesInv'
  <2>1. NoticesAreStored
    BY <1>8, StoreKeepsNotices DEF NoticesInv
  <2>2. Free \in Work /\ Free.at = "free"
    BY DEF Free, Work
  <2>3. NoticesTypeOK'
    BY <1>8, <2>1, <2>2 DEF Store, NoticesInv, NoticesTypeOK, NoticesAreStored, bounds
  <2>4. WithdrawalIsPending'
    BY <1>8, <2>1 DEF Store, NoticesInv, NoticesTypeOK, WithdrawalIsPending, NoticesAreStored
  <2>5. QED
    BY <2>3, <2>4 DEF NoticesInv
<1>9. ASSUME NEW f \in Fires, NEW to \in BOOLEAN, DecisionReads(f, to) PROVE NoticesInv'
  <2> DEFINE d == [NoDecision EXCEPT !.at = "read", !.fire = f, !.to = to,
                                     !.previous = fireStatus[f]]
  <2>1. d \in Deciding /\ d.at = "read" /\ d.fire = f
    BY DEF NoDecision, Deciding, NoticesInv, NoticesTypeOK
  <2>2. decision' = d /\ decision.at = "none"
    BY <1>9 DEF DecisionReads
  <2>3. unheard = {}
    BY <2>2 DEF NoticesInv, WithdrawalIsPending
  <2>4. QED
    BY <1>9, <2>1, <2>2, <2>3, BoundsAssumption DEF DecisionReads, NoticesInv, NoticesTypeOK, WithdrawalIsPending
<1>10. CASE DecisionWrites
  <2> DEFINE f == decision.fire
             withdrawn == decision.previous /\ ~decision.to
  <2>1. f \in Fires /\ decision \in Deciding /\ decision.at = "read"
    BY <1>10 DEF DecisionWrites, NoticesInv, NoticesTypeOK
  <2>2. unheard = {}
    BY <2>1 DEF NoticesInv, WithdrawalIsPending
  <2>3. unheard' = IF withdrawn THEN {u \in Users : Told(u, f)} \X {f} ELSE {}
    BY <1>10, <2>2 DEF DecisionWrites
  <2>4. fireStatus' \in [Fires -> BOOLEAN]
    BY <1>10, <2>1 DEF DecisionWrites, NoticesInv, NoticesTypeOK, Deciding
  <2>5. decision' = IF decision.to \/ decision.previous
                    THEN [decision EXCEPT !.at = "written"] ELSE NoDecision
    BY <1>10 DEF DecisionWrites
  <2>6. NoDecision \in Deciding /\ NoDecision.at = "none"
    BY DEF NoDecision, Deciding
  <2>7. /\ [decision EXCEPT !.at = "written"] \in Deciding
        /\ [decision EXCEPT !.at = "written"].at = "written"
        /\ [decision EXCEPT !.at = "written"].fire = f
        /\ [decision EXCEPT !.at = "written"].to = decision.to
    BY <2>1 DEF Deciding
  <2>8. NoticesTypeOK'
    <3>1. decision' \in Deciding /\ (decision'.at # "none" => decision'.fire \in Fires)
          /\ decision'.at # "counted"
      BY <2>1, <2>5, <2>6, <2>7
    <3>2. unheard' \subseteq Users \X Fires
      BY <2>1, <2>3
    <3>3. QED
      BY <1>10, <2>4, <3>1, <3>2 DEF DecisionWrites, NoticesInv, NoticesTypeOK, bounds
  <2>9. WithdrawalIsPending'
    BY <1>10, <2>3, <2>5, <2>7 DEF DecisionWrites, WithdrawalIsPending, Told
  <2>10. QED
    BY <2>8, <2>9 DEF NoticesInv
<1>11. CASE Count
  <2> DEFINE d == [decision EXCEPT !.at = "counted", !.audience = Audience,
                     !.near = [u \in Users |-> distance[u][decision.fire]]]
  <2>1. decision.fire \in Fires /\ decision \in Deciding /\ decision.at = "written"
    BY <1>11 DEF Count, NoticesInv, NoticesTypeOK
  <2>2. [u \in Users |-> distance[u][decision.fire]] \in [Users -> AllDistances]
    BY <2>1 DEF NoticesInv, NoticesTypeOK
  <2>3. Audience \subseteq Users
    BY DEF Audience
  <2>4. decision' = d
    BY <1>11 DEF Count
  <2>5. /\ d \in Deciding /\ d.at = "counted" /\ d.fire = decision.fire /\ d.to = decision.to
        /\ d.previous = decision.previous /\ d.audience = Audience
        /\ d.near \in [Users -> AllDistances]
    BY <2>1, <2>2, <2>3 DEF Deciding
  <2>6. \A p \in unheard : p[1] \in Audience
    BY <2>1 DEF NoticesInv, NoticesTypeOK, WithdrawalIsPending, Audience
  <2> HIDE DEF d
  <2>7. QED
    BY <1>11, <2>1, <2>4, <2>5, <2>6 DEF Count, NoticesInv, NoticesTypeOK, WithdrawalIsPending, Told, bounds
<1>12. CASE Announce
  <2>1. NoticesAreStored
    BY <1>12, AnnounceKeepsNotices DEF NoticesInv
  <2>2. unheard' = {}
    BY <1>12 DEF Announce, NoticesInv, NoticesTypeOK, WithdrawalIsPending
  <2>3. NoDecision \in Deciding /\ NoDecision.at = "none"
    BY DEF NoDecision, Deciding
  <2>4. QED
    BY <1>12, <2>1, <2>2, <2>3 DEF Announce, NoticesInv, NoticesTypeOK, WithdrawalIsPending, NoticesAreStored, bounds
<1>13. CASE UNCHANGED vars
  BY <1>13 DEF vars, NoticesInv, NoticesTypeOK, WithdrawalIsPending, Told
<1>14. Users \subseteq Threads /\ Sweeper \in Threads
  BY DEF Threads
<1>15. QED
  BY <1>1, <1>2, <1>3, <1>4, <1>5, <1>6, <1>7, <1>8, <1>9, <1>10, <1>11, <1>12, <1>13, <1>14
  DEF Next, Sweeping, Checking, Announcing

(* No check, sweep or announcement leaves a notice, a status or its own     *)
(* work outside its type: whoever checks, checks a user it has looked up.   *)
THEOREM NoticesAreTyped == Spec => []NoticesTypeOK
<1>1. NoticesInv => NoticesTypeOK
  BY DEF NoticesInv
<1>2. QED
  BY <1>1, NoticesStart, NoticesStep, PTL DEF Spec

(* Whoever was told of a fire hears that it is no longer verified, wherever *)
(* they and everybody else have gone since: notify_fire_update goes by the  *)
(* notices, which are never taken back.                                     *)
THEOREM WithdrawalsAreHeard == Spec => []TrackersHearOfIt
<1>1. NoticesInv => TrackersHearOfIt
  BY DEF NoticesInv, WithdrawalIsPending, TrackersHearOfIt
<1>2. QED
  BY <1>1, NoticesStart, NoticesStep, PTL DEF Spec

=============================================================================
