------------------------------- MODULE PinMap -------------------------------
(***************************************************************************)
(* The map with a pin (app/frontend/src/components/reportfire/Firemap.tsx) *)
(* that the report form, the resource form and the dialog for a saved      *)
(* place have beside them.  A click sets the pin at once, then asks for    *)
(* the address of the place; the address goes to the form, which may hand  *)
(* back a place for the pin (externalPin).  Around the pin is a circle     *)
(* whose rim is dragged.                                                   *)
(*                                                                         *)
(* The operators give the map after an event; the forms make actions of    *)
(* them.  An address is the name of its place, or its coordinates where    *)
(* nobody could be asked: here, the place.                                 *)
(***************************************************************************)
EXTENDS Integers, FiniteSets

CONSTANTS
  Places,
  Origin,        \* the point 0, 0: what a form puts where there is no pin
  Nowhere,       \* no pin
  MaxClicks      \* bound: clicks on the map

ASSUME PinMapAssumption ==
  /\ Origin # Nowhere /\ Places \cap {Origin, Nowhere, "placeholder", "typed", "empty"} = {}
  /\ MaxClicks \in Nat

VARIABLES
  pinMap,     \* the map: its pin, its circle, the hand on the rim
  lookups,    \* addresses that were asked for: [n, place]
  looked,     \* clicks so far
  camera,     \* what the map looks at, and what it knows of the user's place
  mounts,     \* how often the map was built anew
  flights     \* (history) how often the watch on the user's place moved the view

pinVars == <<pinMap, lookups, looked>>
viewVars == <<camera, mounts, flights>>
mapVars == <<pinVars, viewVars>>

(* grip: nobody drags the rim; somebody does; the rim was taken away from  *)
(* under the hand, and nobody says that the drag is over; or it ended less *)
(* than 300 ms ago.                                                        *)
Grips == {"free", "held", "lost", "just"}
FreshMap == [pin |-> Nowhere, radius |-> "least", grip |-> "free"]
FreshView == [at |-> "city", user |-> FALSE, centered |-> FALSE, locating |-> FALSE]

PinInit == pinMap = FreshMap /\ lookups = {} /\ looked = 0
MapInit == PinInit /\ camera = FreshView /\ mounts = 1 /\ flights = 0

-----------------------------------------------------------------------------
(* The pin moves and the circle is small again.  The rim is built anew,    *)
(* without the listeners of the one that may be in a hand.                 *)
rimEffect(m) == IF m.grip = "held" THEN "lost" ELSE m.grip
resetBoundary(m, p) == [m EXCEPT !.pin = p, !.radius = "least", !.grip = rimEffect(m)]

(* The form's place is followed when it changes. *)
externalPin(m, was, now) == IF now \in {was, Nowhere} THEN m ELSE resetBoundary(m, now)

(* What the map has for a hand: the rim, once there is a pin, and the      *)
(* button that looks for the user, unless it is looking.                   *)
MapView == [rim |-> pinMap.pin # Nowhere, recenter |-> ~camera.locating]

(* What the field beside the map hands to its form, besides the places     *)
(* that are picked: nothing when it is entered with the placeholder in it  *)
(* or emptied, or what is typed.                                           *)
LocationField == {"empty", "typed"}

(* A click, which is not heard while the rim is dragged or just was. *)
handleMapClick(p) ==
  /\ pinMap.grip = "free" /\ looked < MaxClicks
  /\ pinMap' = resetBoundary(pinMap, p)
  /\ lookups' = lookups \cup {[n |-> looked + 1, place |-> p]}
  /\ looked' = looked + 1

(* The address of a place is there: its name or, failing that, numbers. *)
reverseGeocode(l) == l \in lookups /\ lookups' = lookups \ {l}

(* The rim is taken, moved and let go. *)
handleDragStart == MapView.rim /\ pinMap.grip # "held" /\ pinMap' = [pinMap EXCEPT !.grip = "held"]
handleRimDrag   == pinMap.grip = "held" /\ pinMap' = [pinMap EXCEPT !.radius = "drawn"]
handleDragEnd   == pinMap.grip = "held" /\ pinMap' = [pinMap EXCEPT !.grip = "just"]
ClickSettles    == pinMap.grip = "just" /\ pinMap' = [pinMap EXCEPT !.grip = "free"]

DragsRim == (handleDragStart \/ handleDragEnd \/ ClickSettles) /\ UNCHANGED <<lookups, looked>>

-----------------------------------------------------------------------------
(* The view, with which the pin has nothing to do but take it along.       *)
toLocation(p) ==
  /\ looked < MaxClicks /\ looked' = looked + 1
  /\ camera' = [camera EXCEPT !.at = p]
  /\ UNCHANGED <<pinMap, lookups, mounts, flights>>

(* The user's place is watched: the first fix of a map takes the view. *)
watchPosition ==
  /\ camera' = [camera EXCEPT !.user = TRUE, !.centered = TRUE, !.at = IF camera.centered THEN @ ELSE "user"]
  /\ flights' = flights + (IF camera.centered THEN 0 ELSE 1)
  /\ UNCHANGED <<pinVars, mounts>>

(* The button: to the user's place, which may have to be found first. *)
handleRecenter ==
  /\ MapView.recenter
  /\ camera' = IF camera.user THEN [camera EXCEPT !.at = "user"] ELSE [camera EXCEPT !.locating = TRUE]
  /\ UNCHANGED <<pinVars, mounts, flights>>
Located ==
  /\ camera.locating
  /\ \E found \in BOOLEAN :
       camera' = IF found THEN [at |-> "user", user |-> TRUE, centered |-> TRUE, locating |-> FALSE]
                 ELSE [camera EXCEPT !.locating = FALSE]
  /\ UNCHANGED <<pinVars, mounts, flights>>

(* The form starts over, with a new map. *)
MountAgain ==
  /\ mounts <= MaxClicks
  /\ mounts' = mounts + 1 /\ camera' = FreshView
  /\ UNCHANGED <<pinVars, flights>>

ViewNext == (\E p \in Places : toLocation(p)) \/ watchPosition \/ handleRecenter \/ Located \/ MountAgain

-----------------------------------------------------------------------------
MapTypeOK ==
  /\ pinMap \in [pin : Places \cup {Origin, Nowhere}, radius : {"least", "drawn"}, grip : Grips]
  /\ lookups \subseteq [n : 1..MaxClicks, place : Places]
  /\ looked \in 0..MaxClicks /\ mounts \in 1..MaxClicks + 1 /\ flights \in Nat
  /\ camera \in [at : Places \cup {"city", "user"}, user : BOOLEAN, centered : BOOLEAN, locating : BOOLEAN]

(* However often the user's place is told, and whichever of the watch and  *)
(* the button finds it, the watch moves the view of a map once only, and   *)
(* not at all once the button has: the user looks where the pin is         *)
(* dropped, not where he stands.                                           *)
WatchMovesOnce == flights <= mounts /\ (camera.user => camera.centered)

(* A pin that is not where the form has it is on its way to the form.      *)
(* Addresses may arrive in any order: the map then goes back to the place  *)
(* whose address came last, and so does the form.                          *)
PinHasItsLookup(formPin) ==
  pinMap.pin \in Places /\ pinMap.pin # formPin => \E l \in lookups : l.place = pinMap.pin
=============================================================================
