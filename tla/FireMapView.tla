----------------------------- MODULE FireMapView -----------------------------
(***************************************************************************)
(* The firefighter's map as it is looked at and drawn on                   *)
(* (app/frontend/src/components/firefighter/FireMap.tsx): where the map is *)
(* centred, which fire its popup is of, the drawing of containment lines,  *)
(* and what it draws of the fires, a simulation and the lines.             *)
(*                                                                         *)
(* The page around the map holds the selected fire, the fires chosen for a *)
(* group and the lines; the map follows them by effects.                   *)
(***************************************************************************)
EXTENDS Integers, FiniteSets, Sequences

CONSTANTS
  MapFires, Resources, SavedPlaces, Nothing,
  Home,            \* DEFAULT_CENTER
  Here,            \* where the user is
  Histories,       \* what a simulation may be: for each fire or group its grids
  Cells,           \* the cells of a grid
  MaxTicks, MaxSteps   \* bounds: ticks of a simulation, steps of the user

ASSUME ViewAssumption ==
  /\ Nothing \notin MapFires
  /\ <<>> \in Histories /\ Histories \subseteq Seq(Seq([Cells -> Nat]))
  /\ MaxTicks \in Nat /\ MaxSteps \in Nat

VARIABLES
  active,          \* activeFires
  selectedRef,     \* selectedFireId of the page
  chosenRefs,      \* selectedFireIds
  groupMode,       \* multiSelectMode
  popup,           \* selectedFire
  camera,          \* what the map is centred on
  hasCentered,
  located,         \* the user's place is known
  tooltip,         \* the badge at the user's marker
  offered, picked, \* resources, selectedResourceId
  drawMode,        \* of the page
  tool,            \* of the drawing control: "none" before it is made
  sketch,          \* lines begun in the control
  completed,       \* lines handed to the page
  history,         \* the simulation that is shown
  tickShown,       \* currentTick
  steps

fireVars == <<active, selectedRef, chosenRefs, groupMode, popup>>
camVars == <<camera, hasCentered, located, tooltip, offered, picked>>
drawVars == <<drawMode, tool, sketch, completed>>
simVars == <<history, tickShown>>
viewVars == <<fireVars, camVars, drawVars, simVars, steps>>
Centres == {Home, Here} \cup MapFires \cup Resources \cup SavedPlaces

ViewTypeOK ==
  /\ active \subseteq MapFires
  /\ selectedRef \in MapFires \cup {Nothing}
  /\ chosenRefs \subseteq MapFires
  /\ popup \in MapFires \cup {Nothing}
  /\ camera \in Centres
  /\ {groupMode, hasCentered, located, tooltip, drawMode} \subseteq BOOLEAN
  /\ offered \subseteq Resources /\ picked \in Resources \cup {Nothing}
  /\ tool \in {"none", "simple_select", "draw_line_string"}
  /\ sketch \in BOOLEAN /\ completed \in Nat
  /\ history \in Histories /\ tickShown \in 0..MaxTicks
  /\ steps \in 0..MaxSteps

ViewInit ==
  /\ active = {}
  /\ selectedRef = Nothing
  /\ chosenRefs = {}
  /\ groupMode = FALSE
  /\ popup = Nothing
  /\ camera = Home
  /\ hasCentered = FALSE
  /\ located = FALSE
  /\ tooltip = FALSE
  /\ offered \in SUBSET Resources
  /\ picked = Nothing
  /\ drawMode = FALSE
  /\ tool = "none"
  /\ sketch = FALSE
  /\ completed = 0
  /\ history = <<>>
  /\ tickShown = 0
  /\ steps = 0

-----------------------------------------------------------------------------
(* What is drawn. *)

(* The cells that burn or have burned at the tick: of a simulation that    *)
(* has no grid for the tick, none.                                         *)
gridFeatures(h, t) ==
  UNION {IF t < Len(h[i]) THEN {[of |-> i, cell |-> c] : c \in {d \in Cells : h[i][t + 1][d] # 0}} ELSE {} :
         i \in DOMAIN h}
simulationShown == gridFeatures(history, tickShown) # {}
(* On the simulation pages the reported circles give way to a simulation.  *)
CirclesShown == IF simulationShown THEN {} ELSE active
MarkerOf(f) ==
  CASE f \in chosenRefs -> "chosen" [] f = selectedRef /\ f \notin chosenRefs -> "selected" [] OTHER -> "plain"

-----------------------------------------------------------------------------
(* The effects. *)

flyTo(place) == camera' = place
Follow(ref, fires) ==
  IF ref \in fires THEN flyTo(ref) /\ popup' = ref
  ELSE UNCHANGED camera /\ popup' = Nothing

Step == steps < MaxSteps /\ steps' = steps + 1

(* The list comes anew: a fire that is selected is flown to again. *)
FiresChange(fires) ==
  /\ Step
  /\ active' = fires
  /\ Follow(selectedRef, fires)
  /\ UNCHANGED <<selectedRef, chosenRefs, groupMode, hasCentered, located, tooltip, offered, picked, drawVars, simVars>>
SelectRef(ref) ==
  /\ Step
  /\ selectedRef' = ref
  /\ ref # selectedRef
  /\ Follow(ref, active)
  /\ UNCHANGED <<active, chosenRefs, groupMode, hasCentered, located, tooltip, offered, picked, drawVars, simVars>>
(* A marker: a click with Ctrl, or in the group mode, chooses; any other selects. *)
Toggle(ref) ==
  /\ Step
  /\ chosenRefs' = IF ref \in chosenRefs THEN chosenRefs \ {ref} ELSE chosenRefs \cup {ref}
  /\ UNCHANGED <<active, selectedRef, groupMode, popup, camVars, drawVars, simVars>>
MarkerClick(ref, ctrl) ==
  /\ ref \in active
  /\ IF groupMode \/ ctrl THEN Toggle(ref) ELSE SelectRef(ref)
SetGroupMode(on) ==
  /\ Step
  /\ groupMode' = on
  /\ UNCHANGED <<active, selectedRef, chosenRefs, popup, camVars, drawVars, simVars>>
ClosePopup ==
  /\ popup # Nothing
  /\ popup' = Nothing
  /\ selectedRef' = Nothing
  /\ UNCHANGED <<active, chosenRefs, groupMode, steps, camVars, drawVars, simVars>>

(* The user's place comes again and again; the map jumps to the first. *)
LocationEffect ==
  /\ Step
  /\ located' = TRUE
  /\ hasCentered' = TRUE
  /\ IF hasCentered THEN UNCHANGED camera ELSE flyTo(Here)
  /\ UNCHANGED <<tooltip, offered, picked, fireVars, drawVars, simVars>>
handleRecenter ==
  /\ Step
  /\ located
  /\ flyTo(Here)
  /\ UNCHANGED <<hasCentered, located, tooltip, offered, picked, fireVars, drawVars, simVars>>
FocusOn(place) ==
  /\ Step
  /\ hasCentered' = TRUE
  /\ flyTo(place)
  /\ UNCHANGED <<located, tooltip, offered, picked, fireVars, drawVars, simVars>>
(* A click beside the markers takes the badge and the resource back. *)
SelectResource(r) ==
  /\ Step
  /\ r # picked
  /\ picked' = r
  /\ IF r \in offered THEN flyTo(r) ELSE UNCHANGED camera
  /\ tooltip' = (tooltip /\ r # Nothing)
  /\ UNCHANGED <<hasCentered, located, offered, fireVars, drawVars, simVars>>
UserMarkerClick ==
  /\ located
  /\ Step
  /\ tooltip' = ~tooltip
  /\ UNCHANGED <<camera, hasCentered, located, offered, picked, fireVars, drawVars, simVars>>

-----------------------------------------------------------------------------
(* Drawing: the control is made when it is first wanted. *)

SetDrawMode(on) ==
  /\ Step
  /\ on # drawMode
  /\ drawMode' = on
  /\ tool' = IF on THEN "draw_line_string" ELSE IF tool = "none" THEN "none" ELSE "simple_select"
  /\ UNCHANGED <<sketch, completed, fireVars, camVars, simVars>>
BeginSketch ==
  /\ tool = "draw_line_string" /\ ~sketch
  /\ sketch' = TRUE
  /\ UNCHANGED <<drawMode, tool, completed, steps, fireVars, camVars, simVars>>
(* The line goes to the page; the control is emptied and lets go of the    *)
(* tool, whatever the page does about its mode.                            *)
handleDrawCreate ==
  /\ sketch /\ tool = "draw_line_string"
  /\ Step
  /\ completed' = completed + 1
  /\ sketch' = FALSE
  /\ tool' = "simple_select"
  /\ UNCHANGED <<drawMode, fireVars, camVars, simVars>>
ClearDrawings ==
  /\ Step
  /\ sketch' = FALSE
  /\ UNCHANGED <<drawMode, tool, completed, fireVars, camVars, simVars>>

Simulate(h, t) ==
  /\ Step
  /\ history' = h
  /\ tickShown' = t
  /\ UNCHANGED <<fireVars, camVars, drawVars>>

LookStep ==
  \/ \E fires \in SUBSET MapFires : FiresChange(fires)
  \/ \E ref \in MapFires, ctrl \in BOOLEAN : MarkerClick(ref, ctrl)
  \/ \E on \in BOOLEAN : SetGroupMode(on)
  \/ ClosePopup \/ LocationEffect \/ handleRecenter \/ UserMarkerClick
  \/ \E place \in SavedPlaces : FocusOn(place)
  \/ \E r \in Resources \cup {Nothing} : SelectResource(r)
DrawStep ==
  \/ \E on \in BOOLEAN : SetDrawMode(on)
  \/ BeginSketch \/ handleDrawCreate \/ ClearDrawings
  \/ \E fires \in SUBSET MapFires : FiresChange(fires)
  \/ \E h \in Histories, t \in 0..MaxTicks : Simulate(h, t)
ViewNext == LookStep \/ DrawStep

-----------------------------------------------------------------------------
(* The map follows the page.  The popup is of the fire the page has        *)
(* selected, just when that fire is on the map, however the list and the   *)
(* selection change; and the control draws only in the page's draw mode,   *)
(* with nothing of a line left in it outside (handleDrawCreate).  The fire *)
(* of the popup is marked, and the reported circles are drawn when the     *)
(* simulation has no grid for the tick.                                    *)
MapFollowsThePage ==
  /\ popup = IF selectedRef \in active THEN selectedRef ELSE Nothing
  /\ tool = "draw_line_string" => drawMode
  /\ drawMode /\ tool # "draw_line_string" => completed > 0
  /\ popup # Nothing => MarkerOf(popup) # "plain"
  /\ (\A i \in DOMAIN history : tickShown >= Len(history[i])) => CirclesShown = active
=============================================================================
