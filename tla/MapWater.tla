------------------------------ MODULE MapWater ------------------------------
(***************************************************************************)
(* The water on the firefighter's map: the bodies found in the map's own   *)
(* tiles (app/frontend/src/hooks/useWaterBodies.ts) and those asked of     *)
(* OpenStreetMap through the server (hooks/useDamsFromOSM.ts).             *)
(*                                                                         *)
(* The tiles are searched 300 ms after the map has come to rest, when it   *)
(* may be moving again, with its tiles half loaded.  A view that was       *)
(* searched with all its tiles is not searched again.  OpenStreetMap is    *)
(* asked 600 ms after a move, unless the view lies within the bounds of    *)
(* the last answer; of several requests the newest counts.                 *)
(*                                                                         *)
(* A view stands for a centre and a zoom as viewKey rounds them.  A tile   *)
(* holds fragments of water bodies, which are joined where they touch.     *)
(***************************************************************************)
EXTENDS Integers, FiniteSets, FiniteSetsExt

CONSTANTS
  Views, FarViews,   \* the views, and those below MIN_DETECT_ZOOM
  Fragments,         \* polygons of the water layer
  InView,            \* the fragments that all tiles of a view hold
  BodyOf, AreaOf, NameOf, NoName,   \* of a fragment
  minArea, MaxFragments,            \* minAreaM2, MAX_FRAGMENTS_TO_MERGE
  Within,            \* the views within the bounds that are asked for from a view
  MaxViewMoves,      \* bound: moves of the map
  NoView

ASSUME WaterAssumption ==
  /\ FarViews \subseteq Views /\ NoView \notin Views
  /\ \A v \in Views : v \in Within[v] /\ InView[v] \subseteq Fragments
  /\ minArea \in Nat /\ MaxFragments \in Nat /\ MaxViewMoves \in Nat

VARIABLES
  view,
  tilesLoaded, styleLoaded,
  idleDue,      \* the map has not reported yet that it has come to rest
  detectTimer, fetchTimer,
  lastViewKey,
  waterBodies,  \* what is shown: parts, each a set of fragments
  signed,       \* lastSigRef: something has been found since the last clearing
  partly,       \* what is shown was found with half the tiles, after lastViewKey was written
  asking,       \* the requests in flight: their bounds, by number
  requestId,
  osmLoading,
  lastBounds,   \* lastQueriedBounds: the view they were asked from
  osmWater,     \* the view whose answer is shown
  viewMoves

tileVars == <<detectTimer, lastViewKey, waterBodies, signed, partly>>
osmVars == <<fetchTimer, asking, requestId, osmLoading, lastBounds, osmWater>>
mapMoveVars == <<view, tilesLoaded, styleLoaded, idleDue, viewMoves>>
waterVars == <<tileVars, osmVars, mapMoveVars>>

(* Fragments that touch are joined, unless there are too many of them;     *)
(* small parts are left out.                                               *)
mergeFragments(found) ==
  IF Cardinality(found) > MaxFragments THEN {{f} : f \in found}
  ELSE {{f \in found : BodyOf[f] = BodyOf[g]} : g \in found}
Bodies(found) == {p \in mergeFragments(found) : MapThenSumSet(LAMBDA f : AreaOf[f], p) >= minArea}
(* A joined part is called by a name one of its fragments has. *)
nameForPart(part) ==
  LET names == {NameOf[f] : f \in part} \ {NoName}
  IN  IF names = {} THEN NoName ELSE CHOOSE n \in names : TRUE
(* Of the bodies OpenStreetMap knows those go that have a name on the map. *)
mergeWater(parts, osm) == parts \cup {p \in osm : nameForPart(p) \notin {nameForPart(q) : q \in parts} \ {NoName}}
combinedWater ==
  mergeWater(waterBodies, IF osmWater = NoView THEN {} ELSE Bodies(UNION {InView[v] : v \in Within[osmWater]}))

WaterTypeOK ==
  /\ view \in Views
  /\ {tilesLoaded, styleLoaded, idleDue, detectTimer, fetchTimer, signed, partly, osmLoading} \subseteq BOOLEAN
  /\ lastViewKey \in Views \cup {NoView}
  /\ UNION waterBodies \subseteq Fragments
  /\ requestId \in Nat
  /\ DOMAIN asking \subseteq 1..requestId
  /\ lastBounds \in Views \cup {NoView} /\ osmWater \in Views \cup {NoView}
  /\ viewMoves \in 0..MaxViewMoves

WaterInit ==
  /\ view \in Views
  /\ tilesLoaded = FALSE
  /\ styleLoaded = FALSE
  /\ idleDue = TRUE
  /\ detectTimer = TRUE
  /\ fetchTimer = TRUE
  /\ lastViewKey = NoView
  /\ waterBodies = {}
  /\ signed = FALSE
  /\ partly = FALSE
  /\ asking = <<>>
  /\ requestId = 0
  /\ osmLoading = FALSE
  /\ lastBounds = NoView
  /\ osmWater = NoView
  /\ viewMoves = 0

-----------------------------------------------------------------------------
(* The map: a move asks for tiles; when they and the style are there, the  *)
(* map reports that it is idle.                                            *)
MoveTo(v) ==
  /\ v # view /\ viewMoves < MaxViewMoves
  /\ view' = v
  /\ viewMoves' = viewMoves + 1
  /\ tilesLoaded' = FALSE
  /\ idleDue' = TRUE
  /\ fetchTimer' = TRUE
  /\ UNCHANGED <<styleLoaded, tileVars, asking, requestId, osmLoading, lastBounds, osmWater>>
TilesLoad ==
  /\ ~tilesLoaded
  /\ tilesLoaded' = TRUE
  /\ UNCHANGED <<view, styleLoaded, idleDue, viewMoves, tileVars, osmVars>>
(* The style is not loaded while a source of the map takes new data. *)
StyleLoads ==
  /\ ~styleLoaded
  /\ styleLoaded' = TRUE
  /\ idleDue' = TRUE
  /\ UNCHANGED <<view, tilesLoaded, viewMoves, tileVars, osmVars>>
SourceUpdates ==
  /\ styleLoaded /\ viewMoves < MaxViewMoves
  /\ styleLoaded' = FALSE
  /\ viewMoves' = viewMoves + 1
  /\ UNCHANGED <<view, tilesLoaded, idleDue, tileVars, osmVars>>
scheduleDetect ==
  /\ idleDue /\ tilesLoaded /\ styleLoaded
  /\ idleDue' = FALSE
  /\ detectTimer' = TRUE
  /\ UNCHANGED <<view, tilesLoaded, styleLoaded, viewMoves, lastViewKey, waterBodies, signed, partly, osmVars>>

-----------------------------------------------------------------------------
(* useWaterBodies: detect. *)

ClearFarView ==
  IF signed
  THEN waterBodies' = {} /\ signed' = FALSE /\ lastViewKey' = NoView /\ partly' = FALSE
  ELSE UNCHANGED <<waterBodies, signed, lastViewKey, partly>>
Search(found) ==
  /\ lastViewKey' = IF tilesLoaded THEN view ELSE lastViewKey
  /\ partly' = ~tilesLoaded
  /\ waterBodies' = Bodies(found)
  /\ signed' = TRUE
detect ==
  /\ detectTimer
  /\ detectTimer' = FALSE
  /\ IF ~styleLoaded THEN UNCHANGED <<waterBodies, signed, lastViewKey, partly>>
     ELSE IF view \in FarViews THEN ClearFarView
     ELSE IF view = lastViewKey THEN UNCHANGED <<waterBodies, signed, lastViewKey, partly>>
     ELSE \E found \in SUBSET InView[view] : (tilesLoaded => found = InView[view]) /\ Search(found)
  /\ UNCHANGED <<mapMoveVars, osmVars>>

-----------------------------------------------------------------------------
(* useDamsFromOSM: maybeFetch. *)

maybeFetch ==
  /\ fetchTimer
  /\ fetchTimer' = FALSE
  /\ IF view \in FarViews \/ (lastBounds # NoView /\ view \in Within[lastBounds])
     THEN UNCHANGED <<asking, requestId, osmLoading>>
     ELSE /\ requestId' = requestId + 1
          /\ asking' = [n \in DOMAIN asking \cup {requestId + 1} |->
                          IF n = requestId + 1 THEN view ELSE asking[n]]
          /\ osmLoading' = TRUE
  /\ UNCHANGED <<mapMoveVars, tileVars, lastBounds, osmWater>>
Drop(n) == asking' = [m \in DOMAIN asking \ {n} |-> asking[m]]
\* (fault) An answer counts whether or not a newer request was made.
AnyAnswer(n) ==
  /\ Drop(n)
  /\ lastBounds' = asking[n]
  /\ osmWater' = asking[n]
  /\ osmLoading' = FALSE
  /\ UNCHANGED <<mapMoveVars, tileVars, fetchTimer, requestId>>
FetchAnswers(n) ==
  /\ Drop(n)
  /\ IF n = requestId
     THEN lastBounds' = asking[n] /\ osmWater' = asking[n] /\ osmLoading' = FALSE
     ELSE UNCHANGED <<lastBounds, osmWater, osmLoading>>
  /\ UNCHANGED <<mapMoveVars, tileVars, fetchTimer, requestId>>
FetchFails(n) ==
  /\ Drop(n)
  /\ osmLoading' = (osmLoading /\ n # requestId)
  /\ UNCHANGED <<mapMoveVars, tileVars, fetchTimer, requestId, lastBounds, osmWater>>

WaterNext ==
  \/ \E v \in Views : MoveTo(v)
  \/ TilesLoad \/ StyleLoads \/ SourceUpdates \/ scheduleDetect \/ detect \/ maybeFetch
  \/ \E n \in DOMAIN asking : FetchAnswers(n) \/ FetchFails(n)

-----------------------------------------------------------------------------
(* When the map is at rest with its tiles and the search is over, the      *)
(* bodies shown are those of the view, or none where it is too far away,   *)
(* except where the map left a view it had searched, was searched half     *)
(* loaded elsewhere, and came back: the view counts as searched (detect).  *)
WaterIsOfTheView ==
  (tilesLoaded /\ styleLoaded /\ ~idleDue /\ ~detectTimer) =>
     \/ waterBodies = (IF view \in FarViews THEN {} ELSE Bodies(InView[view]))
     \/ view = lastViewKey /\ partly

(* The bodies from OpenStreetMap are those of the bounds that are taken to *)
(* be covered, and the loading mark is on just while the newest request is *)
(* on its way (requestIdRef).                                              *)
OsmIsOfItsBounds ==
  /\ osmWater = lastBounds
  /\ osmLoading <=> requestId \in DOMAIN asking
=============================================================================
