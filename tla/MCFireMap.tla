----------------------------- MODULE MCFireMap -----------------------------
(* An instance for TLC of the modules behind the firefighter's pages, in   *)
(* scenes of their own: the growing perimeters, the water, the questions   *)
(* to the server with the terrain bias and the user's place, the map as it *)
(* is looked at and drawn on, the browser without a network, and the       *)
(* simulation page: asking for and playing simulations, drawing and        *)
(* removing lines, and the whole page with one suggested line.             *)
EXTENDS FirePerimeters, MapWater, LiveQueries, FireMapView, OfflineClient, SimulationPage, TLC

CONSTANTS f1, f2, f3, dam, river, v1, v2, v3, g1, g2, g3, g4, c1, c2, l1, l2, s1

(* f3 lies between f1 and f2 and comes after them in the list. *)
List == <<f1, f2, f3>>
PlaceOf == (f1 :> 0) @@ (f2 :> 12) @@ (f3 :> 6)
SizeOf == (f1 :> 2) @@ (f2 :> 2) @@ (f3 :> 1)
IgnitedAt == (f1 :> 0) @@ (f2 :> 1) @@ (f3 :> 0)
NoiseOf == (f1 :> 100) @@ (f2 :> 123) @@ (f3 :> 90)
SlopeOf == (f1 :> [up |-> 105, down |-> 90]) @@ (f2 :> [up |-> 60, down |-> 200])
           @@ (f3 :> [up |-> 100, down |-> 100])
Calm == [wind |-> 0, dry |-> 0]
CalmOrDry == {Calm, [wind |-> 30, dry |-> 100]}
ShoreOf == (dam :> (4..5)) @@ (river :> {9})

Tiles == (v1 :> {g1, g2}) @@ (v2 :> {g2, g3, g4}) @@ (v3 :> {g1, g2, g3, g4})
Body == (g1 :> g1) @@ (g2 :> g2) @@ (g3 :> g2) @@ (g4 :> g4)
Area == (g1 :> 2) @@ (g2 :> 1) @@ (g3 :> 1) @@ (g4 :> 1)
Named == (g1 :> g1) @@ (g2 :> NoName) @@ (g3 :> g2) @@ (g4 :> g4)
Bounds == (v1 :> {v1}) @@ (v2 :> {v2}) @@ (v3 :> {v1, v2, v3})

SamePlace == (f1 :> v1) @@ (f2 :> v1) @@ (f3 :> v2)
Found == (v1 :> <<f1, f2>>) @@ (v2 :> <<f2, f3>>)
ShortAndLong ==
  {<<>>, <<<<[c \in Cells |-> 0]>>, <<[c \in Cells |-> 1], [c \in Cells |-> IF c = c1 THEN 2 ELSE 1]>>>>}

(* One fire has a prediction of one length or another; all of them have    *)
(* predictions of different lengths; a group has one of its own.           *)
Burns(burning, burned) == [burning |-> burning, burned |-> burned]
Brief == <<Burns(1, 0)>>
Medium == <<Burns(1, 0), Burns(1, 1)>>
Lasting == <<Burns(1, 0), Burns(2, 1), Burns(0, 3)>>
AnyOutcome ==
  [s \in Subjects |->
     IF s = {} THEN {<<Brief, Lasting>>}
     ELSE IF Cardinality(s) = 1 THEN {<<Brief>>, <<Lasting>>} ELSE {<<Medium>>}]
NearFire == (l1 :> f1) @@ (l2 :> f2) @@ (s1 :> f1)

VARIABLE scene

sceneVars == <<perimeterVars, waterVars, queryVars, biasVars, placeVars, viewVars, offlineVars>>
allVars == <<sceneVars, pageVars>>
PageScenes == {"runs", "lines", "accept"}

(* Two scenes for the perimeters: with weather, bias and water, and with    *)
(* the reports and the map alone, where time is fair.                      *)
(* A scene that is not played starts in one state only. *)
SceneInit ==
  /\ scene \in {"growth", "fade", "water", "queries", "bias", "place", "look", "draw", "queue", "list"} \cup PageScenes
  /\ scene # "water" => view = v1
  /\ scene # "queries" => hook = "search"
  /\ scene # "place" => here = v1
  /\ scene \notin {"look"} => offered = {}
  /\ scene # "list" => incidents = {}
MapInit ==
  /\ PerimetersInit /\ WaterInit /\ QueryInit /\ BiasInit /\ PlaceInit /\ ViewInit /\ OfflineInit
  /\ PageInit
  /\ SceneInit

(* The growth scene: the biases of f1 and f2 come, the dam before the       *)
(* river, and the wind rises once.                                         *)
GrowthScene ==
  /\ PerimetersNext
  /\ IF scene = "fade" THEN UNCHANGED <<weather, biased, water>> ELSE weather # Calm => weather' # Calm
  /\ biased' \in {{}, {f1, f2}}
  /\ water' \in {{}, {dam}, {dam, river}}

RunsScene ==
  /\ \/ /\ RunStep \/ ChoiceStep \/ HandleClear
           \/ \E f \in Fires \cup {NoFire} : SelectFire(f)
        /\ ProgressEffect
     \/ PollAnswers
  /\ UNCHANGED listVars
LinesScene ==
  /\ LineStep \/ ClearAll \/ Leave \/ \E f \in Fires \cup {NoFire} : ChooseFire(f)
  /\ ProgressEffect
AcceptScene ==
  /\ \/ (RunStep \/ SuggestStep) /\ UNCHANGED listVars
     \/ LinesArrive \/ \E l \in Proposals : ServerStores(l)
     \/ JointStep
  /\ ProgressEffect

MapNext ==
  /\ UNCHANGED scene
  /\ \/ scene \in {"growth", "fade"} /\ GrowthScene
        /\ UNCHANGED <<waterVars, queryVars, biasVars, placeVars, viewVars, offlineVars, pageVars>>
     \/ scene = "water" /\ WaterNext
        /\ UNCHANGED <<perimeterVars, queryVars, biasVars, placeVars, viewVars, offlineVars, pageVars>>
     \/ scene = "queries" /\ QueryNext
        /\ UNCHANGED <<perimeterVars, waterVars, biasVars, placeVars, viewVars, offlineVars, pageVars>>
     \/ scene = "bias" /\ BiasNext
        /\ UNCHANGED <<perimeterVars, waterVars, queryVars, placeVars, viewVars, offlineVars, pageVars>>
     \/ scene = "place" /\ PlaceNext
        /\ UNCHANGED <<perimeterVars, waterVars, queryVars, biasVars, viewVars, offlineVars, pageVars>>
     \/ scene \in {"look", "draw"} /\ (IF scene = "look" THEN LookStep ELSE DrawStep)
        /\ UNCHANGED <<perimeterVars, waterVars, queryVars, biasVars, placeVars, offlineVars, pageVars>>
     \/ scene \in {"queue", "list"} /\ (IF scene = "queue" THEN QueueStep \/ NetStep \/ BarStep ELSE MapStep \/ NetStep)
        /\ UNCHANGED <<perimeterVars, waterVars, queryVars, biasVars, placeVars, viewVars, pageVars>>
     \/ scene \in PageScenes
        /\ \/ scene = "runs" /\ RunsScene
           \/ scene = "lines" /\ LinesScene
           \/ scene = "accept" /\ AcceptScene
        /\ UNCHANGED sceneVars

(* PerimetersFairness, QueryFairness and WorkspaceFairness, each in its    *)
(* scenes.                                                                 *)
MapFairness ==
  /\ WF_perimeterVars(scene = "fade" /\ GrowthTick) /\ WF_perimeterVars(scene = "fade" /\ MapRests)
  /\ WF_queryVars(scene = "queries" /\ \E n \in DOMAIN requests : Answer(n) \/ Fail(n))
  /\ WF_queryVars(scene = "queries" /\ useDebounce)
  /\ WF_workspaceVars(scene \in PageScenes /\ PlayTick /\ ProgressEffect)
MapSpec == MapInit /\ [][MapNext]_<<scene, allVars>> /\ MapFairness

-----------------------------------------------------------------------------
TypeOK == /\ PerimetersTypeOK /\ WaterTypeOK /\ QueryTypeOK /\ ViewTypeOK /\ OfflineTypeOK /\ PageTypeOK

(* The perimeters: see GroupsAreBridged and ShoreHolds. *)
PerimetersHold == scene \in {"growth", "fade"} => GroupsAreBridged /\ ShoreHolds

(* What the map is given is what it shows: see WaterIsOfTheView,           *)
(* OsmIsOfItsBounds, ShownAnswerIsAsked, NobodyWaitsForNothing,            *)
(* GuestToldOnce and MapFollowsThePage.                                    *)
MapShowsItsData ==
  /\ scene = "water" => WaterIsOfTheView /\ OsmIsOfItsBounds
  /\ scene \in {"queries", "bias", "place"} => ShownAnswerIsAsked /\ NobodyWaitsForNothing /\ GuestToldOnce
  /\ scene \in {"look", "draw"} => MapFollowsThePage

(* The simulation page: see RunsAreOurs, PlaybackFits and ListSettles. *)
PageHolds == scene \in PageScenes => RunsAreOurs /\ PlaybackFits /\ ListSettles

(* Without a network: see QueueIsKept, BarIsFair and MapIsUpToDate. *)
OfflineHolds == scene \in {"queue", "list"} => QueueIsKept /\ BarIsFair /\ MapIsUpToDate

(* Perimeters and the area of a playback move one way: see                 *)
(* PerimetersMoveOneWay and AreaOnlyGrows.                                 *)
PicturesMoveOneWay == PerimetersMoveOneWay /\ AreaOnlyGrows

(* An extinguished fire leaves the map, a loading mark goes out, and a     *)
(* playback comes to its end: see ExtinguishedFiresGo, LoadingEnds and     *)
(* PlaybackEnds.                                                           *)
MapCatchesUp == (scene = "fade" => ExtinguishedFiresGo) /\ LoadingEnds /\ PlaybackEnds
=============================================================================
