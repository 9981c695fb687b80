--------------------------- MODULE FirePerimeters ---------------------------
(***************************************************************************)
(* The live perimeters that the browser draws around the verified fires    *)
(* (app/frontend/src/lib/fireGrowth.ts and the part of                     *)
(* components/firefighter/FireMap.tsx that drives it).                     *)
(*                                                                         *)
(* A perimeter is recomputed from nothing at every frame: from the age of  *)
(* the fire, the weather of the moment, the slope, and the status of the   *)
(* report with the time of its last change.  Overlapping perimeters are    *)
(* merged, and each shape is cut along the water near the fires; which     *)
(* water is near is worked out when the weather, the fires or the water    *)
(* change, not at every frame.                                             *)
(*                                                                         *)
(* The map is a line: downwind is up.  A place is a number, a shape a set  *)
(* of places.  Of the noise of the outline the part that is fixed for a    *)
(* fire is kept; the ripple of 8 % that drifts with time is left out.      *)
(***************************************************************************)
EXTENDS Integers, FiniteSets, SequencesExt

CONSTANTS
  FireList,       \* the verified fires, in the order of the list
  Place, Size,    \* where each fire is, and its radius at the report (initialRadiusKm)
  Ignited,        \* when it was reported
  Noise,          \* the noise of its outline, in percent
  Slope,          \* its terrain bias: a factor uphill and downhill, in percent
  Weathers,       \* [wind, dry]: what the weather may be
  DefaultWeather, \* DEFAULT_ENVIRONMENT, until the weather is known
  Dams, Rivers,   \* water bodies
  Shore,          \* the places a dam covers, or the line of a river
  MaxRadius,      \* MAX_RADIUS_KM
  BaseRate,       \* BASE_ROS_KM_PER_MIN
  EaseInTime,     \* EASE_IN_MINS
  FadeTime,       \* EXTINGUISH_FADE_MIN
  MaxClock, MaxChanges, MaxMoves   \* bounds: time, changes of a report, moves of the map

LiveFires == ToSet(FireList)
Water == Dams \cup Rivers

ASSUME PerimetersAssumption ==
  /\ FireList \in Seq(LiveFires) /\ IsInjective(FireList)
  /\ \A f \in LiveFires :
       /\ Place[f] \in Int /\ Size[f] \in Nat /\ Ignited[f] \in 0..MaxClock /\ Noise[f] \in 0..200
       /\ Slope[f].up \in Nat /\ Slope[f].down \in Nat
  /\ DefaultWeather \in Weathers
  /\ \A w \in Weathers : w.wind \in Nat /\ w.dry \in 0..100
  /\ \A b \in Water : Shore[b] \subseteq Int /\ Shore[b] # {} /\ IsFiniteSet(Shore[b])
  /\ {MaxRadius, BaseRate, EaseInTime, FadeTime} \subseteq Nat \ {0}
  /\ {MaxClock, MaxChanges, MaxMoves} \subseteq Nat

VARIABLES
  clock,
  report,     \* of each fire: its status, when the report last changed, whether it is merged
  weather,    \* fireEnvironment
  biased,     \* the fires whose terrain bias is known
  water,      \* the water bodies that are loaded
  blocking,   \* combinedWaterShape: the water bodies that were near a fire ...
  blockingAt, \* ... and when that was worked out
  moving,     \* the map is being moved
  frame,      \* what is drawn, and what it was computed from
  changes, moves

perimeterVars == <<clock, report, weather, biased, water, blocking, blockingAt, moving, frame,
                   changes, moves>>

PMin(a, b) == IF a < b THEN a ELSE b
PMax(a, b) == IF a > b THEN a ELSE b

-----------------------------------------------------------------------------
(* How far a fire has grown. *)

windSpeedFactor(wind) ==
  CASE wind <= 5 -> 100 [] wind \in 6..15 -> 110 [] wind \in 16..25 -> 125
    [] wind \in 26..40 -> 140 [] OTHER -> 150
drynessFactor(w) == 40 + (120 * w.dry) \div 100
HeadRate(w) == BaseRate * windSpeedFactor(w.wind) * drynessFactor(w)

(* 1 - exp(-elapsed / EASE_IN_MINS), in percent, by a fraction that rises likewise. *)
easeIn(elapsed) == (100 * elapsed) \div (elapsed + EaseInTime)

headDistance(f, w, elapsed) ==
  PMin(Size[f] + (HeadRate(w) * elapsed * easeIn(elapsed)) \div 1000000, PMax(MaxRadius, Size[f]))

(* The age that counts for growth: it runs while the fire is active, stops *)
(* at the last change of a contained fire, and runs back to 0 while an     *)
(* extinguished one fades.                                                 *)
LiveAge(f, now) == PMax(0, now - Ignited[f])
FrozenAge(f, r) == PMax(0, r.changed - Ignited[f])
FadeLeft(r, now) == FadeTime - PMin(FadeTime, PMax(0, now - r.changed))
\* (fault) A contained fire keeps growing.
GrowthAgeLive(f, r, now) ==
  IF r.status = "extinguished" THEN (PMin(LiveAge(f, now), FrozenAge(f, r)) * FadeLeft(r, now)) \div FadeTime
  ELSE LiveAge(f, now)
GrowthAge(f, r, now) ==
  CASE r.status = "active" -> LiveAge(f, now)
    [] r.status = "contained" -> PMin(LiveAge(f, now), FrozenAge(f, r))
    [] r.status = "extinguished" ->
         (PMin(LiveAge(f, now), FrozenAge(f, r)) * FadeLeft(r, now)) \div FadeTime
\* (fault) An extinguished fire is never left out.
GoneNever(r, now) == FALSE
Gone(r, now) == r.status = "extinguished" /\ FadeLeft(r, now) = 0

terrainFactorAt(f, way, known) == IF f \in known THEN Slope[f][way] ELSE 100

(* The outline: the head downwind, and 15 % of the growth upwind. *)
backDistance(f, head) == Size[f] + (15 * (head - Size[f])) \div 100
OutlineRadius(f, base, way, known) ==
  PMin((13 * PMax(MaxRadius, Size[f])) \div 10,
       PMax(0, (base * terrainFactorAt(f, way, known) * Noise[f]) \div 10000))
FirePolygon(f, r, w, now, known) ==
  LET head == headDistance(f, w, GrowthAge(f, r, now))
  IN  (Place[f] - OutlineRadius(f, backDistance(f, head), "down", known))
        .. (Place[f] + OutlineRadius(f, head, "up", known))

(* What the filter of water bodies takes for the reach of a fire. *)
estimateMaxReach(f, r, w, now) ==
  (13 * headDistance(f, w, GrowthAge(f, r, now))) \div 10 + 1

-----------------------------------------------------------------------------
(* Shapes. *)

Touch(a, b) == a \cap b # {}

(* Each outline joins the first group it touches. *)
JoinFirst(outline, groups, f) ==
  LET hit == {k \in DOMAIN groups : \E g \in groups[k] : Touch(outline[g], outline[f])}
  IN  IF hit = {} THEN Append(groups, {f}) ELSE [groups EXCEPT ![Min(hit)] = @ \cup {f}]
mergeOverlappingFires(outline) ==
  LET groupsOf[n \in 0..Len(FireList)] ==
        IF n = 0 THEN <<>>
        ELSE IF outline[FireList[n]] = {} THEN groupsOf[n - 1]
        ELSE JoinFirst(outline, groupsOf[n - 1], FireList[n])
  IN  groupsOf[Len(FireList)]

RiverBuffer(line) == UNION {(p - 1)..(p + 1) : p \in line}
Span(b) == IF b \in Rivers THEN RiverBuffer(Shore[b]) ELSE Shore[b]
unionWaterPolygons(bodies) == UNION {Span(b) : b \in bodies}

PartOf(shape, p) == {q \in shape : (PMin(p, q)..PMax(p, q)) \subseteq shape}
Parts(shape) == {PartOf(shape, p) : p \in shape}
Centroid(shape) == (Min(shape) + Max(shape)) \div 2
(* A shape cut along the water keeps the part around its centre, or the    *)
(* largest; one that is water altogether is drawn whole.                   *)
\* (fault) All its parts are kept, and the water between them.
ClipHull(shape, wet) == IF shape \ wet = {} THEN shape ELSE Min(shape \ wet)..Max(shape \ wet)
clipToLand(shape, wet) ==
  LET dry == shape \ wet
  IN  IF dry = {} THEN shape
      ELSE IF Centroid(shape) \in dry THEN PartOf(dry, Centroid(shape))
      ELSE CHOOSE p \in Parts(dry) : \A q \in Parts(dry) : Cardinality(p) >= Cardinality(q)

-----------------------------------------------------------------------------
(* The map's side. *)

growableFires(reports) == {f \in LiveFires : Size[f] > 0 /\ ~reports[f].merged}
(* The bounding box of the body, padded by the reach. *)
isNearAnyFire(b, reports, w, now) ==
  \E f \in growableFires(reports) :
     LET pad == estimateMaxReach(f, reports[f], w, now)
     IN  Place[f] \in (Min(Shore[b]) - pad)..(Max(Shore[b]) + pad)
NearbyWater(bodies, reports, w, now) ==
  {b \in bodies : isNearAnyFire(b, reports, w, now)}

NoFrame == [drawn |-> FALSE, outline |-> [f \in LiveFires |-> {}], at |-> 0, report |-> report, weather |-> DefaultWeather,
            biased |-> {}, water |-> {}, blocking |-> {}, blockingAt |-> 0]
Frame(now) ==
  [drawn |-> TRUE,
   outline |-> [f \in LiveFires |->
                  IF f \in growableFires(report') /\ ~Gone(report'[f], now)
                  THEN FirePolygon(f, report'[f], weather', now, biased') ELSE {}],
   at |-> now, report |-> report', weather |-> weather', biased |-> biased', water |-> water',
   blocking |-> blocking', blockingAt |-> blockingAt']
\* (fault) The frame is of the next tick.
pushFrameAhead == frame' = IF moving' THEN frame ELSE Frame(clock' + 1)
(* The frame is pushed unless the map is being moved. *)
pushFrame ==
  frame' = IF growableFires(report') = {} THEN [NoFrame EXCEPT !.report = report']
           ELSE IF moving' THEN frame
           ELSE Frame(clock')

Groups == mergeOverlappingFires(frame.outline)
Shape(group) ==
  clipToLand(UNION {frame.outline[f] : f \in group}, unionWaterPolygons(frame.blocking))

-----------------------------------------------------------------------------
Reports == [status : {"active", "contained", "extinguished"}, changed : 0..MaxClock, merged : BOOLEAN]
PerimetersTypeOK ==
  /\ clock \in 0..MaxClock
  /\ report \in [LiveFires -> Reports]
  /\ weather \in Weathers
  /\ biased \subseteq LiveFires
  /\ water \subseteq Water
  /\ blocking \subseteq water
  /\ blockingAt \in 0..clock
  /\ moving \in BOOLEAN
  /\ frame.at \in 0..clock
  /\ frame.blocking \subseteq frame.water /\ frame.water \subseteq water
  /\ changes \in 0..MaxChanges
  /\ moves \in 0..MaxMoves

PerimetersInit ==
  /\ clock = Max({0} \cup {Ignited[f] : f \in LiveFires})
  /\ report = [f \in LiveFires |-> [status |-> "active", changed |-> Ignited[f], merged |-> FALSE]]
  /\ weather = DefaultWeather
  /\ biased = {}
  /\ water = {}
  /\ blocking = {}
  /\ blockingAt = 0
  /\ moving = FALSE
  /\ frame = NoFrame
  /\ changes = 0
  /\ moves = 0

(* The interval timer of the effect.  The effect starts over, with a frame *)
(* at once, when the fires, the weather or a bias change; the water of the *)
(* moment is read through a ref.                                           *)
GrowthTick ==
  /\ clock' = PMin(clock + 1, MaxClock)
  /\ UNCHANGED <<report, weather, biased, water, blocking, blockingAt, moving, changes, moves>>
  /\ pushFrame

Recompute == blocking' = NearbyWater(water', report', weather', clock) /\ blockingAt' = clock

(* useLiveFireEnvironment has an answer; one that says the same changes nothing. *)
WeatherArrives(w) ==
  /\ w # weather
  /\ weather' = w
  /\ UNCHANGED <<clock, report, biased, water, moving, changes, moves>>
  /\ Recompute
  /\ pushFrame

(* The biases of all the fires that had none are set together, without the *)
(* ones that could not be fetched.                                         *)
BiasArrives(some) ==
  /\ biased = {} /\ some # {}
  /\ biased' = some
  /\ UNCHANGED <<clock, report, weather, water, blocking, blockingAt, moving, changes, moves>>
  /\ pushFrame

(* Water bodies come with the tiles and from OpenStreetMap. *)
WaterArrives(b) ==
  /\ b \notin water
  /\ water' = water \cup {b}
  /\ UNCHANGED <<clock, report, weather, biased, moving, frame, changes, moves>>
  /\ Recompute

(* The list of reports comes anew.  The time of the last change is the     *)
(* row's updated_at: every update of the row moves it.                     *)
ReportChanges(f, r) ==
  /\ changes < MaxChanges
  /\ clock + FadeTime < MaxClock
  /\ report' = [report EXCEPT ![f] = r]
  /\ changes' = changes + 1
  /\ UNCHANGED <<clock, weather, biased, water, moving, moves>>
  /\ Recompute
  /\ pushFrame
StatusSet(f, status) == ReportChanges(f, [report[f] EXCEPT !.status = status, !.changed = clock])
Merged(f) == ~report[f].merged /\ ReportChanges(f, [report[f] EXCEPT !.merged = TRUE, !.changed = clock])

MapMoves ==
  /\ ~moving /\ moves < MaxMoves
  /\ moving' = TRUE
  /\ moves' = moves + 1
  /\ UNCHANGED <<clock, report, weather, biased, water, blocking, blockingAt, frame, changes>>
MapRests ==
  /\ moving
  /\ moving' = FALSE
  /\ UNCHANGED <<clock, report, weather, biased, water, blocking, blockingAt, frame, changes, moves>>

PerimetersNext ==
  \/ GrowthTick
  \/ \E w \in Weathers : WeatherArrives(w)
  \/ \E some \in SUBSET LiveFires : BiasArrives(some)
  \/ \E b \in Water : WaterArrives(b)
  \/ \E f \in LiveFires : \/ \E s \in {"active", "contained", "extinguished"} : StatusSet(f, s)
                      \/ Merged(f)
  \/ MapMoves \/ MapRests

(* The interval fires while the page is open, and the user lets go of the  *)
(* map.                                                                    *)
PerimetersFairness == WF_perimeterVars(GrowthTick) /\ WF_perimeterVars(MapRests)

-----------------------------------------------------------------------------
ListPlace(f) == CHOOSE i \in DOMAIN FireList : FireList[i] = f

(* The groups drawn together are sets of perimeters that hang together,    *)
(* each fire in one of them; two shapes overlap only where the later fire  *)
(* of the list is in the earlier group, being the bridge between the two   *)
(* (mergeOverlappingFires).                                                *)
GroupsAreBridged ==
  LET shown == {f \in LiveFires : frame.outline[f] # {}}
  IN  /\ UNION ToSet(Groups) = shown
      /\ \A k \in DOMAIN Groups :
           /\ \A part \in (SUBSET Groups[k]) \ {{}, Groups[k]} :
                \E f \in part, g \in Groups[k] \ part : Touch(frame.outline[f], frame.outline[g])
           /\ \A l \in (k + 1)..Len(Groups) :
                /\ Groups[k] \cap Groups[l] = {}
                /\ \A f \in Groups[k], g \in Groups[l] :
                     Touch(frame.outline[f], frame.outline[g]) => ListPlace(f) > ListPlace(g)

(* A shape is not drawn over water that is loaded, unless it is water      *)
(* altogether, the water was measured at an earlier time than the frame's, *)
(* or slope and noise stretch a fire beyond the 30 % that the filter of    *)
(* the water bodies allows for (estimateMaxReachKm, clipToLand).           *)
ShoreHolds ==
  \A k \in DOMAIN Groups, b \in frame.water :
     /\ Touch(Shape(Groups[k]), Span(b))
     /\ frame.blockingAt = frame.at
     /\ \A f \in Groups[k] : \A way \in {"up", "down"} :
          (IF f \in frame.biased THEN Slope[f][way] ELSE 100) * Noise[f] <= 13000
     => Shape(Groups[k]) \subseteq unionWaterPolygons(frame.blocking)

(* While the weather, the bias and the report of a fire stay what they     *)
(* are, its perimeter moves one way from frame to frame: an active fire    *)
(* grows, a contained one stays, and an extinguished one shrinks and does  *)
(* not come back (effectiveGrowthState).                                   *)
PerimetersMoveOneWay ==
  [][\A f \in LiveFires :
       LET old == frame.outline[f]  new == frame'.outline[f]
       IN  /\ frame.drawn /\ frame'.drawn /\ frame.weather = frame'.weather
           /\ f \in frame.biased <=> f \in frame'.biased
           /\ frame.report[f] = frame'.report[f]
           => CASE frame.report[f].status = "active" -> old \subseteq new
                [] frame.report[f].status = "contained" -> old = new
                [] frame.report[f].status = "extinguished" -> new \subseteq old]_perimeterVars

(* A fire that is extinguished leaves the map, however the map is moved    *)
(* meanwhile (pushFrame skips the frames of a moving map).                 *)
ExtinguishedFiresGo ==
  \A f \in LiveFires : report[f].status = "extinguished" ~>
     (frame.outline[f] = {} \/ report[f].status # "extinguished")

(* "polygonal water bodies (dams/lakes) used to clip fire growth so it     *)
(* stops at a shoreline instead of drawing over it" (FireMap.tsx:313):     *)
(* what is drawn of a fire is not beyond water from where the fire is.     *)
StopsAtTheShore ==
  \A k \in DOMAIN Groups :
     Cardinality(Groups[k]) = 1 =>
       \A f \in Groups[k], p \in Shape(Groups[k]) :
          (PMin(p, Place[f])..PMax(p, Place[f])) \cap unionWaterPolygons(frame.blocking) = {}
=============================================================================
