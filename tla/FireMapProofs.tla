--------------------------- MODULE FireMapProofs ---------------------------
(***************************************************************************)
(* Proofs about what MCFireMap plays, the firefighter's pages: the fires'  *)
(* perimeters (FirePerimeters), the water of the map (MapWater), the       *)
(* questions the pages ask (LiveQueries), the map itself (FireMapView),    *)
(* the browser without a network (OfflineClient) and the page of the       *)
(* simulations (SimulationWorkspace, SimulationPage): for any fires, water *)
(* and weather, any views, keys, incidents and actions, any simulations'   *)
(* histories and any lines.                                                *)
(*                                                                         *)
(* Each component has an invariant that its own steps keep, with a lemma   *)
(* of its own for each group of handlers; the scenes of MCFireMap share no *)
(* variable, so that MapInv, all of them together, is kept by every step.  *)
(***************************************************************************)
EXTENDS MCFireMap, WellFoundedInduction, FiniteSetTheorems, SequenceTheorems, TLAPS

-----------------------------------------------------------------------------
(***************************************************************************)
(* Numbers: least and greatest elements, products and quotients.           *)
(***************************************************************************)

(* A set of numbers has a least element. *)
LEMMA LeastNumber ==
  ASSUME NEW T, T \subseteq Nat, T # {}
  PROVE  \E x \in T : \A y \in T : x <= y
<1>1. IsWellFoundedOn(OpToRel(<, Nat), Nat)
  BY NatLessThanWellFounded
<1>2. PICK x \in T : \A y \in T : <<y, x>> \notin OpToRel(<, Nat)
  BY <1>1, WFMin
<1>3. \A y \in T : ~(y < x)
  BY <1>2 DEF OpToRel
<1>4. QED
  BY <1>3

LEMMA MinIsLeast ==
  ASSUME NEW T, T \subseteq Nat, T # {}
  PROVE  Min(T) \in T /\ \A y \in T : Min(T) <= y
BY LeastNumber DEF Min

(* A set of numbers that are bounded has a greatest element. *)
LEMMA GreatestNumber ==
  ASSUME NEW T, T \subseteq Nat, T # {}, NEW bound \in Nat, \A x \in T : x <= bound
  PROVE  \E x \in T : \A y \in T : y <= x
<1> DEFINE U == {u \in Nat : \A x \in T : x <= u}
<1>1. PICK u \in U : \A v \in U : u <= v
  <2>1. U \subseteq Nat /\ bound \in U
    OBVIOUS
  <2>2. QED
    BY <2>1, LeastNumber
<1>2. u \in T
  <2> SUFFICES ASSUME u \notin T PROVE FALSE
    OBVIOUS
  <2>1. \A x \in T : x \in Nat /\ x <= u /\ x # u
    BY <1>1
  <2>2. u # 0 /\ u \in Nat
    <3>1. PICK y \in T : TRUE
      OBVIOUS
    <3>2. y \in Nat /\ y <= u /\ y # u
      BY <2>1
    <3>3. u \in Nat
      OBVIOUS
    <3>4. QED
      BY <3>2, <3>3
  <2>3. u - 1 \in Nat /\ \A x \in T : x <= u - 1
    BY <2>1, <2>2
  <2>4. u <= u - 1
    BY <1>1, <2>3
  <2>5. QED
    BY <2>2, <2>4
<1>3. QED
  BY <1>1, <1>2

LEMMA MaxIsGreatest ==
  ASSUME NEW T, T \subseteq Nat, T # {}, NEW bound \in Nat, \A x \in T : x <= bound
  PROVE  Max(T) \in T /\ \A y \in T : y <= Max(T)
<1>1. PICK x \in T : \A y \in T : y <= x
  BY GreatestNumber
<1>2. \A y \in T : x >= y
  BY <1>1
<1>3. QED
  BY <1>2 DEF Max

(* Finitely many numbers are bounded. *)
LEMMA BoundedValues ==
  ASSUME NEW N \in Nat, NEW f, \A i \in 1..N : f[i] \in Nat
  PROVE  \E m \in Nat : \A i \in 1..N : f[i] <= m
<1> DEFINE T == {n \in 0..N : ~(\E m \in Nat : \A i \in 1..n : f[i] <= m)}
<1> SUFFICES T = {}
  <2>1. N \in 0..N
    OBVIOUS
  <2>2. QED
    BY <2>1
<1> SUFFICES ASSUME T # {} PROVE FALSE
  OBVIOUS
<1>1. T \subseteq Nat
  OBVIOUS
<1>2. PICK x \in T : \A y \in T : x <= y
  BY <1>1, LeastNumber
<1>3. x # 0
  <2>1. \A i \in 1..0 : f[i] <= 0
    OBVIOUS
  <2>2. 0 \notin T
    BY <2>1
  <2>3. QED
    BY <2>2
<1>4. x - 1 \in 0..N /\ x \in 1..N /\ x - 1 \notin T
  <2>1. x \in 0..N
    OBVIOUS
  <2>2. x - 1 \in 0..N /\ x \in 1..N /\ ~(x <= x - 1)
    BY <2>1, <1>3
  <2>3. x - 1 \notin T
    BY <1>2, <2>2
  <2>4. QED
    BY <2>2, <2>3
<1>5. PICK m \in Nat : \A i \in 1..(x - 1) : f[i] <= m
  BY <1>4
<1>6. f[x] \in Nat
  BY <1>4
<1>7. m + f[x] \in Nat /\ \A i \in 1..x : f[i] <= m + f[x]
  <2>1. ASSUME NEW i \in 1..x PROVE f[i] <= m + f[x]
    <3>1. i = x \/ i \in 1..(x - 1)
      BY <1>4
    <3>2. f[i] \in Nat
      BY <1>4
    <3>3. QED
      BY <1>5, <1>6, <3>1, <3>2
  <2>2. m + f[x] \in Nat
    BY <1>6
  <2>3. \A i \in 1..x : f[i] <= m + f[x]
    BY <2>1
  <2>4. QED
    BY <2>2, <2>3
<1>8. QED
  BY <1>2, <1>7

LEMMA MaxOfValues ==
  ASSUME NEW N \in Nat, NEW f, \A i \in 1..N : f[i] \in Nat
  PROVE  LET T == {f[i] : i \in 1..N} \cup {0} IN Max(T) \in T /\ \A y \in T : y <= Max(T)
<1> DEFINE T == {f[i] : i \in 1..N} \cup {0}
<1>1. PICK m \in Nat : \A i \in 1..N : f[i] <= m
  BY BoundedValues
<1>2. T \subseteq Nat /\ T # {} /\ \A x \in T : x <= m
  BY <1>1
<1> HIDE DEF T
<1>3. Max(T) \in T /\ \A y \in T : y <= Max(T)
  BY <1>2, MaxIsGreatest
<1>4. QED
  BY <1>3 DEF T

(* Products and quotients of greater numbers are greater. *)
LEMMA ProductGrows ==
  ASSUME NEW a \in Nat, NEW b \in Nat, NEW c \in Nat, NEW d \in Nat, a <= b, c <= d
  PROVE  a * c \in Nat /\ b * d \in Nat /\ a * c <= b * d
<1>1. b = a + (b - a) /\ b - a \in Nat /\ d = c + (d - c) /\ d - c \in Nat
  OBVIOUS
<1>2. ASSUME NEW x \in Nat, NEW y \in Nat PROVE x * y \in Nat
  BY <1>2
<1>3. ASSUME NEW e \in Nat, NEW g \in Nat PROVE (a + e) * (c + g) = a * c + (a * g + e * (c + g))
  BY <1>3
<1>4. ASSUME NEW e \in Nat, NEW g \in Nat PROVE a * c <= (a + e) * (c + g)
  <2>1. a * c \in Nat /\ a * g \in Nat /\ c + g \in Nat
    BY <1>2
  <2>2. e * (c + g) \in Nat
    BY <1>2, <2>1
  <2> DEFINE r == a * g + e * (c + g)
  <2>3. r \in Nat
    BY <2>1, <2>2
  <2> HIDE DEF r
  <2>4. a * c <= a * c + r
    BY <2>1, <2>3
  <2>5. QED
    BY <1>3, <2>4 DEF r
<1>5. a * c <= b * d
  BY <1>1, <1>4
<1>6. QED
  BY <1>2, <1>5

LEMMA QuotientGrows ==
  ASSUME NEW a \in Nat, NEW b \in Nat, NEW c \in Nat \ {0}, a <= b
  PROVE  a \div c \in Nat /\ b \div c \in Nat /\ a \div c <= b \div c
<1> DEFINE q == a \div c
           s == b \div c
<1>1. q \in Nat /\ c * q <= a
  OBVIOUS
<1>2. s \in Nat /\ b < c * s + c
  OBVIOUS
<1> HIDE DEF q, s
<1>3. q <= s
  <2> SUFFICES ASSUME s + 1 <= q PROVE FALSE
    BY <1>1, <1>2
  <2>1. c * (s + 1) <= c * q /\ c * q \in Nat
    <3>1. s + 1 \in Nat /\ c \in Nat
      BY <1>2
    <3>2. QED
      BY <1>1, <3>1, ProductGrows
  <2>2. c * (s + 1) = c * s + c /\ c * s \in Nat
    BY <1>2
  <2>3. QED
    BY <1>1, <1>2, <2>1, <2>2
<1>4. QED
  BY <1>1, <1>2, <1>3 DEF q, s

-----------------------------------------------------------------------------
(***************************************************************************)
(* FirePerimeters: what the page knows, and the frame it draws.            *)
(***************************************************************************)

(* What the page knows of the fires and the water: the water taken to be   *)
(* near is the water that was near when that was worked out, whatever has  *)
(* come since.                                                             *)
PerimetersKnown ==
  /\ clock \in 0..MaxClock
  /\ report \in [LiveFires -> Reports]
  /\ \A f \in LiveFires : report[f].changed <= clock
  /\ weather \in Weathers
  /\ biased \subseteq LiveFires
  /\ water \subseteq Water
  /\ blocking = NearbyWater(water, report, weather, blockingAt)
  /\ blockingAt \in 0..clock
  /\ moving \in BOOLEAN
  /\ changes \in 0..MaxChanges
  /\ moves \in 0..MaxMoves

(* A frame is what would be drawn of what it was computed from.            *)
FrameFits ==
  /\ frame.at \in 0..clock
  /\ frame.report \in [LiveFires -> Reports]
  /\ frame.drawn => \A f \in LiveFires : frame.report[f].changed <= frame.at
  /\ frame.weather \in Weathers
  /\ frame.biased \subseteq LiveFires
  /\ frame.water \subseteq water
  /\ frame.blocking = NearbyWater(frame.water, frame.report, frame.weather, frame.blockingAt)
  /\ frame.outline = [f \in LiveFires |->
       IF frame.drawn /\ f \in growableFires(frame.report) /\ ~Gone(frame.report[f], frame.at)
       THEN FirePolygon(f, frame.report[f], frame.weather, frame.at, frame.biased) ELSE {}]

PerimetersInv == PerimetersKnown /\ FrameFits

LEMMA NearbyIsSome ==
  ASSUME NEW bodies, NEW reports, NEW w, NEW now
  PROVE  NearbyWater(bodies, reports, w, now) \subseteq bodies
BY DEF NearbyWater

LEMMA NoneIsNearby ==
  ASSUME NEW reports, NEW w, NEW now
  PROVE  NearbyWater({}, reports, w, now) = {}
BY DEF NearbyWater

LEMMA PerimetersTyped ==
  ASSUME PerimetersInv PROVE PerimetersTypeOK
<1>1. blocking \subseteq water /\ frame.blocking \subseteq frame.water
  BY NearbyIsSome DEF PerimetersInv, PerimetersKnown, FrameFits
<1>2. QED
  BY <1>1 DEF PerimetersInv, PerimetersKnown, FrameFits, PerimetersTypeOK

LEMMA ClockBegins ==
  LET now == Max({0} \cup {Ignited[f] : f \in LiveFires})
  IN  now \in 0..MaxClock /\ \A f \in LiveFires : Ignited[f] <= now
<1> DEFINE N == Len(FireList)
           g == [i \in 1..N |-> Ignited[FireList[i]]]
           T == {g[i] : i \in 1..N} \cup {0}
<1>1. N \in Nat /\ DOMAIN FireList = 1..N
  BY PerimetersAssumption
<1>2. LiveFires = {FireList[i] : i \in 1..N}
  BY <1>1 DEF LiveFires, ToSet
<1>3. \A i \in 1..N : g[i] \in 0..MaxClock
  BY <1>2, PerimetersAssumption
<1>4. {0} \cup {Ignited[f] : f \in LiveFires} = T
  BY <1>2
<1>5. Max(T) \in T /\ \A t \in T : t <= Max(T)
  <2>1. \A i \in 1..N : g[i] \in Nat
    BY <1>3
  <2> HIDE DEF g
  <2>2. QED
    BY <1>1, <2>1, MaxOfValues
<1>6. T \subseteq 0..MaxClock
  BY <1>3, PerimetersAssumption
<1>7. \A f \in LiveFires : Ignited[f] \in T
  BY <1>4
<1> HIDE DEF T
<1>8. QED
  BY <1>4, <1>5, <1>6, <1>7

LEMMA PerimetersBegin ==
  ASSUME PerimetersInit PROVE PerimetersInv
<1>1. clock \in 0..MaxClock
  BY ClockBegins DEF PerimetersInit
<1>2. report \in [LiveFires -> Reports] /\ \A f \in LiveFires : report[f].changed <= clock
  BY ClockBegins, PerimetersAssumption DEF PerimetersInit, Reports
<1>3. PerimetersKnown
  <2>1. MaxClock \in Nat /\ MaxChanges \in Nat /\ MaxMoves \in Nat /\ DefaultWeather \in Weathers
    BY PerimetersAssumption
  <2>2. 0 \in 0..clock /\ 0 \in 0..MaxChanges /\ 0 \in 0..MaxMoves
    BY <1>1, <2>1
  <2>3. /\ weather = DefaultWeather /\ biased = {} /\ water = {} /\ blocking = {} /\ blockingAt = 0
        /\ moving = FALSE /\ changes = 0 /\ moves = 0
    BY DEF PerimetersInit
  <2>4. blocking = NearbyWater(water, report, weather, blockingAt)
    BY <2>3, NoneIsNearby
  <2>5. QED
    BY <1>1, <1>2, <2>1, <2>2, <2>3, <2>4 DEF PerimetersKnown
<1>4. /\ frame.drawn = FALSE /\ frame.outline = [f \in LiveFires |-> {}] /\ frame.at = 0
      /\ frame.report = report /\ frame.weather = DefaultWeather /\ frame.biased = {}
      /\ frame.water = {} /\ frame.blocking = {} /\ frame.blockingAt = 0
  BY DEF PerimetersInit, NoFrame
<1>5. FrameFits
  <2>1. clock \in Nat /\ 0 \in 0..clock /\ DefaultWeather \in Weathers
    BY <1>1, PerimetersAssumption
  <2>2. QED
    BY <1>2, <1>4, <2>1, NoneIsNearby DEF FrameFits
<1>6. QED
  BY <1>3, <1>5 DEF PerimetersInv

LEMMA FrameKept ==
  ASSUME PerimetersInv, PerimetersKnown', frame' = frame, water \subseteq water', clock <= clock'
  PROVE  FrameFits'
<1>1. clock \in Nat /\ clock' \in Nat
  BY DEF PerimetersInv, PerimetersKnown
<1>2. frame.at \in 0..clock'
  BY <1>1 DEF PerimetersInv, FrameFits
<1>3. QED
  BY <1>2 DEF PerimetersInv, FrameFits

LEMMA FramePushed ==
  ASSUME PerimetersInv, PerimetersKnown', pushFrame, water \subseteq water', clock <= clock'
  PROVE  FrameFits'
<1>1. clock' \in Nat
  BY DEF PerimetersKnown
<1>2. CASE growableFires(report') = {}
  <2>1. frame' = [NoFrame EXCEPT !.report = report']
    BY <1>2 DEF pushFrame
  <2>2. /\ frame'.drawn = FALSE /\ frame'.outline = [f \in LiveFires |-> {}] /\ frame'.at = 0
        /\ frame'.report = report' /\ frame'.weather = DefaultWeather /\ frame'.biased = {}
        /\ frame'.water = {} /\ frame'.blocking = {} /\ frame'.blockingAt = 0
    BY <2>1 DEF NoFrame
  <2>3. QED
    BY <1>1, <2>2, NoneIsNearby, PerimetersAssumption DEF FrameFits, PerimetersKnown
<1>3. CASE growableFires(report') # {} /\ moving'
  <2>1. frame' = frame
    BY <1>3 DEF pushFrame
  <2>2. QED
    BY <2>1, FrameKept
<1>4. CASE growableFires(report') # {} /\ ~moving'
  <2>1. frame' = Frame(clock')
    BY <1>4 DEF pushFrame
  <2>2. /\ frame'.drawn = TRUE /\ frame'.at = clock' /\ frame'.report = report' /\ frame'.weather = weather'
        /\ frame'.biased = biased' /\ frame'.water = water' /\ frame'.blocking = blocking' /\ frame'.blockingAt = blockingAt'
    BY <2>1 DEF Frame
  <2>3. frame'.outline = [f \in LiveFires |->
                  IF f \in growableFires(report') /\ ~Gone(report'[f], clock')
                  THEN FirePolygon(f, report'[f], weather', clock', biased') ELSE {}]
    BY <2>1 DEF Frame
  <2>4. QED
    BY <1>1, <2>2, <2>3 DEF FrameFits, PerimetersKnown
<1>5. QED
  BY <1>2, <1>3, <1>4

LEMMA PerimetersStay ==
  ASSUME PerimetersInv, PerimetersNext \/ UNCHANGED perimeterVars
  PROVE  PerimetersInv'
<1> USE DEF perimeterVars
<1>1. /\ clock \in 0..MaxClock /\ clock \in Nat /\ blockingAt \in 0..clock /\ MaxClock \in Nat
      /\ MaxMoves \in Nat /\ MaxChanges \in Nat
  BY PerimetersAssumption DEF PerimetersInv, PerimetersKnown
<1>2. CASE GrowthTick
  <2>1. /\ clock' = PMin(clock + 1, MaxClock) /\ pushFrame
        /\ UNCHANGED <<report, weather, biased, water, blocking, blockingAt, moving, changes, moves>>
    BY <1>2 DEF GrowthTick
  <2>2. clock' \in 0..MaxClock /\ clock <= clock' /\ blockingAt \in 0..clock'
    BY <1>1, <2>1 DEF PMin
  <2>3. \A f \in LiveFires : report[f].changed <= clock'
    <3>1. \A f \in LiveFires : report[f] \in Reports /\ report[f].changed <= clock
      BY DEF PerimetersInv, PerimetersKnown
    <3>2. \A f \in LiveFires : report[f].changed \in Nat
      <4>1. \A f \in LiveFires : report[f].changed \in 0..MaxClock
        BY <3>1 DEF Reports
      <4>2. QED
        BY <1>1, <4>1
    <3>3. clock' \in Nat
      BY <1>1, <2>2
    <3>4. QED
      BY <1>1, <2>2, <3>1, <3>2, <3>3
  <2>4. PerimetersKnown'
    BY <2>1, <2>2, <2>3 DEF PerimetersInv, PerimetersKnown
  <2>5. QED
    BY <2>1, <2>2, <2>4, FramePushed DEF PerimetersInv
<1>3. ASSUME NEW w \in Weathers, WeatherArrives(w) PROVE PerimetersInv'
  <2>1. /\ weather' = w /\ Recompute /\ pushFrame
        /\ UNCHANGED <<clock, report, biased, water, moving, changes, moves>>
    BY <1>3 DEF WeatherArrives
  <2>2. PerimetersKnown'
    BY <1>1, <2>1 DEF PerimetersInv, PerimetersKnown, Recompute
  <2>3. QED
    BY <1>1, <2>1, <2>2, FramePushed DEF PerimetersInv
<1>4. ASSUME NEW some \in SUBSET LiveFires, BiasArrives(some) PROVE PerimetersInv'
  <2>1. /\ biased' = some /\ pushFrame
        /\ UNCHANGED <<clock, report, weather, water, blocking, blockingAt, moving, changes, moves>>
    BY <1>4 DEF BiasArrives
  <2>2. PerimetersKnown'
    BY <1>1, <2>1 DEF PerimetersInv, PerimetersKnown
  <2>3. QED
    BY <1>1, <2>1, <2>2, FramePushed DEF PerimetersInv
<1>5. ASSUME NEW b \in Water, WaterArrives(b) PROVE PerimetersInv'
  <2>1. /\ water' = water \cup {b} /\ Recompute
        /\ UNCHANGED <<clock, report, weather, biased, moving, frame, changes, moves>>
    BY <1>5 DEF WaterArrives
  <2>2. PerimetersKnown'
    BY <1>1, <2>1 DEF PerimetersInv, PerimetersKnown, Recompute
  <2>3. QED
    BY <1>1, <2>1, <2>2, FrameKept DEF PerimetersInv
<1>6. ASSUME NEW f \in LiveFires, NEW r \in Reports, r.changed <= clock, ReportChanges(f, r) PROVE PerimetersInv'
  <2>1. /\ changes < MaxChanges /\ report' = [report EXCEPT ![f] = r] /\ changes' = changes + 1
        /\ Recompute /\ pushFrame
        /\ UNCHANGED <<clock, weather, biased, water, moving, moves>>
    BY <1>6 DEF ReportChanges
  <2>2. report' \in [LiveFires -> Reports] /\ \A g \in LiveFires : report'[g].changed <= clock
    BY <1>6, <2>1 DEF PerimetersInv, PerimetersKnown
  <2>3. changes' \in 0..MaxChanges
    BY <1>1, <2>1 DEF PerimetersInv, PerimetersKnown
  <2>4. PerimetersKnown'
    BY <1>1, <2>1, <2>2, <2>3 DEF PerimetersInv, PerimetersKnown, Recompute
  <2>5. QED
    BY <1>1, <2>1, <2>4, FramePushed DEF PerimetersInv
<1>7. ASSUME NEW f \in LiveFires, NEW s \in {"active", "contained", "extinguished"}, StatusSet(f, s) PROVE PerimetersInv'
  <2>1. report[f] \in Reports
    BY DEF PerimetersInv, PerimetersKnown
  <2>2. PICK r : r = [report[f] EXCEPT !.status = s, !.changed = clock]
    OBVIOUS
  <2>3. r \in Reports /\ r.changed = clock
    BY <1>1, <2>1, <2>2 DEF Reports
  <2>4. ReportChanges(f, r)
    BY <1>7, <2>2 DEF StatusSet
  <2>5. r.changed <= clock
    BY <1>1, <2>3
  <2>6. QED
    BY <1>6, <2>3, <2>4, <2>5
<1>8. ASSUME NEW f \in LiveFires, Merged(f) PROVE PerimetersInv'
  <2>1. report[f] \in Reports
    BY DEF PerimetersInv, PerimetersKnown
  <2>2. PICK r : r = [report[f] EXCEPT !.merged = TRUE, !.changed = clock]
    OBVIOUS
  <2>3. r \in Reports /\ r.changed = clock
    BY <1>1, <2>1, <2>2 DEF Reports
  <2>4. ReportChanges(f, r)
    BY <1>8, <2>2 DEF Merged
  <2>5. r.changed <= clock
    BY <1>1, <2>3
  <2>6. QED
    BY <1>6, <2>3, <2>4, <2>5
<1>9. CASE MapMoves \/ MapRests
  <2>1. /\ moving' \in BOOLEAN /\ moves' \in 0..MaxMoves
        /\ UNCHANGED <<clock, report, weather, biased, water, blocking, blockingAt, frame, changes>>
    <3>1. CASE MapMoves
      BY <1>1, <3>1 DEF MapMoves, PerimetersInv, PerimetersKnown
    <3>2. CASE MapRests
      BY <3>2 DEF MapRests, PerimetersInv, PerimetersKnown
    <3>3. QED
      BY <1>9, <3>1, <3>2
  <2>2. PerimetersKnown'
    BY <2>1 DEF PerimetersInv, PerimetersKnown
  <2>3. QED
    BY <1>1, <2>1, <2>2, FrameKept DEF PerimetersInv
<1>10. CASE UNCHANGED perimeterVars
  <2>1. PerimetersKnown'
    BY <1>10 DEF PerimetersInv, PerimetersKnown
  <2>2. QED
    BY <1>1, <1>10, <2>1, FrameKept DEF PerimetersInv
<1>11. QED
  BY <1>2, <1>3, <1>4, <1>5, <1>7, <1>8, <1>9, <1>10 DEF PerimetersNext

-----------------------------------------------------------------------------
(***************************************************************************)
(* Groups of outlines that touch (GroupsAreBridged).                       *)
(***************************************************************************)

(* mergeOverlappingFires is a recursive function over the places of the    *)
(* list: there is one, since there is one up to each place.                *)
GroupsAt(outline, groups, n) ==
  IF n = 0 THEN <<>>
  ELSE IF outline[FireList[n]] = {} THEN groups[n - 1]
  ELSE JoinFirst(outline, groups[n - 1], FireList[n])

LEMMA GroupsExist ==
  ASSUME NEW outline, NEW N \in Nat
  PROVE  \E g : g = [n \in 0..N |-> GroupsAt(outline, g, n)]
<1> DEFINE Upto(n) == \E g : g = [m \in 0..n |-> GroupsAt(outline, g, m)]
           T == {n \in Nat : ~Upto(n)}
<1> SUFFICES ASSUME T # {} PROVE FALSE
  OBVIOUS
<1>1. PICK x \in T : \A y \in T : x <= y
  <2>1. T \subseteq Nat
    OBVIOUS
  <2> HIDE DEF T
  <2>2. QED
    BY <2>1, LeastNumber
<1>2. x \in Nat /\ ~Upto(x) /\ \A y \in Nat : y < x => Upto(y)
  BY <1>1
<1> HIDE DEF T
<1>3. x # 0
  <2> DEFINE g == [m \in 0..0 |-> <<>>]
  <2>1. \A m \in 0..0 : GroupsAt(outline, g, m) = <<>>
    BY DEF GroupsAt
  <2>2. g = [m \in 0..0 |-> GroupsAt(outline, g, m)]
    BY <2>1
  <2>3. Upto(0)
    BY <2>2
  <2>4. QED
    BY <1>2, <2>3
<1>4. x - 1 \in Nat /\ x - 1 < x
  BY <1>2, <1>3
<1>5. PICK g : g = [m \in 0..(x - 1) |-> GroupsAt(outline, g, m)]
  BY <1>2, <1>4
<1> DEFINE last == IF outline[FireList[x]] = {} THEN g[x - 1] ELSE JoinFirst(outline, g[x - 1], FireList[x])
<1> HIDE DEF last
<1>6. PICK h : h = [m \in 0..x |-> IF m = x THEN last ELSE g[m]]
  OBVIOUS
<1>7. \A m \in 0..x : h[m] = GroupsAt(outline, h, m)
  <2> TAKE m \in 0..x
  <2>1. m \in Nat /\ m <= x /\ x \in 0..x
    BY <1>2
  <2>2. CASE m = x
    <3>1. h[x] = last
      BY <1>6, <2>1
    <3>2. x - 1 \in 0..x /\ x - 1 # x
      BY <1>2, <1>4
    <3>3. h[x - 1] = g[x - 1]
      BY <1>6, <3>2
    <3>4. GroupsAt(outline, h, x) = last
      BY <1>3, <3>3 DEF GroupsAt, last
    <3>5. QED
      BY <2>2, <3>1, <3>4
  <2>3. CASE m # x
    <3>1. m \in 0..(x - 1)
      BY <1>2, <2>1, <2>3
    <3>2. h[m] = g[m] /\ g[m] = GroupsAt(outline, g, m)
      <4>1. h[m] = g[m]
        BY <1>6, <2>3
      <4>2. g[m] = GroupsAt(outline, g, m)
        BY <1>5, <3>1
      <4>3. QED
        BY <4>1, <4>2
    <3>3. m # 0 => m - 1 \in 0..x /\ m - 1 # x
      BY <1>2, <2>1
    <3>4. m # 0 => h[m - 1] = g[m - 1]
      BY <1>6, <3>3
    <3>5. GroupsAt(outline, h, m) = GroupsAt(outline, g, m)
      BY <3>4 DEF GroupsAt
    <3>6. QED
      BY <3>2, <3>5
  <2>4. QED
    BY <2>2, <2>3
<1>8. h = [m \in 0..x |-> GroupsAt(outline, h, m)]
  BY <1>7, <1>6
<1>9. QED
  BY <1>2, <1>8

LEMMA GroupsUnfold ==
  ASSUME NEW outline
  PROVE  \E g : /\ mergeOverlappingFires(outline) = g[Len(FireList)]
                /\ \A n \in 0..Len(FireList) : g[n] = GroupsAt(outline, g, n)
<1> DEFINE N == Len(FireList)
           g == CHOOSE g : g = [n \in 0..N |-> GroupsAt(outline, g, n)]
<1>1. N \in Nat
  BY PerimetersAssumption
<1>2. \E h : h = [n \in 0..N |-> GroupsAt(outline, h, n)]
  BY <1>1, GroupsExist
<1>3. g = [n \in 0..N |-> GroupsAt(outline, g, n)]
  BY <1>2
<1>4. mergeOverlappingFires(outline) = g[N]
  BY DEF mergeOverlappingFires, GroupsAt
<1>5. QED
  BY <1>3, <1>4

(* What is right of the groups of the first fires of the list. *)
ShownUpto(outline, n) == {FireList[i] : i \in {j \in 1..n : outline[FireList[j]] # {}}}
Hangs(outline, group) ==
  \A part \in (SUBSET group) \ {{}, group} : \E f \in part, g \in group \ part : Touch(outline[f], outline[g])
Bridged(outline, groups) ==
  \A k \in DOMAIN groups : \A l \in (k + 1)..Len(groups) :
    /\ groups[k] \cap groups[l] = {}
    /\ \A f \in groups[k], g \in groups[l] : Touch(outline[f], outline[g]) => ListPlace(f) > ListPlace(g)
GroupsRight(outline, groups, n) ==
  /\ groups \in Seq(SUBSET LiveFires)
  /\ UNION ToSet(groups) = ShownUpto(outline, n)
  /\ \A k \in DOMAIN groups : groups[k] # {} /\ Hangs(outline, groups[k])
  /\ Bridged(outline, groups)

LEMMA PlacesInTheList ==
  ASSUME NEW i \in 1..Len(FireList)
  PROVE  ListPlace(FireList[i]) = i /\ FireList[i] \in LiveFires
<1>1. DOMAIN FireList = 1..Len(FireList)
  BY PerimetersAssumption
<1>2. \A j \in DOMAIN FireList : FireList[j] = FireList[i] => j = i
  BY <1>1, PerimetersAssumption DEF IsInjective
<1>3. ListPlace(FireList[i]) = i
  BY <1>1, <1>2 DEF ListPlace
<1>4. QED
  BY <1>1, <1>3, PerimetersAssumption

LEMMA TouchIsMutual ==
  ASSUME NEW a, NEW b PROVE Touch(a, b) <=> Touch(b, a)
BY DEF Touch

(* A group stays together with one more that touches it. *)
LEMMA JoinedHangs ==
  ASSUME NEW outline, NEW group, NEW f, Hangs(outline, group), f \notin group,
         \E g \in group : Touch(outline[g], outline[f])
  PROVE  Hangs(outline, group \cup {f})
<1> DEFINE all == group \cup {f}
<1> SUFFICES ASSUME NEW part \in SUBSET all, part # {}, part # all
             PROVE  \E a \in part, b \in all \ part : Touch(outline[a], outline[b])
  BY DEF Hangs
<1>1. PICK g \in group : Touch(outline[g], outline[f])
  OBVIOUS
<1>2. Touch(outline[f], outline[g])
  BY <1>1, TouchIsMutual
<1> DEFINE old == part \cap group
<1>3. CASE old = {}
  <2>1. f \in part /\ g \in all \ part
    BY <1>3
  <2>2. QED
    BY <1>2, <2>1
<1>4. CASE old = group
  <2>1. g \in part /\ f \in all \ part
    BY <1>4
  <2>2. QED
    BY <1>1, <2>1
<1>5. CASE old # {} /\ old # group
  <2>1. old \in SUBSET group
    OBVIOUS
  <2>2. PICK a \in old, b \in group \ old : Touch(outline[a], outline[b])
    BY <1>5, <2>1 DEF Hangs
  <2>3. a \in part /\ b \in all \ part
    BY <2>2
  <2>4. QED
    BY <2>2, <2>3
<1>6. QED
  BY <1>3, <1>4, <1>5

LEMMA JoinIsRight ==
  ASSUME NEW outline, NEW groups, NEW n \in 1..Len(FireList), GroupsRight(outline, groups, n - 1),
         outline[FireList[n]] # {}
  PROVE  GroupsRight(outline, JoinFirst(outline, groups, FireList[n]), n)
<1> DEFINE f == FireList[n]
           hit == {k \in DOMAIN groups : \E g \in groups[k] : Touch(outline[g], outline[f])}
<1>1. groups \in Seq(SUBSET LiveFires) /\ Len(groups) \in Nat /\ DOMAIN groups = 1..Len(groups)
  BY DEF GroupsRight
<1>2. ListPlace(f) = n /\ f \in LiveFires
  BY PlacesInTheList
<1>3. ShownUpto(outline, n) = ShownUpto(outline, n - 1) \cup {f}
  <2>1. \A j : j \in 1..n <=> j \in 1..(n - 1) \/ j = n
    OBVIOUS
  <2>2. QED
    BY <2>1 DEF ShownUpto
<1>4. \A g \in ShownUpto(outline, n - 1) : g \in LiveFires /\ ListPlace(g) < n
  <2>1. ASSUME NEW j \in 1..(n - 1) PROVE FireList[j] \in LiveFires /\ ListPlace(FireList[j]) < n
    <3>1. j \in 1..Len(FireList) /\ j < n
      BY PerimetersAssumption
    <3>2. QED
      BY <3>1, PlacesInTheList
  <2>2. QED
    BY <2>1 DEF ShownUpto
<1>5. \A k \in DOMAIN groups : \A g \in groups[k] : g \in LiveFires /\ ListPlace(g) < n
  <2>1. \A k \in DOMAIN groups : groups[k] \subseteq UNION ToSet(groups)
    BY DEF ToSet
  <2>2. QED
    BY <1>4, <2>1 DEF GroupsRight
<1>6. \A k \in DOMAIN groups : f \notin groups[k]
  BY <1>2, <1>5
<1>7. Hangs(outline, {f})
  BY DEF Hangs
<1> HIDE DEF f
<1>8. CASE hit = {}
  <2> DEFINE new == Append(groups, {f})
  <2>1. JoinFirst(outline, groups, f) = new
    BY <1>8 DEF JoinFirst
  <2>2. /\ new \in Seq(SUBSET LiveFires) /\ Len(new) = Len(groups) + 1 /\ DOMAIN new = 1..(Len(groups) + 1)
        /\ new[Len(groups) + 1] = {f} /\ \A k \in 1..Len(groups) : new[k] = groups[k]
    BY <1>1, <1>2
  <2> HIDE DEF new
  <2>3. \A k \in DOMAIN new : k \in DOMAIN groups \/ k = Len(groups) + 1
    BY <1>1, <2>2
  <2>4. UNION ToSet(new) = (UNION ToSet(groups)) \cup {f}
    <3>1. \A k \in DOMAIN groups : new[k] = groups[k] /\ k \in DOMAIN new
      BY <1>1, <2>2
    <3>2. Len(groups) + 1 \in DOMAIN new
      BY <1>1, <2>2
    <3>3. ASSUME NEW a PROVE a \in UNION ToSet(new) <=> a \in UNION ToSet(groups) \/ a = f
      <4>1. a \in UNION ToSet(new) <=> \E k \in DOMAIN new : a \in new[k]
        BY DEF ToSet
      <4>2. a \in UNION ToSet(groups) <=> \E k \in DOMAIN groups : a \in groups[k]
        BY DEF ToSet
      <4>3. QED
        BY <2>2, <2>3, <3>1, <3>2, <4>1, <4>2
    <3>4. QED
      BY <3>3
  <2>5. \A k \in DOMAIN new : new[k] # {} /\ Hangs(outline, new[k])
    BY <1>1, <1>7, <2>2, <2>3 DEF GroupsRight
  <2>6. Bridged(outline, new)
    <3> SUFFICES ASSUME NEW k \in DOMAIN new, NEW l \in (k + 1)..Len(new)
                 PROVE  /\ new[k] \cap new[l] = {}
                        /\ \A a \in new[k], b \in new[l] : Touch(outline[a], outline[b]) => ListPlace(a) > ListPlace(b)
      BY DEF Bridged
    <3>1. k \in 1..Len(groups) /\ new[k] = groups[k]
      BY <1>1, <2>2
    <3>2. CASE l = Len(groups) + 1
      BY <1>1, <1>6, <1>8, <2>2, <3>1, <3>2
    <3>3. CASE l # Len(groups) + 1
      <4>1. l \in (k + 1)..Len(groups) /\ l \in 1..Len(groups) /\ new[l] = groups[l]
        BY <1>1, <2>2, <3>1, <3>3
      <4>2. QED
        BY <1>1, <3>1, <4>1 DEF GroupsRight, Bridged
    <3>4. QED
      BY <3>2, <3>3
  <2>7. QED
    BY <1>3, <2>1, <2>2, <2>4, <2>5, <2>6 DEF GroupsRight, f
<1>9. CASE hit # {}
  <2> DEFINE first == Min(hit)
             new == [groups EXCEPT ![first] = @ \cup {f}]
  <2>1. first \in hit /\ \A k \in hit : first <= k
    <3>1. hit \subseteq Nat
      BY <1>1
    <3> HIDE DEF hit
    <3>2. QED
      BY <1>9, <3>1, MinIsLeast
  <2>2. JoinFirst(outline, groups, f) = new
    BY <1>9 DEF JoinFirst
  <2> HIDE DEF first
  <2>3. first \in 1..Len(groups) /\ \E g \in groups[first] : Touch(outline[g], outline[f])
    BY <1>1, <2>1
  <2>4. \A k \in DOMAIN groups : k < first => ~(\E g \in groups[k] : Touch(outline[g], outline[f]))
    BY <1>1, <2>1, <2>3
  <2>5. /\ new \in Seq(SUBSET LiveFires) /\ Len(new) = Len(groups) /\ DOMAIN new = DOMAIN groups
        /\ new[first] = groups[first] \cup {f} /\ \A k \in DOMAIN groups : k # first => new[k] = groups[k]
    <3>1. groups[first] \cup {f} \in SUBSET LiveFires
      BY <1>1, <1>2, <2>3
    <3>2. QED
      BY <1>1, <2>3, <3>1
  <2> HIDE DEF new
  <2>6. UNION ToSet(new) = (UNION ToSet(groups)) \cup {f}
    BY <1>1, <2>3, <2>5 DEF ToSet
  <2>7. Hangs(outline, new[first])
    BY <1>1, <1>6, <2>3, <2>5, JoinedHangs DEF GroupsRight
  <2>8. \A k \in DOMAIN new : new[k] # {} /\ Hangs(outline, new[k])
    BY <2>5, <2>7 DEF GroupsRight
  <2>9. Bridged(outline, new)
    <3> SUFFICES ASSUME NEW k \in DOMAIN new, NEW l \in (k + 1)..Len(new)
                 PROVE  /\ new[k] \cap new[l] = {}
                        /\ \A a \in new[k], b \in new[l] : Touch(outline[a], outline[b]) => ListPlace(a) > ListPlace(b)
      BY DEF Bridged
    <3>1. k \in 1..Len(groups) /\ l \in 1..Len(groups) /\ k < l /\ k # l /\ l \in (k + 1)..Len(groups)
      BY <1>1, <2>5
    <3>2. /\ groups[k] \cap groups[l] = {}
          /\ \A a \in groups[k], b \in groups[l] : Touch(outline[a], outline[b]) => ListPlace(a) > ListPlace(b)
      BY <1>1, <3>1 DEF GroupsRight, Bridged
    <3>3. CASE k = first
      <4>1. new[k] = groups[k] \cup {f} /\ new[l] = groups[l]
        BY <1>1, <2>5, <3>1, <3>3
      <4>2. \A b \in groups[l] : ListPlace(f) > ListPlace(b)
        <5>1. ASSUME NEW b \in groups[l] PROVE ListPlace(f) > ListPlace(b)
          <6>1. b \in LiveFires /\ ListPlace(b) < n
            BY <1>1, <1>5, <3>1
          <6>2. QED
            BY <1>2, <6>1
        <5>2. QED
          BY <5>1
      <4>3. QED
        BY <1>1, <1>6, <3>1, <3>2, <4>1, <4>2
    <3>4. CASE l = first
      <4>1. new[l] = groups[l] \cup {f} /\ new[k] = groups[k]
        BY <1>1, <2>5, <3>1, <3>4
      <4>2. \A a \in groups[k] : ~Touch(outline[a], outline[f])
        BY <1>1, <2>4, <3>1, <3>4
      <4>3. QED
        BY <1>1, <1>6, <3>1, <3>2, <4>1, <4>2
    <3>5. CASE k # first /\ l # first
      BY <1>1, <2>5, <3>1, <3>2, <3>5
    <3>6. QED
      BY <3>3, <3>4, <3>5
  <2>10. QED
    BY <1>3, <2>2, <2>5, <2>6, <2>8, <2>9 DEF GroupsRight, f
<1>10. QED
  BY <1>8, <1>9 DEF f
(* By induction over the list. *)
LEMMA GroupsAreRight ==
  ASSUME NEW outline
  PROVE  GroupsRight(outline, mergeOverlappingFires(outline), Len(FireList))
<1>1. PICK g : /\ mergeOverlappingFires(outline) = g[Len(FireList)]
               /\ \A n \in 0..Len(FireList) : g[n] = GroupsAt(outline, g, n)
  BY GroupsUnfold
<1> DEFINE T == {n \in 0..Len(FireList) : ~GroupsRight(outline, g[n], n)}
<1>2. Len(FireList) \in Nat
  BY PerimetersAssumption
<1> SUFFICES ASSUME T # {} PROVE FALSE
  BY <1>1, <1>2
<1>3. PICK x \in T : \A y \in T : x <= y
  <2>1. T \subseteq Nat
    BY <1>2
  <2> HIDE DEF T
  <2>2. QED
    BY <2>1, LeastNumber
<1>4. x \in 0..Len(FireList) /\ ~GroupsRight(outline, g[x], x)
  BY <1>3
<1>5. x # 0 => x - 1 \in 0..Len(FireList) /\ x \in 1..Len(FireList) /\ GroupsRight(outline, g[x - 1], x - 1)
  BY <1>2, <1>3
<1>6. g[x] = GroupsAt(outline, g, x)
  BY <1>1, <1>4
<1> HIDE DEF T
<1>7. CASE x = 0
  <2>1. g[x] = <<>>
    BY <1>6, <1>7 DEF GroupsAt
  <2>2. ShownUpto(outline, 0) = {}
    BY DEF ShownUpto
  <2>3. GroupsRight(outline, <<>>, 0)
    BY <2>2 DEF GroupsRight, Bridged, ToSet
  <2>4. QED
    BY <1>4, <1>7, <2>1, <2>3
<1>8. CASE x # 0 /\ outline[FireList[x]] = {}
  <2>1. g[x] = g[x - 1]
    BY <1>6, <1>8 DEF GroupsAt
  <2>2. ShownUpto(outline, x) = ShownUpto(outline, x - 1)
    <3>1. \A j : j \in 1..x <=> j \in 1..(x - 1) \/ j = x
      BY <1>5, <1>8
    <3>2. QED
      BY <1>8, <3>1 DEF ShownUpto
  <2>3. QED
    BY <1>4, <1>5, <1>8, <2>1, <2>2 DEF GroupsRight
<1>9. CASE x # 0 /\ outline[FireList[x]] # {}
  <2>1. g[x] = JoinFirst(outline, g[x - 1], FireList[x])
    BY <1>6, <1>9 DEF GroupsAt
  <2>2. QED
    BY <1>4, <1>5, <1>9, <2>1, JoinIsRight
<1>10. QED
  BY <1>7, <1>8, <1>9

LEMMA AllAreShown ==
  ASSUME NEW outline
  PROVE  ShownUpto(outline, Len(FireList)) = {f \in LiveFires : outline[f] # {}}
<1>1. Len(FireList) \in Nat /\ DOMAIN FireList = 1..Len(FireList)
  BY PerimetersAssumption
<1>2. \A f : f \in LiveFires <=> \E i \in 1..Len(FireList) : f = FireList[i]
  BY <1>1 DEF LiveFires, ToSet
<1>3. QED
  BY <1>2 DEF ShownUpto

LEMMA GroupsBridge == GroupsAreBridged
<1> DEFINE outline == frame.outline
<1>1. GroupsRight(outline, Groups, Len(FireList))
  BY GroupsAreRight DEF Groups
<1>2. UNION ToSet(Groups) = {f \in LiveFires : outline[f] # {}}
  BY <1>1, AllAreShown DEF GroupsRight
<1>3. \A k \in DOMAIN Groups : Hangs(outline, Groups[k])
  BY <1>1 DEF GroupsRight
<1>4. Bridged(outline, Groups)
  BY <1>1 DEF GroupsRight
<1>5. QED
  BY <1>2, <1>3, <1>4 DEF GroupsAreBridged, Hangs, Bridged

-----------------------------------------------------------------------------
(***************************************************************************)
(* The other side of the water (ShoreHolds): a perimeter reaches no        *)
(* farther than estimateMaxReach, and the water within that reach is cut   *)
(* out of it.                                                              *)
(***************************************************************************)

(* A finite set of whole numbers has a least and a greatest element. *)
LEMMA FiniteIsBounded ==
  ASSUME NEW S, S \subseteq Int, IsFiniteSet(S)
  PROVE  \E m \in Nat : \A x \in S : -m <= x /\ x <= m
<1>1. PICK s \in Seq(S) : \A x \in S : \E n \in 1..Len(s) : s[n] = x
  BY DEF IsFiniteSet
<1>2. Len(s) \in Nat /\ \A n \in 1..Len(s) : s[n] \in S /\ s[n] \in Int
  <2>1. Len(s) \in Nat /\ \A n \in 1..Len(s) : s[n] \in S
    BY <1>1
  <2>2. QED
    BY <2>1
<1> DEFINE size == [n \in 1..Len(s) |-> IF s[n] >= 0 THEN s[n] ELSE -s[n]]
<1>3. \A n \in 1..Len(s) : size[n] \in Nat /\ -size[n] <= s[n] /\ s[n] <= size[n]
  BY <1>2
<1> HIDE DEF size
<1>4. PICK m \in Nat : \A n \in 1..Len(s) : size[n] <= m
  BY <1>2, <1>3, BoundedValues
<1>5. ASSUME NEW x \in S PROVE -m <= x /\ x <= m
  <2>1. PICK n \in 1..Len(s) : s[n] = x
    BY <1>1
  <2>2. size[n] \in Nat /\ -size[n] <= x /\ x <= size[n] /\ size[n] <= m /\ x \in Int
    BY <1>2, <1>3, <1>4, <2>1
  <2>3. QED
    BY <2>2
<1>6. QED
  BY <1>5

LEMMA LeastOfFinite ==
  ASSUME NEW S, S \subseteq Int, S # {}, IsFiniteSet(S)
  PROVE  Min(S) \in S /\ \A y \in S : Min(S) <= y
<1>1. PICK m \in Nat : \A x \in S : -m <= x /\ x <= m
  BY FiniteIsBounded
<1> DEFINE T == {x + m : x \in S}
<1>2. T \subseteq Nat /\ T # {}
  <2>1. ASSUME NEW x \in S PROVE x + m \in Nat
    <3>1. x \in Int /\ -m <= x /\ x <= m
      BY <1>1
    <3>2. QED
      BY <3>1
  <2>2. QED
    BY <2>1
<1>3. PICK t \in T : \A u \in T : t <= u
  <2> HIDE DEF T
  <2>1. QED
    BY <1>2, LeastNumber
<1>4. PICK x \in S : t = x + m
  BY <1>3
<1>5. \A y \in S : x <= y
  <2>1. ASSUME NEW y \in S PROVE x <= y
    <3>1. y + m \in T /\ y \in Int /\ x \in Int
      OBVIOUS
    <3>2. x + m <= y + m
      BY <1>3, <1>4, <3>1
    <3>3. QED
      BY <3>1, <3>2
  <2>2. QED
    BY <2>1
<1>6. QED
  BY <1>5 DEF Min

LEMMA GreatestOfFinite ==
  ASSUME NEW S, S \subseteq Int, S # {}, IsFiniteSet(S)
  PROVE  Max(S) \in S /\ \A y \in S : y <= Max(S)
<1>1. PICK m \in Nat : \A x \in S : -m <= x /\ x <= m
  BY FiniteIsBounded
<1> DEFINE T == {x + m : x \in S}
<1>2. T \subseteq Nat /\ T # {} /\ \A t \in T : t <= m + m
  <2>1. ASSUME NEW x \in S PROVE x + m \in Nat /\ x + m <= m + m
    <3>1. x \in Int /\ -m <= x /\ x <= m
      BY <1>1
    <3>2. QED
      BY <3>1
  <2>2. QED
    BY <2>1
<1>3. PICK t \in T : \A u \in T : u <= t
  <2>1. m + m \in Nat
    OBVIOUS
  <2> HIDE DEF T
  <2>2. QED
    BY <1>2, <2>1, GreatestNumber
<1>4. PICK x \in S : t = x + m
  BY <1>3
<1>5. \A y \in S : x >= y
  <2>1. ASSUME NEW y \in S PROVE x >= y
    <3>1. y + m \in T /\ y \in Int /\ x \in Int
      OBVIOUS
    <3>2. y + m <= x + m
      BY <1>3, <1>4, <3>1
    <3>3. QED
      BY <3>1, <3>2
  <2>2. QED
    BY <2>1
<1>6. \A y \in S : y \in Int
  OBVIOUS
<1>7. QED
  BY <1>5, <1>6 DEF Max

(* How far a fire has grown is a number, and what is back of it is less.   *)
LEMMA AgeIsNumber ==
  ASSUME NEW f \in LiveFires, NEW r \in Reports, NEW now \in Nat
  PROVE  GrowthAge(f, r, now) \in Nat
<1>1. LiveAge(f, now) \in Nat /\ FrozenAge(f, r) \in Nat
  <2>1. Ignited[f] \in Int /\ r.changed \in Int
    BY PerimetersAssumption DEF Reports
  <2>2. QED
    BY <2>1 DEF LiveAge, FrozenAge, PMax
<1>2. PMin(LiveAge(f, now), FrozenAge(f, r)) \in Nat
  BY <1>1 DEF PMin
<1>3. FadeTime \in Nat \ {0}
  BY PerimetersAssumption
<1>4. r.changed \in Int
  BY PerimetersAssumption DEF Reports
<1>5. FadeLeft(r, now) \in Nat
  BY <1>3, <1>4 DEF FadeLeft, PMin, PMax
<1>6. ASSUME NEW a \in Nat, NEW b \in Nat, NEW c \in Nat \ {0} PROVE (a * b) \div c \in Nat
  <2>1. a * b \in Nat
    BY <1>6
  <2> DEFINE d == a * b
  <2>2. d \in Nat
    BY <2>1
  <2> HIDE DEF d
  <2>3. d \div c \in Nat
    BY <1>6, <2>2
  <2>4. QED
    BY <2>3 DEF d
<1>7. (PMin(LiveAge(f, now), FrozenAge(f, r)) * FadeLeft(r, now)) \div FadeTime \in Nat
  BY <1>2, <1>3, <1>5, <1>6
<1>8. r.status \in {"active", "contained", "extinguished"}
  BY DEF Reports
<1>9. QED
  BY <1>1, <1>2, <1>7, <1>8 DEF GrowthAge

LEMMA RateIsNumber ==
  ASSUME NEW w \in Weathers
  PROVE  HeadRate(w) \in Nat
<1>1. ASSUME NEW a \in Nat, NEW b \in Nat PROVE a * b \in Nat
  BY <1>1
<1>2. windSpeedFactor(w.wind) \in Nat
  BY DEF windSpeedFactor
<1>3. drynessFactor(w) \in Nat
  <2>1. w.dry \in 0..100
    BY PerimetersAssumption
  <2> DEFINE d == 120 * w.dry
  <2>2. d \in Nat
    BY <2>1
  <2> HIDE DEF d
  <2>3. d \div 100 \in Nat
    BY <2>2
  <2>4. QED
    BY <2>3 DEF drynessFactor, d
<1>4. BaseRate \in Nat
  BY PerimetersAssumption
<1>5. BaseRate * windSpeedFactor(w.wind) \in Nat
  BY <1>1, <1>2, <1>4
<1>6. QED
  BY <1>1, <1>3, <1>5 DEF HeadRate

LEMMA HeadIsNumber ==
  ASSUME NEW f \in LiveFires, NEW w \in Weathers, NEW elapsed \in Nat
  PROVE  headDistance(f, w, elapsed) \in Nat /\ Size[f] <= headDistance(f, w, elapsed)
<1>1. ASSUME NEW a \in Nat, NEW b \in Nat PROVE a * b \in Nat
  BY <1>1
<1>2. HeadRate(w) \in Nat
  BY RateIsNumber
<1>3. easeIn(elapsed) \in Nat
  <2> DEFINE d == elapsed + EaseInTime
  <2>1. d \in Nat \ {0}
    BY PerimetersAssumption
  <2> HIDE DEF d
  <2>2. (100 * elapsed) \div d \in Nat
    BY <2>1
  <2>3. QED
    BY <2>2 DEF easeIn, d
<1> DEFINE grown == HeadRate(w) * elapsed * easeIn(elapsed)
<1>4. grown \in Nat
  <2>1. HeadRate(w) * elapsed \in Nat
    BY <1>1, <1>2
  <2>2. QED
    BY <1>1, <1>3, <2>1
<1>5. headDistance(f, w, elapsed) = PMin(Size[f] + grown \div 1000000, PMax(MaxRadius, Size[f]))
  BY DEF headDistance
<1> HIDE DEF grown
<1>6. grown \div 1000000 \in Nat
  BY <1>4
<1>7. Size[f] \in Nat /\ MaxRadius \in Nat
  BY PerimetersAssumption
<1>8. QED
  BY <1>5, <1>6, <1>7 DEF PMin, PMax

LEMMA BackIsLess ==
  ASSUME NEW f \in LiveFires, NEW head \in Nat, Size[f] <= head
  PROVE  backDistance(f, head) \in Nat /\ backDistance(f, head) <= head
<1>1. Size[f] \in Nat
  BY PerimetersAssumption
<1> DEFINE d == head - Size[f]
           e == (15 * d) \div 100
<1>2. d \in Nat /\ Size[f] + d = head
  BY <1>1
<1>3. backDistance(f, head) = Size[f] + e
  BY DEF backDistance
<1> HIDE DEF d
<1>4. e \in Nat /\ e <= d
  BY <1>2
<1> HIDE DEF e
<1>5. QED
  BY <1>1, <1>2, <1>3, <1>4

(* The outline is a span of numbers, and no longer than the 30 % that the  *)
(* filter of the water bodies allows for.                                  *)
LEMMA RadiusIsNumber ==
  ASSUME NEW f \in LiveFires, NEW base \in Nat, NEW way \in {"up", "down"}, NEW known
  PROVE  OutlineRadius(f, base, way, known) \in Int
<1>1. Size[f] \in Nat /\ MaxRadius \in Nat /\ Noise[f] \in Nat
  <2>1. Size[f] \in Nat /\ MaxRadius \in Nat /\ Noise[f] \in 0..200
    BY PerimetersAssumption
  <2>2. QED
    BY <2>1
<1>2. terrainFactorAt(f, way, known) \in Nat
  BY PerimetersAssumption DEF terrainFactorAt
<1> DEFINE t == base * terrainFactorAt(f, way, known) * Noise[f]
<1>3. t \in Int
  <2>1. ASSUME NEW a \in Nat, NEW b \in Nat PROVE a * b \in Nat
    BY <2>1
  <2>2. base * terrainFactorAt(f, way, known) \in Nat
    BY <1>2, <2>1
  <2>3. t \in Nat
    BY <1>1, <2>1, <2>2
  <2>4. QED
    BY <2>3
<1>4. OutlineRadius(f, base, way, known) = PMin((13 * PMax(MaxRadius, Size[f])) \div 10, PMax(0, t \div 10000))
  BY DEF OutlineRadius
<1> HIDE DEF t
<1>5. QED
  BY <1>1, <1>3, <1>4 DEF PMin, PMax

LEMMA RadiusIsShort ==
  ASSUME NEW f \in LiveFires, NEW base \in Nat, NEW head \in Nat, base <= head,
         NEW way \in {"up", "down"}, NEW known,
         (IF f \in known THEN Slope[f][way] ELSE 100) * Noise[f] <= 13000
  PROVE  OutlineRadius(f, base, way, known) <= (13 * head) \div 10
<1>1. Size[f] \in Nat /\ MaxRadius \in Nat /\ Noise[f] \in Nat
  <2>1. Size[f] \in Nat /\ MaxRadius \in Nat /\ Noise[f] \in 0..200
    BY PerimetersAssumption
  <2>2. QED
    BY <2>1
<1>2. terrainFactorAt(f, way, known) \in Nat
  BY PerimetersAssumption DEF terrainFactorAt
<1> DEFINE t == base * terrainFactorAt(f, way, known) * Noise[f]
           u == terrainFactorAt(f, way, known) * Noise[f]
<1>3. u \in Int /\ u <= 13000
  BY <1>1, <1>2 DEF terrainFactorAt
<1>4. t = base * u
  BY <1>1, <1>2
<1>5. OutlineRadius(f, base, way, known) = PMin((13 * PMax(MaxRadius, Size[f])) \div 10, PMax(0, t \div 10000))
  BY DEF OutlineRadius
<1> HIDE DEF t, u
<1>6. t \in Int /\ t <= 13000 * base
  BY <1>3, <1>4
<1>7. t <= 13000 * head
  BY <1>6
<1>8. t \div 10000 <= (13 * head) \div 10
  BY <1>6, <1>7
<1>9. QED
  BY <1>1, <1>5, <1>6, <1>8 DEF PMin, PMax
(* An outline, and what is cut from it, is a finite set of places.         *)
LEMMA OutlineIsFinite ==
  ASSUME PerimetersInv, NEW f \in LiveFires
  PROVE  IsFiniteSet(frame.outline[f]) /\ frame.outline[f] \subseteq Int
<1>1. CASE frame.outline[f] = {}
  BY <1>1, FS_EmptySet
<1>2. CASE frame.outline[f] # {}
  <2> DEFINE r == frame.report[f]
             head == headDistance(f, frame.weather, GrowthAge(f, r, frame.at))
             low == Place[f] - OutlineRadius(f, backDistance(f, head), "down", frame.biased)
             high == Place[f] + OutlineRadius(f, head, "up", frame.biased)
  <2>1. frame.outline[f] = FirePolygon(f, r, frame.weather, frame.at, frame.biased)
    BY <1>2 DEF PerimetersInv, FrameFits
  <2>2. frame.outline[f] = low..high
    BY <2>1 DEF FirePolygon
  <2>3. r \in Reports /\ frame.weather \in Weathers /\ frame.at \in 0..clock /\ clock \in 0..MaxClock
    BY DEF PerimetersInv, PerimetersKnown, FrameFits
  <2>4. frame.at \in Nat
    BY <2>3
  <2> HIDE DEF r
  <2>5. head \in Nat /\ Size[f] <= head
    BY <2>3, <2>4, AgeIsNumber, HeadIsNumber
  <2> HIDE DEF head
  <2>6. backDistance(f, head) \in Nat
    BY <2>5, BackIsLess
  <2>7. /\ OutlineRadius(f, backDistance(f, head), "down", frame.biased) \in Int
        /\ OutlineRadius(f, head, "up", frame.biased) \in Int /\ Place[f] \in Int
    BY <2>5, <2>6, RadiusIsNumber, PerimetersAssumption
  <2>8. low \in Int /\ high \in Int
    BY <2>7
  <2> HIDE DEF low, high
  <2>9. IsFiniteSet(low..high)
    BY <2>8, FS_Interval
  <2>10. QED
    BY <2>2, <2>8, <2>9
<1>3. QED
  BY <1>1, <1>2

LEMMA DrawnIsFinite ==
  ASSUME PerimetersInv, NEW group, group \subseteq LiveFires
  PROVE  IsFiniteSet(UNION {frame.outline[f] : f \in group})
<1> DEFINE all == {frame.outline[f] : f \in LiveFires}
           s == [i \in 1..Len(FireList) |-> frame.outline[FireList[i]]]
<1>1. Len(FireList) \in Nat /\ DOMAIN FireList = 1..Len(FireList) /\ \A i \in 1..Len(FireList) : FireList[i] \in LiveFires
  BY PerimetersAssumption
<1>2. \A f : f \in LiveFires <=> \E i \in 1..Len(FireList) : f = FireList[i]
  BY <1>1 DEF LiveFires, ToSet
<1>3. s \in Seq(all) /\ Len(s) = Len(FireList)
  BY <1>1
<1>4. \A x \in all : \E i \in 1..Len(s) : s[i] = x
  BY <1>1, <1>2, <1>3
<1>5. IsFiniteSet(all)
  <2> HIDE DEF all, s
  <2>1. QED
    BY <1>3, <1>4 DEF IsFiniteSet
<1>6. IsFiniteSet(UNION all)
  <2>1. \A T \in all : IsFiniteSet(T)
    BY OutlineIsFinite
  <2> HIDE DEF all
  <2>2. QED
    BY <1>5, <2>1, FS_UNION
<1>7. UNION {frame.outline[f] : f \in group} \in SUBSET (UNION all)
  OBVIOUS
<1>8. QED
  BY <1>6, <1>7, FS_Subset

(* What is left of a shape along the water is land, unless it was all      *)
(* water.                                                                  *)
LEMMA ClipLeavesLand ==
  ASSUME NEW shape, NEW wet, IsFiniteSet(shape), shape \ wet # {}
  PROVE  clipToLand(shape, wet) \subseteq shape \ wet
<1> DEFINE dry == shape \ wet
<1>1. IsFiniteSet(dry)
  BY FS_Subset
<1>2. \A q \in Parts(dry) : q \subseteq dry
  BY DEF Parts, PartOf
<1>3. CASE Centroid(shape) \in dry
  <2>1. clipToLand(shape, wet) = PartOf(dry, Centroid(shape))
    BY <1>3 DEF clipToLand
  <2>2. QED
    BY <2>1 DEF PartOf
<1>4. CASE Centroid(shape) \notin dry
  <2>1. clipToLand(shape, wet) = CHOOSE p \in Parts(dry) : \A q \in Parts(dry) : Cardinality(p) >= Cardinality(q)
    BY <1>4 DEF clipToLand
  <2> DEFINE T == {Cardinality(q) : q \in Parts(dry)}
  <2>2. Cardinality(dry) \in Nat /\ \A q \in Parts(dry) : Cardinality(q) \in Nat /\ Cardinality(q) <= Cardinality(dry)
    <3>1. \A q \in Parts(dry) : IsFiniteSet(q) /\ Cardinality(q) <= Cardinality(dry)
      BY <1>1, <1>2, FS_Subset
    <3>2. QED
      BY <1>1, <3>1, FS_CardinalityType
  <2>3. T \subseteq Nat /\ T # {} /\ \A t \in T : t <= Cardinality(dry)
    BY <2>2 DEF Parts
  <2>4. PICK t \in T : \A u \in T : u <= t
    <3> HIDE DEF T
    <3>1. QED
      BY <2>2, <2>3, GreatestNumber
  <2>5. PICK p \in Parts(dry) : t = Cardinality(p)
    BY <2>4
  <2>6. \A q \in Parts(dry) : Cardinality(p) >= Cardinality(q)
    BY <2>2, <2>4, <2>5
  <2>7. clipToLand(shape, wet) \in Parts(dry)
    BY <2>1, <2>5, <2>6
  <2>8. QED
    BY <1>2, <2>7
<1>5. QED
  BY <1>3, <1>4

(* Water that a perimeter of ordinary slope and noise reaches is near it,  *)
(* by the filter.                                                          *)
LEMMA ReachedIsNear ==
  ASSUME PerimetersInv, NEW f \in LiveFires, NEW b \in Water, NEW p \in frame.outline[f], p \in Span(b),
         \A way \in {"up", "down"} : (IF f \in frame.biased THEN Slope[f][way] ELSE 100) * Noise[f] <= 13000
  PROVE  isNearAnyFire(b, frame.report, frame.weather, frame.at)
<1> DEFINE r == frame.report[f]
           age == GrowthAge(f, r, frame.at)
           head == headDistance(f, frame.weather, age)
           back == backDistance(f, head)
           down == OutlineRadius(f, back, "down", frame.biased)
           up == OutlineRadius(f, head, "up", frame.biased)
           reach == (13 * head) \div 10
           lowest == Min(Shore[b])
           highest == Max(Shore[b])
<1>1. f \in growableFires(frame.report) /\ p \in FirePolygon(f, r, frame.weather, frame.at, frame.biased)
  BY DEF PerimetersInv, FrameFits
<1>2. p \in (Place[f] - down)..(Place[f] + up)
  BY <1>1 DEF FirePolygon
<1>3. r \in Reports /\ frame.weather \in Weathers /\ frame.at \in 0..clock /\ clock \in 0..MaxClock
  BY DEF PerimetersInv, PerimetersKnown, FrameFits
<1>4. frame.at \in Nat
  BY <1>3
<1>5. estimateMaxReach(f, r, frame.weather, frame.at) = reach + 1
  BY DEF estimateMaxReach
<1>6. \A m : /\ Place[f] \in (lowest - m)..(highest + m) /\ m = estimateMaxReach(f, r, frame.weather, frame.at)
             => isNearAnyFire(b, frame.report, frame.weather, frame.at)
  BY <1>1 DEF isNearAnyFire
<1> HIDE DEF r
<1>7. head \in Nat /\ Size[f] <= head
  BY <1>3, <1>4, AgeIsNumber, HeadIsNumber
<1> HIDE DEF age, head
<1>8. back \in Nat /\ back <= head
  BY <1>7, BackIsLess
<1> HIDE DEF back
<1>9. down \in Int /\ up \in Int /\ down <= reach /\ up <= reach
  BY <1>7, <1>8, RadiusIsNumber, RadiusIsShort
<1>10. Place[f] \in Int
  BY PerimetersAssumption
<1>11. reach \in Int
  BY <1>7
<1>12. /\ Shore[b] \subseteq Int /\ Shore[b] # {} /\ IsFiniteSet(Shore[b])
  BY PerimetersAssumption
<1>13. lowest \in Int /\ highest \in Int /\ \A x \in Shore[b] : lowest <= x /\ x <= highest
  BY <1>12, LeastOfFinite, GreatestOfFinite
<1>14. \E x \in Shore[b] : p \in (x - 1)..(x + 1)
  <2>1. CASE b \in Rivers
    BY <2>1 DEF Span, RiverBuffer
  <2>2. CASE b \notin Rivers
    <3>1. p \in Shore[b] /\ p \in Int
      BY <1>12, <2>2 DEF Span
    <3>2. p \in (p - 1)..(p + 1)
      BY <3>1
    <3>3. QED
      BY <3>1, <3>2
  <2>3. QED
    BY <2>1, <2>2
<1> HIDE DEF down, up, reach, lowest, highest
<1>15. PICK x \in Shore[b] : p \in (x - 1)..(x + 1)
  BY <1>14
<1>16. x \in Int /\ lowest <= x /\ x <= highest /\ x - 1 <= p /\ p <= x + 1 /\ p \in Int
  BY <1>12, <1>13, <1>15
<1>17. Place[f] - down <= p /\ p <= Place[f] + up
  BY <1>2, <1>9, <1>10, <1>16
<1>18. Place[f] \in (lowest - (reach + 1))..(highest + (reach + 1))
  BY <1>9, <1>10, <1>11, <1>13, <1>16, <1>17
<1>19. QED
  BY <1>5, <1>6, <1>18

LEMMA ShoreIsHeld ==
  ASSUME PerimetersInv, GroupsAreBridged PROVE ShoreHolds
<1> SUFFICES ASSUME NEW k \in DOMAIN Groups, NEW b \in frame.water,
                    Touch(Shape(Groups[k]), Span(b)), frame.blockingAt = frame.at,
                    \A f \in Groups[k] : \A way \in {"up", "down"} :
                       (IF f \in frame.biased THEN Slope[f][way] ELSE 100) * Noise[f] <= 13000
             PROVE  Shape(Groups[k]) \subseteq unionWaterPolygons(frame.blocking)
  BY DEF ShoreHolds
<1> DEFINE group == Groups[k]
           drawn == UNION {frame.outline[f] : f \in group}
           wet == unionWaterPolygons(frame.blocking)
<1>1. Shape(group) = clipToLand(drawn, wet)
  BY DEF Shape
<1>2. group \subseteq LiveFires
  <2>1. group \in ToSet(Groups)
    BY DEF ToSet
  <2>2. UNION ToSet(Groups) \subseteq LiveFires
    BY DEF GroupsAreBridged
  <2>3. QED
    BY <2>1, <2>2
<1>3. IsFiniteSet(drawn)
  BY <1>2, DrawnIsFinite
<1>4. b \in Water
  BY DEF PerimetersInv, PerimetersKnown, FrameFits
<1>5. CASE drawn \ wet = {}
  <2>1. Shape(group) = drawn
    BY <1>1, <1>5 DEF clipToLand
  <2>2. QED
    BY <1>5, <2>1
<1>6. CASE drawn \ wet # {}
  <2>1. Shape(group) \subseteq drawn \ wet
    <3> HIDE DEF drawn, wet
    <3>1. clipToLand(drawn, wet) \subseteq drawn \ wet
      BY <1>3, <1>6, ClipLeavesLand
    <3>2. QED
      BY <1>1, <3>1
  <2>2. PICK p : p \in Shape(group) /\ p \in Span(b)
    BY DEF Touch
  <2>3. p \in drawn /\ p \notin wet
    BY <2>1, <2>2
  <2>4. PICK f \in group : p \in frame.outline[f]
    BY <2>3
  <2>5. isNearAnyFire(b, frame.report, frame.weather, frame.at)
    BY <1>2, <1>4, <2>2, <2>4, ReachedIsNear
  <2>6. b \in frame.blocking
    BY <2>5 DEF PerimetersInv, FrameFits, NearbyWater
  <2>7. p \in wet
    BY <2>2, <2>6 DEF unionWaterPolygons
  <2>8. QED
    BY <2>3, <2>7
<1>7. QED
  BY <1>5, <1>6

-----------------------------------------------------------------------------
(***************************************************************************)
(* One way (PerimetersMoveOneWay): everything a radius is computed from    *)
(* grows with the age of a fire.                                           *)
(***************************************************************************)

(* The ease at the beginning. *)
LEMMA EaseInGrows ==
  ASSUME NEW a \in Nat, NEW b \in Nat, a <= b
  PROVE  easeIn(a) \in Nat /\ easeIn(b) \in Nat /\ easeIn(a) <= easeIn(b)
<1> DEFINE c == a + EaseInTime
           d == b + EaseInTime
           p == (100 * a) \div c
           q == (100 * b) \div d
<1>1. EaseInTime \in Nat \ {0}
  BY PerimetersAssumption
<1>2. c \in Nat \ {0} /\ d \in Nat \ {0} /\ a <= c /\ c <= d /\ d - c = b - a
  BY <1>1
<1>3. easeIn(a) = p /\ easeIn(b) = q
  BY DEF easeIn
<1> HIDE DEF c, d
<1>4. p \in Nat /\ c * p <= 100 * a
  BY <1>2
<1>5. q \in Nat /\ 100 * b < d * q + d
  BY <1>2
<1> HIDE DEF p, q
<1>6. p <= 100
  <2> SUFFICES ASSUME 101 <= p PROVE FALSE
    BY <1>4
  <2>1. c * 101 <= c * p /\ c * p \in Nat
    BY <1>2, <1>4, ProductGrows
  <2>2. c * 101 = 101 * c
    BY <1>2
  <2>3. QED
    BY <1>2, <1>4, <2>1, <2>2
<1>7. d * p <= 100 * b
  <2> DEFINE e == d - c
  <2>1. e \in Nat /\ d = c + e /\ b = a + e
    BY <1>2
  <2> HIDE DEF e
  <2>2. e * p <= e * 100 /\ e * p \in Nat
    BY <1>4, <1>6, <2>1, ProductGrows
  <2>3. d * p = c * p + e * p /\ c * p \in Nat
    BY <1>2, <1>4, <2>1
  <2>4. e * 100 = 100 * e
    BY <2>1
  <2>5. d * p <= 100 * a + 100 * e
    <3> DEFINE x == c * p
               y == e * p
    <3>1. x \in Nat /\ y \in Nat /\ d * p = x + y /\ x <= 100 * a /\ y <= 100 * e
      BY <1>4, <2>2, <2>3, <2>4
    <3> HIDE DEF x, y
    <3>2. QED
      BY <2>1, <3>1
  <2>6. QED
    BY <2>1, <2>5
<1>8. p <= q
  <2> SUFFICES ASSUME q + 1 <= p PROVE FALSE
    BY <1>4, <1>5
  <2>1. d * (q + 1) <= d * p /\ d * p \in Nat
    <3>1. q + 1 \in Nat /\ d \in Nat
      BY <1>2, <1>5
    <3>2. QED
      BY <1>4, <3>1, ProductGrows
  <2>2. d * (q + 1) = d * q + d /\ d * q \in Nat
    BY <1>2, <1>5
  <2> DEFINE x == d * p
             y == d * q
  <2>3. x \in Nat /\ y \in Nat /\ y + d <= x /\ x <= 100 * b /\ 100 * b < y + d
    BY <1>5, <1>7, <2>1, <2>2
  <2> HIDE DEF x, y
  <2>4. QED
    BY <1>2, <2>3
<1>9. QED
  BY <1>3, <1>4, <1>5, <1>8

(* A fire that has grown for longer reaches further. *)
LEMMA HeadGrows ==
  ASSUME NEW f \in LiveFires, NEW w \in Weathers, NEW a \in Nat, NEW b \in Nat, a <= b
  PROVE  headDistance(f, w, a) <= headDistance(f, w, b)
<1>1. HeadRate(w) \in Nat
  BY RateIsNumber
<1> DEFINE p == HeadRate(w) * a * easeIn(a)
           q == HeadRate(w) * b * easeIn(b)
<1>2. easeIn(a) \in Nat /\ easeIn(b) \in Nat /\ easeIn(a) <= easeIn(b)
  BY EaseInGrows
<1>3. HeadRate(w) * a \in Nat /\ HeadRate(w) * b \in Nat /\ HeadRate(w) * a <= HeadRate(w) * b
  BY <1>1, ProductGrows
<1>4. p \in Nat /\ q \in Nat /\ p <= q
  BY <1>2, <1>3, ProductGrows
<1>5. /\ headDistance(f, w, a) = PMin(Size[f] + p \div 1000000, PMax(MaxRadius, Size[f]))
      /\ headDistance(f, w, b) = PMin(Size[f] + q \div 1000000, PMax(MaxRadius, Size[f]))
  BY DEF headDistance
<1> HIDE DEF p, q
<1>6. p \div 1000000 \in Nat /\ q \div 1000000 \in Nat /\ p \div 1000000 <= q \div 1000000
  BY <1>4
<1>7. Size[f] \in Nat /\ MaxRadius \in Nat
  BY PerimetersAssumption
<1>8. QED
  BY <1>5, <1>6, <1>7 DEF PMin, PMax

LEMMA BackGrows ==
  ASSUME NEW f \in LiveFires, NEW a \in Nat, NEW b \in Nat, Size[f] <= a, a <= b
  PROVE  backDistance(f, a) <= backDistance(f, b)
<1>1. Size[f] \in Nat
  BY PerimetersAssumption
<1> DEFINE p == 15 * (a - Size[f])
           q == 15 * (b - Size[f])
<1>2. p \in Nat /\ q \in Nat /\ p <= q
  BY <1>1
<1>3. backDistance(f, a) = Size[f] + p \div 100 /\ backDistance(f, b) = Size[f] + q \div 100
  BY DEF backDistance
<1> HIDE DEF p, q
<1>4. p \div 100 \in Nat /\ q \div 100 \in Nat /\ p \div 100 <= q \div 100
  BY <1>2
<1>5. QED
  BY <1>1, <1>3, <1>4

LEMMA RadiusGrows ==
  ASSUME NEW f \in LiveFires, NEW a \in Nat, NEW b \in Nat, a <= b, NEW way \in {"up", "down"},
         NEW known, NEW later, f \in known <=> f \in later
  PROVE  OutlineRadius(f, a, way, known) <= OutlineRadius(f, b, way, later)
<1>1. Size[f] \in Nat /\ MaxRadius \in Nat /\ Noise[f] \in Nat
  <2>1. Size[f] \in Nat /\ MaxRadius \in Nat /\ Noise[f] \in 0..200
    BY PerimetersAssumption
  <2>2. QED
    BY <2>1
<1>2. terrainFactorAt(f, way, known) \in Nat /\ terrainFactorAt(f, way, later) = terrainFactorAt(f, way, known)
  BY PerimetersAssumption DEF terrainFactorAt
<1> DEFINE t == terrainFactorAt(f, way, known)
           p == a * t * Noise[f]
           q == b * t * Noise[f]
<1>3. /\ OutlineRadius(f, a, way, known) = PMin((13 * PMax(MaxRadius, Size[f])) \div 10, PMax(0, p \div 10000))
      /\ OutlineRadius(f, b, way, later) = PMin((13 * PMax(MaxRadius, Size[f])) \div 10, PMax(0, q \div 10000))
  BY <1>2 DEF OutlineRadius
<1> HIDE DEF t
<1>4. t \in Nat
  BY <1>2 DEF t
<1>5. a * t \in Nat /\ b * t \in Nat /\ a * t <= b * t
  BY <1>4, ProductGrows
<1>6. p \in Nat /\ q \in Nat /\ p <= q
  BY <1>1, <1>5, ProductGrows
<1> HIDE DEF p, q
<1>7. p \div 10000 \in Nat /\ q \div 10000 \in Nat /\ p \div 10000 <= q \div 10000
  BY <1>6
<1> DEFINE cap == (13 * PMax(MaxRadius, Size[f])) \div 10
<1>8. cap \in Int
  BY <1>1 DEF PMax
<1> HIDE DEF cap
<1>9. PMin(cap, PMax(0, p \div 10000)) <= PMin(cap, PMax(0, q \div 10000))
  BY <1>7, <1>8 DEF PMin, PMax
<1>10. QED
  BY <1>3, <1>9 DEF cap

(* The outline of one that counts as older contains that of the younger. *)
LEMMA PolygonGrows ==
  ASSUME NEW f \in LiveFires, NEW r \in Reports, NEW w \in Weathers, NEW now \in Nat, NEW then \in Nat,
         NEW known, NEW later, f \in known <=> f \in later,
         GrowthAge(f, r, now) <= GrowthAge(f, r, then)
  PROVE  FirePolygon(f, r, w, now, known) \subseteq FirePolygon(f, r, w, then, later)
<1> DEFINE a == headDistance(f, w, GrowthAge(f, r, now))
           b == headDistance(f, w, GrowthAge(f, r, then))
<1>1. /\ GrowthAge(f, r, now) \in Nat /\ GrowthAge(f, r, then) \in Nat
  BY AgeIsNumber
<1>2. a \in Nat /\ Size[f] <= a /\ b \in Nat /\ Size[f] <= b /\ a <= b
  BY <1>1, HeadIsNumber, HeadGrows
<1>3. /\ FirePolygon(f, r, w, now, known)
         = (Place[f] - OutlineRadius(f, backDistance(f, a), "down", known))
              .. (Place[f] + OutlineRadius(f, a, "up", known))
      /\ FirePolygon(f, r, w, then, later)
         = (Place[f] - OutlineRadius(f, backDistance(f, b), "down", later))
              .. (Place[f] + OutlineRadius(f, b, "up", later))
  BY DEF FirePolygon
<1> HIDE DEF a, b
<1>4. backDistance(f, a) \in Nat /\ backDistance(f, b) \in Nat /\ backDistance(f, a) <= backDistance(f, b)
  BY <1>2, BackIsLess, BackGrows
<1> DEFINE low == OutlineRadius(f, backDistance(f, a), "down", known)
           lower == OutlineRadius(f, backDistance(f, b), "down", later)
           high == OutlineRadius(f, a, "up", known)
           higher == OutlineRadius(f, b, "up", later)
<1>5. low \in Int /\ lower \in Int /\ low <= lower
  BY <1>4, RadiusIsNumber, RadiusGrows
<1>6. high \in Int /\ higher \in Int /\ high <= higher
  BY <1>2, RadiusIsNumber, RadiusGrows
<1>7. Place[f] \in Int
  BY PerimetersAssumption
<1> HIDE DEF low, lower, high, higher
<1>8. (Place[f] - low)..(Place[f] + high) \subseteq (Place[f] - lower)..(Place[f] + higher)
  BY <1>5, <1>6, <1>7
<1>9. QED
  BY <1>3, <1>8 DEF low, lower, high, higher

(* How the age that counts moves: with the time, not at all, back to 0.    *)
LEMMA AgesMoveOneWay ==
  ASSUME NEW f \in LiveFires, NEW r \in Reports, NEW now \in Nat, NEW then \in Nat, now <= then, r.changed <= now
  PROVE  /\ r.status = "active" => GrowthAge(f, r, now) <= GrowthAge(f, r, then)
         /\ r.status = "contained" => GrowthAge(f, r, now) = GrowthAge(f, r, then)
         /\ r.status = "extinguished" => /\ GrowthAge(f, r, then) <= GrowthAge(f, r, now)
                                         /\ Gone(r, now) => Gone(r, then)
<1>1. Ignited[f] \in Int /\ r.changed \in Int /\ FadeTime \in Nat \ {0}
  BY PerimetersAssumption DEF Reports
<1>2. LiveAge(f, now) \in Nat /\ LiveAge(f, then) \in Nat /\ LiveAge(f, now) <= LiveAge(f, then)
  BY <1>1 DEF LiveAge, PMax
<1>3. FrozenAge(f, r) \in Nat /\ FrozenAge(f, r) <= LiveAge(f, now)
  BY <1>1 DEF LiveAge, FrozenAge, PMax
<1>4. PMin(LiveAge(f, now), FrozenAge(f, r)) = FrozenAge(f, r) /\ PMin(LiveAge(f, then), FrozenAge(f, r)) = FrozenAge(f, r)
  BY <1>2, <1>3 DEF PMin
<1>5. FadeLeft(r, now) \in Nat /\ FadeLeft(r, then) \in Nat /\ FadeLeft(r, then) <= FadeLeft(r, now)
  BY <1>1 DEF FadeLeft, PMin, PMax
<1>6. CASE r.status = "active"
  BY <1>2, <1>6 DEF GrowthAge
<1>7. CASE r.status = "contained"
  BY <1>4, <1>7 DEF GrowthAge
<1>8. CASE r.status = "extinguished"
  <2> DEFINE p == FrozenAge(f, r) * FadeLeft(r, then)
             q == FrozenAge(f, r) * FadeLeft(r, now)
  <2>1. p \in Nat /\ q \in Nat /\ p <= q
    BY <1>3, <1>5, ProductGrows
  <2>2. GrowthAge(f, r, then) = p \div FadeTime /\ GrowthAge(f, r, now) = q \div FadeTime
    BY <1>4, <1>8 DEF GrowthAge
  <2> HIDE DEF p, q
  <2>3. p \div FadeTime <= q \div FadeTime
    BY <1>1, <2>1, QuotientGrows
  <2>4. Gone(r, now) => Gone(r, then)
    BY <1>5 DEF Gone
  <2>5. QED
    BY <1>8, <2>2, <2>3, <2>4
<1>9. r.status \in {"active", "contained", "extinguished"}
  BY DEF Reports
<1>10. QED
  BY <1>6, <1>7, <1>8, <1>9
(* A frame is drawn after the one before it, or is the same. *)
LEMMA FramesFollow ==
  ASSUME PerimetersInv, PerimetersNext \/ UNCHANGED perimeterVars, frame'.drawn, frame' # frame
  PROVE  frame.at <= frame'.at
<1>1. clock \in Nat /\ MaxClock \in Nat /\ frame.at \in 0..clock /\ clock \in 0..MaxClock
  BY PerimetersAssumption DEF PerimetersInv, PerimetersKnown, FrameFits
<1>2. pushFrame => frame'.at = clock'
  <2> SUFFICES ASSUME pushFrame PROVE frame'.at = clock'
    OBVIOUS
  <2>1. CASE growableFires(report') = {}
    <3>1. frame' = [NoFrame EXCEPT !.report = report']
      BY <2>1 DEF pushFrame
    <3>2. frame'.drawn = FALSE
      BY <3>1 DEF NoFrame
    <3>3. QED
      BY <3>2
  <2>2. CASE growableFires(report') # {}
    <3>1. frame' = Frame(clock')
      BY <2>2 DEF pushFrame
    <3>2. QED
      BY <3>1 DEF Frame
  <2>3. QED
    BY <2>1, <2>2
<1>3. clock' \in Nat /\ clock <= clock' /\ pushFrame
  <2>1. CASE GrowthTick
    <3>1. clock' = PMin(clock + 1, MaxClock) /\ pushFrame
      BY <2>1 DEF GrowthTick
    <3>2. QED
      BY <1>1, <3>1 DEF PMin
  <2>2. ASSUME NEW w \in Weathers, WeatherArrives(w) PROVE pushFrame /\ clock' = clock
    BY <2>2 DEF WeatherArrives
  <2>3. ASSUME NEW some \in SUBSET LiveFires, BiasArrives(some) PROVE pushFrame /\ clock' = clock
    BY <2>3 DEF BiasArrives
  <2>4. ASSUME NEW b \in Water, WaterArrives(b) PROVE FALSE
    BY <2>4 DEF WaterArrives
  <2>5. ASSUME NEW f \in LiveFires, NEW s \in {"active", "contained", "extinguished"}, StatusSet(f, s) \/ Merged(f)
        PROVE  pushFrame /\ clock' = clock
    BY <2>5 DEF StatusSet, Merged, ReportChanges
  <2>6. ~MapMoves /\ ~MapRests /\ ~UNCHANGED perimeterVars
    BY DEF MapMoves, MapRests, perimeterVars
  <2>7. QED
    BY <1>1, <2>1, <2>2, <2>3, <2>4, <2>5, <2>6 DEF PerimetersNext
<1>4. QED
  BY <1>1, <1>2, <1>3

(* What PerimetersMoveOneWay says of one fire and one step. *)
MovesOneWay(f) ==
  LET old == frame.outline[f]  new == frame'.outline[f]
  IN  /\ frame.drawn /\ frame'.drawn /\ frame.weather = frame'.weather
      /\ f \in frame.biased <=> f \in frame'.biased
      /\ frame.report[f] = frame'.report[f]
      => CASE frame.report[f].status = "active" -> old \subseteq new
           [] frame.report[f].status = "contained" -> old = new
           [] frame.report[f].status = "extinguished" -> new \subseteq old

LEMMA PerimetersMove ==
  ASSUME PerimetersInv, PerimetersInv', PerimetersNext \/ UNCHANGED perimeterVars, NEW f \in LiveFires
  PROVE  MovesOneWay(f)
<1> SUFFICES ASSUME frame.drawn, frame'.drawn, frame.weather = frame'.weather,
                    f \in frame.biased <=> f \in frame'.biased, frame.report[f] = frame'.report[f]
             PROVE  CASE frame.report[f].status = "active" -> frame.outline[f] \subseteq frame'.outline[f]
                      [] frame.report[f].status = "contained" -> frame.outline[f] = frame'.outline[f]
                      [] frame.report[f].status = "extinguished" -> frame'.outline[f] \subseteq frame.outline[f]
  BY DEF MovesOneWay
<1>1. PICK r : r = frame.report[f]
  OBVIOUS
<1>2. PICK now, then, w, known, later :
        now = frame.at /\ then = frame'.at /\ w = frame.weather /\ known = frame.biased /\ later = frame'.biased
  OBVIOUS
<1>3. r \in Reports /\ w \in Weathers /\ r.changed <= now
  BY <1>1, <1>2 DEF PerimetersInv, FrameFits
<1>4. now \in Nat /\ then \in Nat
  <2>1. now \in 0..clock /\ clock \in 0..MaxClock /\ then \in 0..clock' /\ clock' \in 0..MaxClock
    BY <1>2 DEF PerimetersInv, PerimetersKnown, FrameFits
  <2>2. QED
    BY <2>1
<1>5. r.status \in {"active", "contained", "extinguished"}
  BY <1>3 DEF Reports
<1>6. CASE frame' = frame
  BY <1>1, <1>5, <1>6
<1>7. CASE frame' # frame
  <2>1. now <= then
    BY <1>2, <1>7, FramesFollow
  <2>2. f \in growableFires(frame.report) <=> f \in growableFires(frame'.report)
    BY DEF growableFires
  <2>3. CASE f \notin growableFires(frame.report)
    <3>1. frame.outline[f] = {} /\ frame'.outline[f] = {}
      BY <2>2, <2>3 DEF PerimetersInv, FrameFits
    <3>2. QED
      BY <1>1, <1>5, <3>1
  <2>4. CASE f \in growableFires(frame.report)
    <3>1. frame.outline[f] = IF Gone(r, now) THEN {} ELSE FirePolygon(f, r, w, now, known)
      BY <1>1, <1>2, <2>4 DEF PerimetersInv, FrameFits
    <3>2. frame'.outline[f] = IF Gone(r, then) THEN {} ELSE FirePolygon(f, r, w, then, later)
      BY <1>1, <1>2, <2>2, <2>4 DEF PerimetersInv, FrameFits
    <3>3. f \in known <=> f \in later
      BY <1>2
    <3>4. CASE r.status = "active"
      <4>1. GrowthAge(f, r, now) <= GrowthAge(f, r, then) /\ ~Gone(r, now) /\ ~Gone(r, then)
        BY <1>3, <1>4, <2>1, <3>4, AgesMoveOneWay DEF Gone
      <4>2. FirePolygon(f, r, w, now, known) \subseteq FirePolygon(f, r, w, then, later)
        BY <1>3, <1>4, <3>3, <4>1, PolygonGrows
      <4>3. QED
        BY <1>1, <3>1, <3>2, <3>4, <4>1, <4>2
    <3>5. CASE r.status = "contained"
      <4>1. GrowthAge(f, r, now) = GrowthAge(f, r, then) /\ ~Gone(r, now) /\ ~Gone(r, then)
        BY <1>3, <1>4, <2>1, <3>5, AgesMoveOneWay DEF Gone
      <4>2. GrowthAge(f, r, now) \in Nat /\ GrowthAge(f, r, then) \in Nat
        BY <1>3, <1>4, AgeIsNumber
      <4>3. GrowthAge(f, r, now) <= GrowthAge(f, r, then) /\ GrowthAge(f, r, then) <= GrowthAge(f, r, now)
        BY <4>1, <4>2
      <4>4. FirePolygon(f, r, w, now, known) = FirePolygon(f, r, w, then, later)
        <5>1. FirePolygon(f, r, w, now, known) \subseteq FirePolygon(f, r, w, then, later)
          BY <1>3, <1>4, <3>3, <4>3, PolygonGrows
        <5>2. FirePolygon(f, r, w, then, later) \subseteq FirePolygon(f, r, w, now, known)
          BY <1>3, <1>4, <3>3, <4>3, PolygonGrows
        <5>3. QED
          BY <5>1, <5>2
      <4>5. QED
        BY <1>1, <3>1, <3>2, <3>5, <4>1, <4>4
    <3>6. CASE r.status = "extinguished"
      <4>1. GrowthAge(f, r, then) <= GrowthAge(f, r, now) /\ (Gone(r, now) => Gone(r, then))
        BY <1>3, <1>4, <2>1, <3>6, AgesMoveOneWay
      <4>2. FirePolygon(f, r, w, then, later) \subseteq FirePolygon(f, r, w, now, known)
        BY <1>3, <1>4, <3>3, <4>1, PolygonGrows
      <4>3. QED
        BY <1>1, <3>1, <3>2, <3>6, <4>1, <4>2
    <3>7. QED
      BY <1>5, <3>4, <3>5, <3>6
  <2>5. QED
    BY <2>3, <2>4
<1>8. QED
  BY <1>6, <1>7

-----------------------------------------------------------------------------
(***************************************************************************)
(* MapWater.                                                               *)
(***************************************************************************)

(* What is behind WaterIsOfTheView: the map that waits for tiles will      *)
(* report that it is idle; a view that counts as searched is near enough,  *)
(* and its bodies are shown unless half the tiles were searched since; and *)
(* nothing is shown that was not found.                                    *)
TilesAreAwaited == ~tilesLoaded => idleDue
SearchIsRemembered ==
  /\ lastViewKey # NoView => /\ lastViewKey \notin FarViews
                             /\ partly \/ waterBodies = Bodies(InView[lastViewKey])
  /\ ~signed => waterBodies = {}
AsksAreViews == \A n \in DOMAIN asking : asking[n] \in Views
WaterInv ==
  /\ WaterTypeOK /\ AsksAreViews /\ TilesAreAwaited /\ SearchIsRemembered
  /\ WaterIsOfTheView /\ OsmIsOfItsBounds

LEMMA WaterBegins == WaterInit => WaterInv
<1> SUFFICES ASSUME WaterInit PROVE WaterInv
  OBVIOUS
<1>1. /\ view \in Views /\ lastViewKey = NoView /\ waterBodies = {} /\ requestId = 0 /\ asking = <<>>
      /\ lastBounds = NoView /\ osmWater = NoView /\ viewMoves = 0 /\ osmLoading = FALSE
  BY DEF WaterInit
<1>2. {tilesLoaded, styleLoaded, idleDue, detectTimer, fetchTimer, signed, partly, osmLoading} \subseteq BOOLEAN
  BY DEF WaterInit
<1>3. DOMAIN asking = {} /\ UNION waterBodies = {} /\ 0 \in 0..MaxViewMoves /\ requestId \in Nat
  BY <1>1, WaterAssumption
<1>4. WaterTypeOK
  BY <1>1, <1>2, <1>3 DEF WaterTypeOK
<1>5. TilesAreAwaited /\ SearchIsRemembered /\ WaterIsOfTheView
  BY DEF WaterInit, TilesAreAwaited, SearchIsRemembered, WaterIsOfTheView
<1>6. AsksAreViews /\ OsmIsOfItsBounds
  BY <1>1, <1>3 DEF AsksAreViews, OsmIsOfItsBounds
<1>7. QED
  BY <1>4, <1>5, <1>6 DEF WaterInv

(* The bodies found among some fragments are made of them. *)
LEMMA BodiesAreFound == ASSUME NEW found PROVE UNION Bodies(found) \subseteq found
<1>1. \A p \in mergeFragments(found) : p \subseteq found
  BY DEF mergeFragments
<1>2. Bodies(found) \subseteq mergeFragments(found)
  BY DEF Bodies
<1>3. QED
  BY <1>1, <1>2

LEMMA MoveKeepsWater == ASSUME WaterInv, NEW v \in Views, MoveTo(v) PROVE WaterInv'
<1>1. WaterTypeOK'
  <2>1. viewMoves' \in 0..MaxViewMoves
    BY WaterAssumption DEF MoveTo, WaterInv, WaterTypeOK
  <2>2. QED
    BY <2>1 DEF MoveTo, WaterInv, WaterTypeOK, tileVars
<1>2. AsksAreViews' /\ OsmIsOfItsBounds'
  BY DEF MoveTo, WaterInv, AsksAreViews, OsmIsOfItsBounds
<1>3. SearchIsRemembered'
  BY DEF MoveTo, WaterInv, SearchIsRemembered, tileVars
<1>4. TilesAreAwaited' /\ WaterIsOfTheView'
  BY DEF MoveTo, TilesAreAwaited, WaterIsOfTheView
<1>5. QED
  BY <1>1, <1>2, <1>3, <1>4 DEF WaterInv

LEMMA TilesKeepWater ==
  ASSUME WaterInv, TilesLoad \/ StyleLoads \/ SourceUpdates \/ scheduleDetect PROVE WaterInv'
<1>1. /\ UNCHANGED <<view, lastViewKey, waterBodies, signed, partly, osmVars>>
      /\ viewMoves' = viewMoves \/ (viewMoves < MaxViewMoves /\ viewMoves' = viewMoves + 1)
      /\ {tilesLoaded', styleLoaded', idleDue', detectTimer'} \subseteq BOOLEAN
  BY DEF WaterInv, WaterTypeOK, TilesLoad, StyleLoads, SourceUpdates, scheduleDetect, tileVars
<1>2. viewMoves' \in 0..MaxViewMoves
  BY <1>1, WaterAssumption DEF WaterInv, WaterTypeOK
<1>3. WaterTypeOK' /\ AsksAreViews' /\ OsmIsOfItsBounds' /\ SearchIsRemembered'
  BY <1>1, <1>2 DEF WaterInv, WaterTypeOK, AsksAreViews, OsmIsOfItsBounds, SearchIsRemembered, osmVars
<1>4. TilesAreAwaited' /\ WaterIsOfTheView'
  BY DEF WaterInv, TilesLoad, StyleLoads, SourceUpdates, scheduleDetect, TilesAreAwaited, WaterIsOfTheView, tileVars
<1>5. QED
  BY <1>3, <1>4 DEF WaterInv

LEMMA DetectKeepsWater == ASSUME WaterInv, detect PROVE WaterInv'
<1>1. /\ detectTimer' = FALSE
      /\ UNCHANGED <<view, tilesLoaded, styleLoaded, idleDue, viewMoves, osmVars>>
  BY DEF detect, mapMoveVars
<1>2. AsksAreViews' /\ OsmIsOfItsBounds' /\ TilesAreAwaited'
  BY <1>1 DEF WaterInv, AsksAreViews, OsmIsOfItsBounds, TilesAreAwaited, osmVars
<1>3. ASSUME /\ {signed', partly'} \subseteq BOOLEAN /\ lastViewKey' \in Views \cup {NoView}
             /\ UNION waterBodies' \subseteq Fragments
             /\ SearchIsRemembered' /\ WaterIsOfTheView'
      PROVE  WaterInv'
  BY <1>1, <1>2, <1>3 DEF WaterInv, WaterTypeOK, osmVars
<1>4. CASE UNCHANGED <<waterBodies, signed, lastViewKey, partly>> /\ (styleLoaded => view = lastViewKey)
  <2>1. SearchIsRemembered'
    BY <1>4 DEF WaterInv, SearchIsRemembered
  <2>2. WaterIsOfTheView'
    BY <1>1, <1>4, WaterAssumption DEF WaterInv, WaterTypeOK, SearchIsRemembered, WaterIsOfTheView
  <2>3. QED
    BY <1>3, <1>4, <2>1, <2>2 DEF WaterInv, WaterTypeOK
<1>5. CASE view \in FarViews /\ ClearFarView
  <2>1. /\ waterBodies' = {} /\ partly' \in BOOLEAN /\ signed' \in BOOLEAN
        /\ lastViewKey' \in {lastViewKey, NoView}
        /\ lastViewKey' # NoView => UNCHANGED <<waterBodies, lastViewKey, partly>>
    BY <1>5 DEF ClearFarView, WaterInv, WaterTypeOK, SearchIsRemembered
  <2>2. SearchIsRemembered' /\ WaterIsOfTheView'
    BY <1>1, <1>5, <2>1 DEF WaterInv, SearchIsRemembered, WaterIsOfTheView
  <2>3. QED
    BY <1>3, <2>1, <2>2 DEF WaterInv, WaterTypeOK
<1>6. CASE /\ view \notin FarViews
           /\ \E found \in SUBSET InView[view] : (tilesLoaded => found = InView[view]) /\ Search(found)
  <2>1. PICK found \in SUBSET InView[view] : (tilesLoaded => found = InView[view]) /\ Search(found)
    BY <1>6
  <2>2. /\ lastViewKey' = (IF tilesLoaded THEN view ELSE lastViewKey)
        /\ partly' = ~tilesLoaded /\ waterBodies' = Bodies(found) /\ signed' = TRUE
    BY <2>1 DEF Search
  <2>3. UNION waterBodies' \subseteq Fragments
    BY <2>2, BodiesAreFound, WaterAssumption DEF WaterInv, WaterTypeOK
  <2>4. SearchIsRemembered'
    BY <1>6, <2>1, <2>2 DEF WaterInv, SearchIsRemembered
  <2>5. WaterIsOfTheView'
    BY <1>1, <1>6, <2>1, <2>2 DEF WaterIsOfTheView
  <2>6. {signed', partly'} \subseteq BOOLEAN /\ lastViewKey' \in Views \cup {NoView}
    BY <2>2 DEF WaterInv, WaterTypeOK
  <2>7. QED
    BY <1>3, <2>3, <2>4, <2>5, <2>6
<1>7. QED
  BY <1>4, <1>5, <1>6 DEF detect

LEMMA FetchKeepsWater ==
  ASSUME WaterInv,
         maybeFetch \/ \E n \in DOMAIN asking : FetchAnswers(n) \/ FetchFails(n)
  PROVE  WaterInv'
<1>1. UNCHANGED <<mapMoveVars, tileVars>> \/ (UNCHANGED <<mapMoveVars, tileVars>> /\ fetchTimer' = FALSE)
  BY DEF maybeFetch, FetchAnswers, FetchFails
<1>2. /\ UNCHANGED <<view, tilesLoaded, styleLoaded, idleDue, viewMoves, detectTimer, lastViewKey, waterBodies, signed, partly>>
  BY <1>1 DEF mapMoveVars, tileVars
<1>3. TilesAreAwaited' /\ SearchIsRemembered' /\ WaterIsOfTheView'
  BY <1>2 DEF WaterInv, TilesAreAwaited, SearchIsRemembered, WaterIsOfTheView
<1>4. ASSUME /\ requestId' \in Nat /\ DOMAIN asking' \subseteq 1..requestId'
             /\ {fetchTimer', osmLoading'} \subseteq BOOLEAN
             /\ lastBounds' \in Views \cup {NoView} /\ AsksAreViews' /\ OsmIsOfItsBounds'
      PROVE  WaterInv'
  <2>1. osmWater' = lastBounds'
    BY <1>4 DEF OsmIsOfItsBounds
  <2>2. WaterTypeOK'
    BY <1>2, <1>4, <2>1 DEF WaterInv, WaterTypeOK
  <2>3. QED
    BY <1>3, <1>4, <2>2 DEF WaterInv
<1>5. CASE maybeFetch /\ UNCHANGED <<asking, requestId, osmLoading>>
  <2>1. UNCHANGED <<asking, requestId, osmLoading, lastBounds, osmWater>> /\ fetchTimer' = FALSE
    BY <1>5 DEF maybeFetch
  <2>2. AsksAreViews' /\ OsmIsOfItsBounds'
    BY <2>1 DEF WaterInv, AsksAreViews, OsmIsOfItsBounds
  <2>3. /\ requestId' \in Nat /\ DOMAIN asking' \subseteq 1..requestId'
        /\ {fetchTimer', osmLoading'} \subseteq BOOLEAN /\ lastBounds' \in Views \cup {NoView}
    BY <2>1 DEF WaterInv, WaterTypeOK
  <2>4. QED
    BY <1>4, <2>2, <2>3
<1>6. CASE /\ maybeFetch
           /\ requestId' = requestId + 1
           /\ asking' = [n \in DOMAIN asking \cup {requestId + 1} |->
                           IF n = requestId + 1 THEN view ELSE asking[n]]
           /\ osmLoading' = TRUE
  <2>1. DOMAIN asking' = DOMAIN asking \cup {requestId'} /\ requestId' \in DOMAIN asking'
    BY <1>6
  <2>2. requestId' \in Nat /\ DOMAIN asking' \subseteq 1..requestId'
    BY <1>6, <2>1 DEF WaterInv, WaterTypeOK
  <2>3. AsksAreViews'
    BY <1>6, <2>1 DEF WaterInv, WaterTypeOK, AsksAreViews
  <2>4. fetchTimer' = FALSE /\ UNCHANGED <<lastBounds, osmWater>>
    BY <1>6 DEF maybeFetch
  <2>5. OsmIsOfItsBounds'
    BY <1>6, <2>1, <2>4 DEF WaterInv, OsmIsOfItsBounds
  <2>6. QED
    BY <1>4, <1>6, <2>2, <2>3, <2>4, <2>5 DEF WaterInv, WaterTypeOK
<1>7. ASSUME NEW n \in DOMAIN asking, FetchAnswers(n) \/ FetchFails(n) PROVE WaterInv'
  <2>1. asking' = [m \in DOMAIN asking \ {n} |-> asking[m]] /\ UNCHANGED <<requestId, fetchTimer>>
    BY <1>7 DEF FetchAnswers, FetchFails, Drop
  <2>2. DOMAIN asking' = DOMAIN asking \ {n} /\ AsksAreViews'
    BY <2>1 DEF WaterInv, AsksAreViews
  <2>3. lastBounds' \in Views \cup {NoView} /\ osmLoading' \in BOOLEAN
    BY <1>7 DEF FetchAnswers, FetchFails, WaterInv, WaterTypeOK, AsksAreViews
  <2>4. OsmIsOfItsBounds'
    BY <1>7, <2>1, <2>2 DEF FetchAnswers, FetchFails, WaterInv, OsmIsOfItsBounds
  <2>5. requestId' \in Nat /\ DOMAIN asking' \subseteq 1..requestId' /\ fetchTimer' \in BOOLEAN
    BY <2>1, <2>2 DEF WaterInv, WaterTypeOK
  <2>6. QED
    BY <1>4, <2>2, <2>3, <2>4, <2>5
<1>8. QED
  BY <1>5, <1>6, <1>7 DEF maybeFetch

LEMMA WaterStays == WaterInv /\ [WaterNext]_waterVars => WaterInv'
<1> SUFFICES ASSUME WaterInv, [WaterNext]_waterVars PROVE WaterInv'
  OBVIOUS
<1>1. CASE UNCHANGED waterVars
  BY <1>1 DEF WaterInv, WaterTypeOK, AsksAreViews, TilesAreAwaited, SearchIsRemembered, WaterIsOfTheView,
              OsmIsOfItsBounds, waterVars, tileVars, osmVars, mapMoveVars
<1>2. CASE WaterNext
  BY <1>2, MoveKeepsWater, TilesKeepWater, DetectKeepsWater, FetchKeepsWater DEF WaterNext
<1>3. QED
  BY <1>1, <1>2

-----------------------------------------------------------------------------
(***************************************************************************)
(* LiveQueries: the hooks that ask the server.                             *)
(***************************************************************************)

LEMMA HooksAre == Hooks = {"fetch", "fuel", "nearby", "guest", "resources", "search", "weather", "user"}
BY DEF Hooks, HabitOf

LEMMA HabitsAre ==
  ASSUME hook \in Hooks
  PROVE  /\ habit.again = "interval" <=> hook = "weather"
         /\ habit.blank = "leave" <=> hook \in {"fuel", "weather"}
         /\ habit.blank = "fixed" <=> hook = "user"
         /\ habit.keeps /\ ~habit.tells => hook \in {"weather", "user"}
         /\ hook = "user" => habit.again = "never"
         /\ habit.tells \in BOOLEAN /\ habit.spins \in BOOLEAN /\ habit.keeps \in BOOLEAN
         /\ hook = "search" => habit.first = "none"
<1> USE DEF habit, HabitOf, Habit
<1>1. CASE hook = "fetch"
  BY <1>1 DEF useFetch
<1>2. CASE hook = "fuel"
  BY <1>2 DEF useFuelConditions
<1>3. CASE hook = "nearby"
  BY <1>3 DEF useNearbyFires
<1>4. CASE hook = "guest"
  BY <1>4 DEF useGuestDashboard
<1>5. CASE hook = "resources"
  BY <1>5 DEF useNearbyResources
<1>6. CASE hook = "search"
  BY <1>6 DEF useGeoSearch
<1>7. CASE hook = "weather"
  BY <1>7 DEF useLiveFireEnvironment
<1>8. CASE hook = "user"
  BY <1>8 DEF useUserInfo
<1>9. QED
  BY <1>1, <1>2, <1>3, <1>4, <1>5, <1>6, <1>7, <1>8, HooksAre

(* What is behind ShownAnswerIsAsked: but for the weather, only the last   *)
(* request counts, and it asks what the hook's key is; a key that is fixed *)
(* is all that was ever asked.                                             *)
RequestsAreAsks == DOMAIN requests \subseteq 1..asks /\ \A n \in DOMAIN requests : requests[n] \in Keys
OnlyTheLastCounts ==
  hook # "weather" => /\ current \in {0, asks}
                      /\ current # 0 /\ current \in DOMAIN requests => requests[current] = key
FixedKeyStays ==
  hook = "user" => data \in {key, NoKey} /\ \A n \in DOMAIN requests : requests[n] = key
TypedIsKey == hook \notin Debounced => typed = key
QueryInv ==
  /\ QueryTypeOK /\ RequestsAreAsks /\ OnlyTheLastCounts /\ FixedKeyStays /\ TypedIsKey
  /\ ShownAnswerIsAsked

LEMMA QueryBegins == QueryInit => QueryInv
<1> SUFFICES ASSUME QueryInit PROVE QueryInv
  OBVIOUS
<1>1. /\ hook \in Hooks /\ key \in Keys \cup {NoKey} /\ typed = key /\ data = NoKey /\ failed = FALSE
      /\ loading \in BOOLEAN
  BY HabitsAre DEF QueryInit, habit
<1>2. 0 \in 0..MaxAsks /\ 1 \in 0..MaxAsks
  BY QueriesAssumption
<1>3. CASE key = NoKey
  <2>1. requests = <<>> /\ asks = 0 /\ current = 0
    BY <1>3 DEF QueryInit
  <2>2. DOMAIN requests = {}
    BY <2>1
  <2>3. asks \in 0..MaxAsks /\ current \in 0..asks /\ {typed, key, data} \subseteq Keys \cup {NoKey}
    BY <1>2, <1>1, <2>1
  <2>4. QueryTypeOK
    BY <1>1, <2>3 DEF QueryTypeOK
  <2>5. RequestsAreAsks /\ OnlyTheLastCounts
    BY <2>1, <2>2 DEF RequestsAreAsks, OnlyTheLastCounts
  <2>6. FixedKeyStays /\ TypedIsKey /\ ShownAnswerIsAsked
    BY <1>1, <2>1, <2>2 DEF FixedKeyStays, TypedIsKey, ShownAnswerIsAsked
  <2>7. QED
    BY <2>5, <2>6, <2>4 DEF QueryInv
<1>4. CASE key # NoKey
  <2>1. requests = <<key>> /\ asks = 1 /\ current = 1 /\ key \in Keys
    BY <1>1, <1>4 DEF QueryInit
  <2>2. DOMAIN requests = {1} /\ requests[1] = key
    BY <2>1
  <2>3. asks \in 0..MaxAsks /\ current \in 0..asks /\ {typed, key, data} \subseteq Keys \cup {NoKey}
    BY <1>2, <1>1, <2>1
  <2>4. QueryTypeOK
    BY <1>1, <2>3 DEF QueryTypeOK
  <2>5. RequestsAreAsks /\ OnlyTheLastCounts
    BY <2>1, <2>2 DEF RequestsAreAsks, OnlyTheLastCounts
  <2>6. FixedKeyStays /\ TypedIsKey /\ ShownAnswerIsAsked
    BY <1>1, <2>1, <2>2 DEF FixedKeyStays, TypedIsKey, ShownAnswerIsAsked
  <2>7. QED
    BY <2>5, <2>6, <2>4 DEF QueryInv
<1>5. QED
  BY <1>3, <1>4

(* A key is asked, or there is nothing to ask any more. *)
LEMMA SendKeepsQueries ==
  ASSUME QueryInv, asks < MaxAsks, NEW k \in Keys, Send(k), hook' = hook, hook # "user",
         key' = k, typed' \in Keys \cup {NoKey}, hook \notin Debounced => typed' = k,
         hook = "weather" \/ k # key \/ habit.again # "interval"
  PROVE  QueryInv'
<1>1. /\ asks' = asks + 1 /\ failed' = FALSE /\ data' = data /\ loading' = (hook # "weather")
      /\ requests' = [n \in DOMAIN requests \cup {asks + 1} |-> IF n = asks + 1 THEN k ELSE requests[n]]
      /\ current' \in {current, asks + 1}
      /\ hook # "weather" => current' = asks + 1
  BY HabitsAre DEF Send, QueryInv, QueryTypeOK
<1>2. asks' \in 0..MaxAsks /\ current' \in 0..asks'
  BY <1>1, QueriesAssumption DEF QueryInv, QueryTypeOK
<1>3. QueryTypeOK'
  BY <1>1, <1>2 DEF QueryInv, QueryTypeOK
<1>4. RequestsAreAsks'
  <2>1. DOMAIN requests' = DOMAIN requests \cup {asks + 1}
    BY <1>1
  <2>2. asks \in Nat /\ DOMAIN requests \subseteq 1..asks
    BY DEF QueryInv, QueryTypeOK, RequestsAreAsks
  <2>3. DOMAIN requests' \subseteq 1..asks'
    BY <1>1, <2>1, <2>2
  <2>4. QED
    BY <1>1, <2>1, <2>3 DEF QueryInv, RequestsAreAsks
<1>5. OnlyTheLastCounts'
  BY <1>1 DEF OnlyTheLastCounts
<1>6. FixedKeyStays' /\ TypedIsKey' /\ ShownAnswerIsAsked'
  BY <1>1 DEF FixedKeyStays, TypedIsKey, ShownAnswerIsAsked
<1>7. QED
  BY <1>3, <1>4, <1>5, <1>6 DEF QueryInv

LEMMA StopKeepsQueries ==
  ASSUME QueryInv, asks < MaxAsks, Stop, hook' = hook, hook # "user", key' = NoKey,
         typed' \in Keys \cup {NoKey}, hook \notin Debounced => typed' = NoKey,
         habit.blank \in {"reset", "leave", "clear"}
  PROVE  QueryInv'
<1>1. /\ asks' = asks + 1 /\ current' = 0 /\ requests' = requests /\ failed' = failed
      /\ data' \in {data, NoKey} /\ (hook \notin {"fuel", "weather"} => data' = NoKey)
      /\ loading' \in BOOLEAN
  BY HabitsAre DEF Stop, QueryInv, QueryTypeOK
<1>2. asks' \in 0..MaxAsks /\ current' \in 0..asks'
  BY <1>1, QueriesAssumption DEF QueryInv, QueryTypeOK
<1>3. QueryTypeOK'
  BY <1>1, <1>2 DEF QueryInv, QueryTypeOK
<1>4. RequestsAreAsks'
  <2>1. asks \in Nat /\ DOMAIN requests \subseteq 1..asks
    BY DEF QueryInv, QueryTypeOK, RequestsAreAsks
  <2>2. QED
    BY <1>1, <2>1 DEF QueryInv, RequestsAreAsks
<1>5. OnlyTheLastCounts' /\ FixedKeyStays' /\ TypedIsKey'
  BY <1>1 DEF OnlyTheLastCounts, FixedKeyStays, TypedIsKey
<1>6. ShownAnswerIsAsked'
  BY <1>1 DEF ShownAnswerIsAsked
<1>7. QED
  BY <1>3, <1>4, <1>5, <1>6 DEF QueryInv

(* A request is answered, or fails. *)
LEMMA EndKeepsQueries ==
  ASSUME QueryInv, NEW n \in DOMAIN requests, Answer(n) \/ Fail(n) PROVE QueryInv'
<1>1. /\ UNCHANGED <<hook, typed, key, current, asks>>
      /\ requests' = [m \in DOMAIN requests \ {n} |-> requests[m]]
  BY DEF Answer, Fail, Others
<1>2. DOMAIN requests' = DOMAIN requests \ {n} /\ \A m \in DOMAIN requests' : requests'[m] = requests[m]
  BY <1>1
<1>3. RequestsAreAsks' /\ OnlyTheLastCounts' /\ TypedIsKey'
  BY <1>1, <1>2 DEF QueryInv, RequestsAreAsks, OnlyTheLastCounts, TypedIsKey
<1>4. n \in 1..asks /\ requests[n] \in Keys /\ asks \in Nat
  BY DEF QueryInv, QueryTypeOK, RequestsAreAsks
<1>5. CASE ~Counts(n)
  <2>1. UNCHANGED <<data, loading, failed>>
    BY <1>5 DEF Answer, Fail
  <2>2. QED
    BY <1>1, <1>2, <1>3, <2>1 DEF QueryInv, QueryTypeOK, FixedKeyStays, ShownAnswerIsAsked
<1>6. CASE Counts(n)
  <2>1. hook # "weather" => requests[n] = key
    BY <1>4, <1>6 DEF QueryInv, OnlyTheLastCounts, Counts
  <2>2. CASE Answer(n)
    <3>1. data' = requests[n] /\ loading' = FALSE /\ failed' = failed
      BY <1>6, <2>2 DEF Answer
    <3>2. QED
      BY <1>1, <1>2, <1>3, <1>4, <2>1, <3>1
      DEF QueryInv, QueryTypeOK, FixedKeyStays, ShownAnswerIsAsked
  <2>3. CASE Fail(n)
    <3>1. loading' = FALSE /\ failed' = habit.tells /\ data' = IF habit.keeps THEN data ELSE NoKey
      BY <1>6, <2>3 DEF Fail
    <3>2. /\ failed' \in BOOLEAN /\ data' \in {data, NoKey}
          /\ failed' \/ data' = NoKey \/ hook \in {"weather", "user"}
      BY <3>1, HabitsAre DEF QueryInv, QueryTypeOK
    <3>3. FixedKeyStays'
      BY <1>1, <1>2, <3>2 DEF QueryInv, FixedKeyStays
    <3>4. QED
      BY <1>1, <1>2, <1>3, <3>1, <3>2, <3>3
      DEF QueryInv, QueryTypeOK, FixedKeyStays, ShownAnswerIsAsked
  <2>4. QED
    BY <2>2, <2>3
<1>7. QED
  BY <1>5, <1>6

LEMMA TypingKeepsQueries ==
  ASSUME QueryInv, hook \in Debounced, typed' \in Keys \cup {NoKey},
         UNCHANGED <<hook, key, data, loading, failed, requests, current, asks>>
  PROVE  QueryInv'
BY DEF QueryInv, QueryTypeOK, RequestsAreAsks, OnlyTheLastCounts, FixedKeyStays, TypedIsKey, ShownAnswerIsAsked

LEMMA QueryStays == QueryInv /\ [QueryNext]_queryVars => QueryInv'
<1> SUFFICES ASSUME QueryInv, [QueryNext]_queryVars PROVE QueryInv'
  OBVIOUS
<1>1. hook \in Hooks /\ {typed, key} \subseteq Keys \cup {NoKey}
  BY DEF QueryInv, QueryTypeOK
<1>2. CASE UNCHANGED queryVars
  BY <1>2 DEF QueryInv, QueryTypeOK, RequestsAreAsks, OnlyTheLastCounts, FixedKeyStays, TypedIsKey,
              ShownAnswerIsAsked, queryVars
<1>3. ASSUME NEW k \in Keys \cup {NoKey}, KeyChanges(k) PROVE QueryInv'
  <2>1. /\ asks < MaxAsks /\ k # typed /\ typed' = k /\ hook' = hook /\ hook # "user"
        /\ k = NoKey => habit.blank \in {"reset", "leave", "clear"}
    BY <1>1, <1>3, HabitsAre DEF KeyChanges
  <2>2. CASE hook \in Debounced
    BY <1>3, <2>1, <2>2, TypingKeepsQueries DEF KeyChanges
  <2>3. CASE hook \notin Debounced
    <3>1. key' = k /\ Effect(k) /\ k # key
      BY <1>3, <2>1, <2>3 DEF KeyChanges, QueryInv, TypedIsKey
    <3>2. CASE k = NoKey
      BY <2>1, <3>1, <3>2, StopKeepsQueries DEF Effect
    <3>3. CASE k # NoKey
      BY <2>1, <3>1, <3>3, SendKeepsQueries DEF Effect
    <3>4. QED
      BY <3>2, <3>3
  <2>4. QED
    BY <2>2, <2>3
<1>4. CASE useDebounce
  <2>1. /\ asks < MaxAsks /\ key' = typed /\ Effect(typed) /\ typed' = typed /\ hook' = hook
        /\ typed # key /\ hook = "search"
    BY <1>4 DEF useDebounce, Debounced
  <2>2. habit.blank = "clear"
    BY <2>1 DEF habit, HabitOf, Habit, useGeoSearch
  <2>3. CASE typed = NoKey
    BY <1>1, <2>1, <2>2, <2>3, StopKeepsQueries DEF Effect, Debounced
  <2>4. CASE typed # NoKey
    BY <1>1, <2>1, <2>4, SendKeepsQueries DEF Effect, Debounced
  <2>5. QED
    BY <2>3, <2>4
<1>5. CASE Refetch
  <2>1. /\ asks < MaxAsks /\ key # NoKey /\ Send(key) /\ UNCHANGED <<hook, typed, key>>
        /\ hook # "user" /\ (hook = "weather" \/ habit.again # "interval")
    BY <1>1, <1>5, HabitsAre DEF Refetch
  <2>2. hook \notin Debounced => typed' = key
    BY <2>1 DEF QueryInv, TypedIsKey
  <2>3. QED
    BY <1>1, <2>1, <2>2, SendKeepsQueries
<1>6. ASSUME NEW n \in DOMAIN requests, Answer(n) \/ Fail(n) PROVE QueryInv'
  BY <1>6, EndKeepsQueries
<1>7. QED
  BY <1>2, <1>3, <1>4, <1>5, <1>6 DEF QueryNext

-----------------------------------------------------------------------------
(***************************************************************************)
(* LiveQueries: the terrain bias.                                          *)
(***************************************************************************)

(* A bias that is still to be set is in the cache already. *)
BiasInv ==
  NobodyWaitsForNothing /\ \A f \in DOMAIN batch : batch[f] = "bias" => BiasPlace[f] \in biasCache

LEMMA BiasBegins == BiasInit => BiasInv
<1> SUFFICES ASSUME BiasInit PROVE BiasInv
  OBVIOUS
<1>1. DOMAIN batch = {}
  BY DEF BiasInit
<1>2. QED
  BY <1>1 DEF BiasInit, BiasInv, NobodyWaitsForNothing

LEMMA BiasStays == BiasInv /\ [BiasNext]_biasVars => BiasInv'
<1> SUFFICES ASSUME BiasInv, [BiasNext]_biasVars PROVE BiasInv'
  OBVIOUS
<1>1. CASE UNCHANGED biasVars
  BY <1>1 DEF BiasInv, NobodyWaitsForNothing, biasVars
<1>2. ASSUME NEW some \in SUBSET BiasFires, ListOfFires(some) PROVE BiasInv'
  <2>1. /\ UNCHANGED <<biasMap, biasCache>>
        /\ batch' = [f \in some \ biasMap |-> IF BiasPlace[f] \in biasCache THEN "bias" ELSE "waits"]
        /\ inflight' = inflight \cup ({BiasPlace[f] : f \in some \ biasMap} \ biasCache)
    BY <1>2 DEF ListOfFires, fetchTerrainBias
  <2>2. \A f \in DOMAIN batch' : /\ batch'[f] = "waits" => BiasPlace[f] \in inflight'
                               /\ batch'[f] = "bias" => BiasPlace[f] \in biasCache'
    BY <2>1
  <2>3. QED
    BY <2>1, <2>2 DEF BiasInv, NobodyWaitsForNothing
<1>3. ASSUME NEW p, NEW ok \in BOOLEAN, BiasAnswers(p, ok) PROVE BiasInv'
  <2>1. /\ p \in inflight /\ inflight' = inflight \ {p} /\ biasMap' = biasMap
        /\ biasCache' = IF ok THEN biasCache \cup {p} ELSE biasCache
        /\ batch' = [f \in DOMAIN batch |->
                       IF BiasPlace[f] = p /\ batch[f] = "waits" THEN (IF ok THEN "bias" ELSE "none")
                       ELSE batch[f]]
    BY <1>3 DEF BiasAnswers
  <2>2. \A f \in DOMAIN batch' :
          /\ f \in DOMAIN batch
          /\ batch'[f] = "waits" => batch[f] = "waits" /\ BiasPlace[f] # p
          /\ batch'[f] = "bias" => batch[f] = "bias" \/ (ok /\ BiasPlace[f] = p)
    BY <2>1
  <2>3. QED
    BY <2>1, <2>2 DEF BiasInv, NobodyWaitsForNothing
<1>4. CASE BatchEnds
  <2>1. /\ UNCHANGED <<biasCache, inflight>> /\ DOMAIN batch' = {}
        /\ biasMap' = biasMap \cup {f \in DOMAIN batch : batch[f] = "bias"}
    BY <1>4 DEF BatchEnds
  <2>2. QED
    BY <2>1 DEF BiasInv, NobodyWaitsForNothing
<1>5. QED
  BY <1>1, <1>2, <1>3, <1>4 DEF BiasNext

-----------------------------------------------------------------------------
(***************************************************************************)
(* LiveQueries: where the user is, and what a guest is told.               *)
(***************************************************************************)

(* A fire that was shown counts as seen. *)
PlaceInv ==
  /\ here \in Places /\ checking \in Seq(Places)
  /\ toasts \in Seq(BiasFires)
  /\ \A i \in DOMAIN toasts : toasts[i] \in seenFires
  /\ GuestToldOnce

LEMMA RemovingKeepsASeq ==
  ASSUME NEW S, NEW s \in Seq(S), NEW i \in DOMAIN s PROVE RemoveAt(s, i) \in Seq(S)
<1>1. Len(s) \in Nat /\ i \in 1..Len(s)
  OBVIOUS
<1>2. SubSeq(s, 1, i - 1) \in Seq(S) /\ SubSeq(s, i + 1, Len(s)) \in Seq(S)
  BY <1>1, SubSeqProperties
<1>3. QED
  BY <1>2, ConcatProperties DEF RemoveAt

LEMMA FirstIsUnseen ==
  ASSUME NEW p \in Places
  PROVE  \/ First(FiresAt[p]) = <<>>
         \/ \E f \in ToSet(FiresAt[p]) \cap BiasFires : First(FiresAt[p]) = <<f>> /\ f \notin seenFires
<1> DEFINE found == FiresAt[p]
<1>1. found \in Seq(BiasFires)
  BY QueriesAssumption
<1>2. CASE Unseen(found) = {}
  BY <1>2 DEF First
<1>3. CASE Unseen(found) # {}
  <2>1. Unseen(found) \subseteq DOMAIN found /\ DOMAIN found \subseteq Nat
    BY <1>1 DEF Unseen
  <2>2. Min(Unseen(found)) \in Unseen(found)
    BY <1>3, <2>1, MinIsLeast
  <2>3. First(found) = <<found[Min(Unseen(found))]>>
    BY <1>3 DEF First
  <2>4. PICK i \in DOMAIN found : First(found) = <<found[i]>> /\ found[i] \notin seenFires
    BY <2>2, <2>3 DEF Unseen
  <2>5. found[i] \in ToSet(found) /\ found[i] \in BiasFires
    BY <1>1 DEF ToSet
  <2>6. QED
    BY <2>4, <2>5
<1>4. QED
  BY <1>2, <1>3

LEMMA PlaceBegins == PlaceInit => PlaceInv
<1> SUFFICES ASSUME PlaceInit PROVE PlaceInv
  OBVIOUS
<1>1. checking = <<>> /\ toasts = <<>> /\ here \in Places
  BY DEF PlaceInit
<1>2. DOMAIN toasts = {} /\ checking \in Seq(Places) /\ toasts \in Seq(BiasFires)
  BY <1>1
<1>3. QED
  BY <1>1, <1>2 DEF PlaceInv, GuestToldOnce

LEMMA CheckKeepsToasts ==
  ASSUME PlaceInv, NEW i \in DOMAIN checking, NEW ok \in BOOLEAN, CheckAnswered(i, ok) PROVE PlaceInv'
<1> DEFINE found == FiresAt[checking[i]]
<1>1. checking[i] \in Places /\ here' = here /\ checking' \in Seq(Places)
  BY RemovingKeepsASeq DEF CheckAnswered, PlaceInv
<1>2. CASE UNCHANGED <<seenFires, toasts>>
  BY <1>1, <1>2 DEF PlaceInv, GuestToldOnce
<1>3. CASE seenFires' = seenFires \cup ToSet(found) /\ toasts' = toasts \o First(found)
  <2>1. CASE First(found) = <<>>
    <3>1. toasts' = toasts
      BY <1>3, <2>1 DEF PlaceInv
    <3>2. QED
      BY <1>1, <1>3, <3>1 DEF PlaceInv, GuestToldOnce
  <2>2. ASSUME NEW f \in ToSet(found) \cap BiasFires, First(found) = <<f>>, f \notin seenFires PROVE PlaceInv'
    <3>1. toasts' = Append(toasts, f) /\ toasts \in Seq(BiasFires)
      BY <1>3, <2>2 DEF PlaceInv
    <3>2. /\ toasts' \in Seq(BiasFires) /\ DOMAIN toasts' = DOMAIN toasts \cup {Len(toasts) + 1}
          /\ \A j \in DOMAIN toasts : toasts'[j] = toasts[j]
          /\ toasts'[Len(toasts) + 1] = f
      BY <3>1
    <3>3. \A j \in DOMAIN toasts' : toasts'[j] \in seenFires'
      BY <1>3, <2>2, <3>2 DEF PlaceInv
    <3>4. GuestToldOnce'
      BY <2>2, <3>2 DEF PlaceInv, GuestToldOnce
    <3>5. QED
      BY <1>1, <3>2, <3>3, <3>4 DEF PlaceInv
  <2>3. QED
    BY <1>1, <2>1, <2>2, FirstIsUnseen
<1>4. QED
  BY <1>2, <1>3 DEF CheckAnswered

LEMMA PlaceStays == PlaceInv /\ [PlaceNext]_placeVars => PlaceInv'
<1> SUFFICES ASSUME PlaceInv, [PlaceNext]_placeVars PROVE PlaceInv'
  OBVIOUS
<1>1. ASSUME UNCHANGED <<toasts, seenFires>>, here' \in Places, checking' \in Seq(Places) PROVE PlaceInv'
  BY <1>1 DEF PlaceInv, GuestToldOnce
<1>2. here \in Places /\ checking \in Seq(Places)
  BY DEF PlaceInv
<1>3. CASE UNCHANGED placeVars
  BY <1>1, <1>2, <1>3 DEF placeVars
<1>4. ASSUME NEW p \in Places, UserMoves(p) PROVE PlaceInv'
  BY <1>1, <1>2, <1>4 DEF UserMoves
<1>5. CASE SendPlace
  BY <1>1, <1>2, <1>5 DEF SendPlace
<1>6. CASE CheckPlace
  <2>1. checking' = Append(checking, here) /\ UNCHANGED <<toasts, seenFires, here>>
    BY <1>6 DEF CheckPlace
  <2>2. QED
    BY <1>1, <1>2, <2>1
<1>7. ASSUME NEW i \in DOMAIN sending, NEW ok \in BOOLEAN, PlaceAnswered(i, ok) PROVE PlaceInv'
  BY <1>1, <1>2, <1>7 DEF PlaceAnswered
<1>8. QED
  BY <1>3, <1>4, <1>5, <1>6, <1>7, CheckKeepsToasts DEF PlaceNext

-----------------------------------------------------------------------------
(***************************************************************************)
(* FireMapView.                                                            *)
(***************************************************************************)

(* What is behind MapFollowsThePage: of the drawing control and the popup. *)
PopupIsOfThePage == popup = IF selectedRef \in active THEN selectedRef ELSE Nothing
ToolFollowsTheMode ==
  /\ tool = "draw_line_string" => drawMode
  /\ drawMode /\ tool # "draw_line_string" => completed > 0
ViewInv == ViewTypeOK /\ PopupIsOfThePage /\ ToolFollowsTheMode

LEMMA ViewBegins == ViewInit => ViewInv
<1> SUFFICES ASSUME ViewInit PROVE ViewInv
  OBVIOUS
<1>1. 0 \in 0..MaxTicks /\ 0 \in 0..MaxSteps /\ <<>> \in Histories
  BY ViewAssumption
<1>2. ViewTypeOK
  BY <1>1 DEF ViewInit, ViewTypeOK, Centres
<1>3. PopupIsOfThePage /\ ToolFollowsTheMode
  BY DEF ViewInit, PopupIsOfThePage, ToolFollowsTheMode
<1>4. QED
  BY <1>2, <1>3 DEF ViewInv

LEMMA StepCounts == ASSUME ViewTypeOK, Step PROVE steps' \in 0..MaxSteps
BY ViewAssumption DEF ViewTypeOK, Step

(* The fires of the page, and its selection. *)
LEMMA FollowKeepsView ==
  ASSUME ViewInv, steps' \in 0..MaxSteps, active' \subseteq MapFires, selectedRef' \in MapFires \cup {Nothing},
         Follow(selectedRef', active'),
         UNCHANGED <<chosenRefs, groupMode, hasCentered, located, tooltip, offered, picked, drawVars, simVars>>
  PROVE  ViewInv'
<1>1. camera' \in {camera, selectedRef'} /\ (camera' # camera => camera' \in MapFires)
  BY DEF Follow, flyTo
<1>2. popup' = IF selectedRef' \in active' THEN selectedRef' ELSE Nothing
  BY DEF Follow, flyTo
<1>3. ViewTypeOK'
  BY <1>1, <1>2 DEF ViewInv, ViewTypeOK, Centres, drawVars, simVars
<1>4. QED
  BY <1>2, <1>3 DEF ViewInv, PopupIsOfThePage, ToolFollowsTheMode, drawVars

LEMMA FiresKeepView ==
  ASSUME ViewInv,
         (\E some \in SUBSET MapFires : FiresChange(some)) \/ (\E ref \in MapFires : ref \in active /\ SelectRef(ref))
  PROVE  ViewInv'
<1>1. steps' \in 0..MaxSteps
  BY StepCounts DEF ViewInv, FiresChange, SelectRef
<1>2. ASSUME NEW some \in SUBSET MapFires, FiresChange(some) PROVE ViewInv'
  <2>1. /\ active' = some /\ selectedRef' = selectedRef /\ Follow(selectedRef, some)
        /\ UNCHANGED <<chosenRefs, groupMode, hasCentered, located, tooltip, offered, picked, drawVars, simVars>>
    BY <1>2 DEF FiresChange
  <2>2. Follow(selectedRef', active')
    BY <2>1
  <2>3. QED
    BY <1>1, <2>1, <2>2, FollowKeepsView DEF ViewInv, ViewTypeOK
<1>3. ASSUME NEW ref \in MapFires, ref \in active, SelectRef(ref) PROVE ViewInv'
  <2>1. /\ active' = active /\ selectedRef' = ref /\ Follow(ref, active)
        /\ UNCHANGED <<chosenRefs, groupMode, hasCentered, located, tooltip, offered, picked, drawVars, simVars>>
    BY <1>3 DEF SelectRef
  <2>2. Follow(selectedRef', active')
    BY <2>1
  <2>3. QED
    BY <1>1, <2>1, <2>2, FollowKeepsView DEF ViewInv, ViewTypeOK
<1>4. QED
  BY <1>2, <1>3

LEMMA ChoosingKeepsView ==
  ASSUME ViewInv,
         ClosePopup \/ (\E on \in BOOLEAN : SetGroupMode(on)) \/ (\E ref \in MapFires : Toggle(ref))
  PROVE  ViewInv'
<1>1. /\ UNCHANGED <<active, camera, hasCentered, located, tooltip, offered, picked, drawMode, tool, sketch,
                     completed, history, tickShown>>
      /\ \/ UNCHANGED <<popup, selectedRef>>
         \/ popup' = Nothing /\ selectedRef' = Nothing
      /\ chosenRefs' \subseteq MapFires /\ groupMode' \in BOOLEAN
      /\ steps' = steps \/ Step
  BY DEF ClosePopup, SetGroupMode, Toggle, ViewInv, ViewTypeOK, camVars, drawVars, simVars
<1>2. steps' \in 0..MaxSteps
  BY <1>1, StepCounts DEF ViewInv, ViewTypeOK
<1>3. ViewTypeOK'
  BY <1>1, <1>2 DEF ViewInv, ViewTypeOK
<1>4. PopupIsOfThePage' /\ ToolFollowsTheMode'
  BY <1>1, ViewAssumption DEF ViewInv, PopupIsOfThePage, ToolFollowsTheMode
<1>5. QED
  BY <1>3, <1>4 DEF ViewInv

(* The camera, the badge and the resources. *)
LEMMA CameraKeepsView ==
  ASSUME ViewInv,
         \/ LocationEffect \/ handleRecenter \/ UserMarkerClick
         \/ \E place \in SavedPlaces : FocusOn(place)
         \/ \E r \in Resources \cup {Nothing} : SelectResource(r)
  PROVE  ViewInv'
<1>1. /\ UNCHANGED <<offered, fireVars, drawVars, simVars>>
      /\ Step
      /\ {hasCentered', located', tooltip'} \subseteq BOOLEAN
      /\ picked' \in Resources \cup {Nothing}
      /\ camera' \in {camera, Here} \cup SavedPlaces \cup Resources
  BY DEF LocationEffect, handleRecenter, UserMarkerClick, FocusOn, SelectResource, flyTo, ViewInv, ViewTypeOK
<1>2. steps' \in 0..MaxSteps
  BY <1>1, StepCounts DEF ViewInv
<1>3. camera' \in Centres
  BY <1>1 DEF Centres, ViewInv, ViewTypeOK
<1>4. ViewTypeOK'
  BY <1>1, <1>2, <1>3 DEF ViewInv, ViewTypeOK, fireVars, drawVars, simVars
<1>5. PopupIsOfThePage' /\ ToolFollowsTheMode'
  BY <1>1 DEF ViewInv, PopupIsOfThePage, ToolFollowsTheMode, fireVars, drawVars
<1>6. QED
  BY <1>4, <1>5 DEF ViewInv

(* The drawing control, and the simulation. *)
LEMMA DrawingKeepsView ==
  ASSUME ViewInv,
         \/ \E on \in BOOLEAN : SetDrawMode(on)
         \/ BeginSketch \/ handleDrawCreate \/ ClearDrawings
         \/ \E h \in Histories, t \in 0..MaxTicks : Simulate(h, t)
  PROVE  ViewInv'
<1>1. /\ UNCHANGED <<fireVars, camVars>>
      /\ steps' = steps \/ Step
      /\ {drawMode', sketch'} \subseteq BOOLEAN
      /\ tool' \in {"none", "simple_select", "draw_line_string"}
      /\ completed' \in {completed, completed + 1}
      /\ history' \in Histories /\ tickShown' \in 0..MaxTicks
  BY DEF SetDrawMode, BeginSketch, handleDrawCreate, ClearDrawings, Simulate, drawVars, simVars, ViewInv, ViewTypeOK
<1>2. steps' \in 0..MaxSteps
  BY <1>1, StepCounts DEF ViewInv, ViewTypeOK
<1>3. completed' \in Nat
  BY <1>1 DEF ViewInv, ViewTypeOK
<1>4. ViewTypeOK' /\ PopupIsOfThePage'
  BY <1>1, <1>2, <1>3 DEF ViewInv, ViewTypeOK, PopupIsOfThePage, fireVars, camVars
<1>5. ToolFollowsTheMode'
  <2>1. completed \in Nat /\ drawMode \in BOOLEAN
    BY DEF ViewInv, ViewTypeOK
  <2>2. ASSUME NEW on \in BOOLEAN, SetDrawMode(on) PROVE ToolFollowsTheMode'
    BY <2>2 DEF SetDrawMode, ToolFollowsTheMode
  <2>3. CASE UNCHANGED <<drawMode, tool, completed>>
    BY <2>3 DEF ViewInv, ToolFollowsTheMode
  <2>4. CASE handleDrawCreate
    BY <2>1, <2>4 DEF handleDrawCreate, ToolFollowsTheMode
  <2>5. QED
    BY <2>2, <2>3, <2>4 DEF BeginSketch, ClearDrawings, Simulate, drawVars
<1>6. QED
  BY <1>4, <1>5 DEF ViewInv

LEMMA ViewStays == ViewInv /\ [ViewNext]_viewVars => ViewInv'
<1> SUFFICES ASSUME ViewInv, [ViewNext]_viewVars PROVE ViewInv'
  OBVIOUS
<1>1. CASE UNCHANGED viewVars
  BY <1>1 DEF ViewInv, ViewTypeOK, PopupIsOfThePage, ToolFollowsTheMode, viewVars, fireVars, camVars, drawVars, simVars
<1>2. CASE LookStep
  <2>1. ASSUME NEW ref \in MapFires, NEW ctrl \in BOOLEAN, MarkerClick(ref, ctrl) PROVE ViewInv'
    BY <2>1, FiresKeepView, ChoosingKeepsView DEF MarkerClick
  <2>2. QED
    BY <1>2, <2>1, FiresKeepView, ChoosingKeepsView, CameraKeepsView DEF LookStep
<1>3. CASE DrawStep
  BY <1>3, FiresKeepView, DrawingKeepsView DEF DrawStep
<1>4. QED
  BY <1>1, <1>2, <1>3 DEF ViewNext

LEMMA ViewFollows == ViewInv => MapFollowsThePage
<1> SUFFICES ASSUME ViewInv PROVE MapFollowsThePage
  OBVIOUS
<1>1. popup # Nothing => MarkerOf(popup) # "plain"
  BY DEF ViewInv, PopupIsOfThePage, MarkerOf
<1>2. ASSUME \A i \in DOMAIN history : tickShown >= Len(history[i]) PROVE CirclesShown = active
  <2>1. history \in Seq(Seq([Cells -> Nat])) /\ tickShown \in Nat
    BY ViewAssumption DEF ViewInv, ViewTypeOK
  <2>2. \A i \in DOMAIN history : Len(history[i]) \in Nat
    BY <2>1
  <2>3. \A i \in DOMAIN history : ~(tickShown < Len(history[i]))
    BY <1>2, <2>1, <2>2
  <2>4. gridFeatures(history, tickShown) = {}
    BY <2>3 DEF gridFeatures
  <2>5. QED
    BY <2>4 DEF CirclesShown, simulationShown
<1>3. QED
  BY <1>1, <1>2 DEF ViewInv, PopupIsOfThePage, ToolFollowsTheMode, MapFollowsThePage

-----------------------------------------------------------------------------
(***************************************************************************)
(* OfflineClient: the queue, the network and the bar, the fires kept.      *)
(***************************************************************************)

(* What is behind QueueIsKept.  A replay that has not begun posts nothing, *)
(* and only what was queued is posted.  Of an action that is not doubled   *)
(* there is at most one post, none after the server took it; and once it   *)
(* is taken it is on its way out of the queue.                             *)
ReplaysBegin ==
  /\ \A p \in Replays : p > started => replay[p] = {} /\ removing[p] = {}
  /\ \A p \in Replays : replay[p] \cup removing[p] \subseteq made
  /\ \A p \in Replays : \A a \in removing[p] : accepted[a] > 0
PostedOnce ==
  \A a \in made \ doubled :
     /\ accepted[a] <= 1
     /\ \A p \in Replays : a \in replay[p] => accepted[a] = 0
     /\ \A p, q \in Replays : a \in replay[p] /\ a \in replay[q] => p = q
     /\ a \in queued /\ accepted[a] > 0 => \E p \in Replays : a \in removing[p]
NothingIsLost == \A a \in made : a \in queued \/ accepted[a] > 0
NewIsUntouched == \A a \in Actions \ made : accepted[a] = 0

(* What is behind BarIsFair: see its conjuncts. *)
BarInv ==
  /\ isOffline /\ onLine => failCount = 2
  /\ queueCount <= Cardinality(made)
QueueInv == ReplaysBegin /\ PostedOnce /\ NothingIsLost /\ NewIsUntouched
OfflineInv == OfflineTypeOK /\ QueueInv /\ BarInv /\ MapIsUpToDate

(* Of finitely many actions finitely many are queued. *)
LEMMA QueueIsCounted ==
  ASSUME OfflineTypeOK
  PROVE  /\ Cardinality(queued) \in 0..Cardinality(Actions)
         /\ Cardinality(queued) <= Cardinality(made)
<1>1. queued \subseteq made /\ made \subseteq Actions /\ IsFiniteSet(Actions)
  BY OfflineAssumption DEF OfflineTypeOK
<1>2. IsFiniteSet(made) /\ IsFiniteSet(queued)
  BY <1>1, FS_Subset
<1>3. Cardinality(queued) <= Cardinality(made) /\ Cardinality(made) <= Cardinality(Actions)
  BY <1>1, <1>2, FS_Subset
<1>4. Cardinality(queued) \in Nat /\ Cardinality(made) \in Nat /\ Cardinality(Actions) \in Nat
  BY <1>1, <1>2, FS_CardinalityType
<1>5. QED
  BY <1>3, <1>4

-----------------------------------------------------------------------------
(* The queue. *)

LEMMA QueueStands == ASSUME QueueInv, UNCHANGED queueVars PROVE QueueInv'
BY DEF QueueInv, ReplaysBegin, PostedOnce, NothingIsLost, NewIsUntouched, queueVars

QueueTypeOK ==
  /\ queued \subseteq made /\ made \subseteq Actions /\ doubled \subseteq made
  /\ started \in 0..MaxReplays
  /\ counting \subseteq 1..started
  /\ replay \in [Replays -> SUBSET Actions]
  /\ removing \in [Replays -> SUBSET Actions]
  /\ accepted \in [Actions -> Nat]

LEMMA QueueingKeepsQueue ==
  ASSUME QueueTypeOK, QueueInv, NEW a \in Actions, queueRawAction(a) PROVE QueueTypeOK' /\ QueueInv'
<1>1. /\ a \notin made /\ made' = made \cup {a} /\ queued' = queued \cup {a}
      /\ UNCHANGED <<started, counting, replay, removing, accepted, doubled>>
  BY DEF queueRawAction
<1>2. QueueTypeOK'
  BY <1>1 DEF QueueTypeOK
<1>3. accepted[a] = 0 /\ \A p \in Replays : a \notin replay[p] /\ a \notin removing[p]
  BY <1>1 DEF QueueInv, NewIsUntouched, ReplaysBegin
<1>4. ReplaysBegin' /\ NothingIsLost' /\ NewIsUntouched'
  BY <1>1 DEF QueueInv, ReplaysBegin, NothingIsLost, NewIsUntouched
<1>5. PostedOnce'
  BY <1>1, <1>3 DEF QueueInv, PostedOnce
<1>6. QED
  BY <1>2, <1>4, <1>5 DEF QueueInv

LEMMA RefusalKeepsQueue ==
  ASSUME QueueTypeOK, QueueInv, NEW p \in Replays, NEW a \in Actions, PostRefused(p, a) PROVE QueueTypeOK' /\ QueueInv'
<1>1. /\ a \in replay[p] /\ replay' = [replay EXCEPT ![p] = replay[p] \ {a}]
      /\ UNCHANGED <<queued, started, counting, removing, made, accepted, doubled>>
  BY DEF PostRefused
<1>2. QueueTypeOK' /\ \A q \in Replays : replay'[q] \subseteq replay[q]
  BY <1>1 DEF QueueTypeOK
<1>3. ReplaysBegin' /\ NothingIsLost' /\ NewIsUntouched'
  BY <1>1, <1>2 DEF QueueInv, ReplaysBegin, NothingIsLost, NewIsUntouched
<1>4. PostedOnce'
  BY <1>1, <1>2 DEF QueueInv, PostedOnce
<1>5. QED
  BY <1>2, <1>3, <1>4 DEF QueueInv

LEMMA AcceptingKeepsQueue ==
  ASSUME QueueTypeOK, QueueInv, NEW p \in Replays, NEW a \in Actions, PostAccepted(p, a) PROVE QueueTypeOK' /\ QueueInv'
<1>1. /\ a \in replay[p] /\ replay' = [replay EXCEPT ![p] = replay[p] \ {a}]
      /\ removing' = [removing EXCEPT ![p] = removing[p] \cup {a}]
      /\ accepted' = [accepted EXCEPT ![a] = accepted[a] + 1]
      /\ UNCHANGED <<queued, started, counting, made, doubled>>
  BY DEF PostAccepted
<1>2. /\ \A q \in Replays : /\ replay'[q] = IF q = p THEN replay[p] \ {a} ELSE replay[q]
                            /\ removing'[q] = IF q = p THEN removing[p] \cup {a} ELSE removing[q]
      /\ \A b \in Actions : accepted'[b] = IF b = a THEN accepted[a] + 1 ELSE accepted[b]
      /\ \A b \in Actions : accepted[b] \in Nat
  BY <1>1 DEF QueueTypeOK
<1>3. QueueTypeOK'
  BY <1>1, <1>2 DEF QueueTypeOK
<1>4. ReplaysBegin'
  <2>1. a \in made /\ ~(p > started) /\ started' = started /\ made' = made
    BY <1>1 DEF QueueInv, ReplaysBegin
  <2>2. \A q \in Replays : q > started' => replay'[q] = {} /\ removing'[q] = {}
    BY <1>2, <2>1 DEF QueueInv, ReplaysBegin
  <2>3. \A q \in Replays : replay'[q] \cup removing'[q] \subseteq made'
    BY <1>2, <2>1 DEF QueueInv, ReplaysBegin
  <2>4. \A q \in Replays : \A b \in removing'[q] : b \in Actions /\ (b = a \/ b \in removing[q])
    BY <1>2 DEF QueueTypeOK
  <2>5. \A q \in Replays : \A b \in removing'[q] : accepted'[b] > 0
    BY <1>2, <2>4 DEF QueueInv, ReplaysBegin
  <2>6. QED
    BY <2>2, <2>3, <2>5 DEF ReplaysBegin
<1>5. NothingIsLost' /\ NewIsUntouched'
  <2>1. a \in made /\ made \subseteq Actions
    BY <1>1 DEF QueueInv, ReplaysBegin, QueueTypeOK
  <2>2. QED
    BY <1>1, <1>2, <2>1 DEF QueueInv, NothingIsLost, NewIsUntouched
<1>6. PostedOnce'
  <2> SUFFICES ASSUME NEW b \in made \ doubled
               PROVE  /\ accepted'[b] <= 1
                      /\ \A q \in Replays : b \in replay'[q] => accepted'[b] = 0
                      /\ \A q, s \in Replays : b \in replay'[q] /\ b \in replay'[s] => q = s
                      /\ b \in queued /\ accepted'[b] > 0 => \E q \in Replays : b \in removing'[q]
    BY <1>1 DEF PostedOnce
  <2>1. b \in Actions
    BY DEF QueueTypeOK
  <2>2. CASE b = a
    <3>1. accepted[a] = 0 /\ \A q \in Replays : a \in replay[q] => q = p
      BY <1>1, <2>2 DEF QueueInv, PostedOnce
    <3>2. QED
      BY <1>2, <2>1, <2>2, <3>1
  <2>3. CASE b # a
    <3>1. accepted'[b] = accepted[b] /\ \A q \in Replays : /\ b \in replay'[q] <=> b \in replay[q]
                                                           /\ b \in removing'[q] <=> b \in removing[q]
      BY <1>2, <2>1, <2>3
    <3>2. QED
      BY <3>1 DEF QueueInv, PostedOnce
  <2>4. QED
    BY <2>2, <2>3
<1>7. QED
  BY <1>3, <1>4, <1>5, <1>6 DEF QueueInv

LEMMA RemovalKeepsQueue ==
  ASSUME QueueTypeOK, QueueInv, NEW p \in Replays, NEW a \in Actions, removeQueueAction(p, a)
  PROVE  QueueTypeOK' /\ QueueInv'
<1>1. /\ a \in removing[p] /\ queued' = queued \ {a}
      /\ removing' = [removing EXCEPT ![p] = removing[p] \ {a}]
      /\ UNCHANGED <<started, counting, replay, made, accepted, doubled>>
  BY DEF removeQueueAction
<1>2. /\ \A q \in Replays : removing'[q] = IF q = p THEN removing[p] \ {a} ELSE removing[q]
      /\ accepted[a] > 0
  BY <1>1 DEF QueueTypeOK, QueueInv, ReplaysBegin
<1>3. QueueTypeOK'
  BY <1>1, <1>2 DEF QueueTypeOK
<1>4. ReplaysBegin' /\ NothingIsLost' /\ NewIsUntouched'
  BY <1>1, <1>2 DEF QueueInv, ReplaysBegin, NothingIsLost, NewIsUntouched
<1>5. PostedOnce'
  BY <1>1, <1>2 DEF QueueInv, PostedOnce
<1>6. QED
  BY <1>3, <1>4, <1>5 DEF QueueInv

LEMMA SyncKeepsQueue ==
  ASSUME QueueTypeOK, QueueInv, syncQueuedActions, UNCHANGED <<queued, removing, made, accepted>>,
         counting' \subseteq 1..(started + 1)
  PROVE  QueueTypeOK' /\ QueueInv'
<1> DEFINE s == started + 1
<1>1. /\ started < MaxReplays /\ started' = started + 1
      /\ replay' = [replay EXCEPT ![s] = queued]
      /\ doubled' = doubled \cup {a \in queued : UnderWay(a)}
  BY DEF syncQueuedActions, getQueuedActions
<1>2. started \in Nat /\ MaxReplays \in Nat
  BY OfflineAssumption DEF QueueTypeOK
<1>3. started' \in 0..MaxReplays /\ s \in Replays /\ s > started
  BY <1>1, <1>2 DEF Replays
<1>4. replay[s] = {} /\ removing[s] = {} /\ \A q \in Replays : replay'[q] = IF q = s THEN queued ELSE replay[q]
  BY <1>1, <1>3 DEF QueueTypeOK, QueueInv, ReplaysBegin
<1>5. QueueTypeOK'
  BY <1>1, <1>3, <1>4 DEF QueueTypeOK
<1>6. ReplaysBegin' /\ NothingIsLost' /\ NewIsUntouched'
  <2>1. \A q \in Replays : q > started' => q > started /\ q # s
    BY <1>1, <1>2 DEF Replays
  <2>2. QED
    BY <1>4, <2>1 DEF QueueTypeOK, QueueInv, ReplaysBegin, NothingIsLost, NewIsUntouched
<1>7. PostedOnce'
  <2> SUFFICES ASSUME NEW b \in made \ doubled'
               PROVE  /\ accepted[b] <= 1
                      /\ \A q \in Replays : b \in replay'[q] => accepted[b] = 0
                      /\ \A q, r \in Replays : b \in replay'[q] /\ b \in replay'[r] => q = r
                      /\ b \in queued /\ accepted[b] > 0 => \E q \in Replays : b \in removing[q]
    BY DEF PostedOnce
  <2>1. b \notin doubled /\ (b \in queued => ~UnderWay(b)) /\ accepted[b] \in Nat
    BY <1>1 DEF QueueTypeOK
  <2>2. b \in queued => \A q \in Replays : b \notin replay[q] /\ b \notin removing[q]
    BY <2>1 DEF UnderWay
  <2>3. b \in queued => accepted[b] = 0
    BY <2>1, <2>2 DEF QueueInv, PostedOnce
  <2>4. QED
    BY <1>4, <2>1, <2>2, <2>3 DEF QueueInv, PostedOnce
<1>8. QED
  BY <1>5, <1>6, <1>7 DEF QueueInv

LEMMA ClosingKeepsQueue ==
  ASSUME QueueTypeOK, QueueInv, PageCloses PROVE QueueTypeOK' /\ QueueInv'
<1>1. /\ replay' = [q \in Replays |-> {}] /\ removing' = [q \in Replays |-> {}] /\ counting' = {}
      /\ doubled' = doubled \cup UNION {replay[p] \cup removing[p] : p \in Replays}
      /\ UNCHANGED <<queued, started, made, accepted>>
  BY DEF PageCloses
<1>2. \A q \in Replays : replay'[q] = {} /\ removing'[q] = {} /\ replay[q] \cup removing[q] \subseteq doubled'
  BY <1>1
<1>3. doubled' \subseteq made'
  BY <1>1 DEF QueueTypeOK, QueueInv, ReplaysBegin
<1>4. QueueTypeOK'
  BY <1>1, <1>3 DEF QueueTypeOK
<1>5. ReplaysBegin' /\ NothingIsLost' /\ NewIsUntouched'
  BY <1>1, <1>2 DEF QueueInv, ReplaysBegin, NothingIsLost, NewIsUntouched
<1>6. PostedOnce'
  BY <1>1, <1>2 DEF QueueInv, PostedOnce
<1>7. QED
  BY <1>4, <1>5, <1>6 DEF QueueInv

LEMMA QueueStays ==
  ASSUME QueueTypeOK, QueueInv, [OfflineNext]_offlineVars PROVE QueueTypeOK' /\ QueueInv'
<1>1. CASE UNCHANGED queueVars
  BY <1>1, QueueStands DEF QueueTypeOK, queueVars
<1>2. CASE QueueStep
  BY <1>2, QueueingKeepsQueue, RefusalKeepsQueue, AcceptingKeepsQueue, RemovalKeepsQueue DEF QueueStep
<1>3. CASE HandleOnline
  <2>1. /\ syncQueuedActions /\ UNCHANGED <<queued, removing, made, accepted>>
        /\ counting' = counting \cup {started + 1}
    BY <1>3 DEF HandleOnline
  <2>2. counting' \subseteq 1..(started + 1)
    BY <2>1 DEF QueueTypeOK
  <2>3. QED
    BY <2>1, <2>2, SyncKeepsQueue
<1>4. ASSUME NEW up \in BOOLEAN, HandleReconnection(up) PROVE QueueTypeOK' /\ QueueInv'
  <2>1. UNCHANGED <<queued, counting, removing, made, accepted>>
    BY <1>4 DEF HandleReconnection
  <2>2. CASE up
    <3>1. counting' \subseteq 1..(started + 1)
      BY <2>1 DEF QueueTypeOK
    <3>2. QED
      BY <1>4, <2>1, <2>2, <3>1, SyncKeepsQueue DEF HandleReconnection
  <2>3. CASE ~up
    BY <1>1, <1>4, <2>1, <2>3 DEF HandleReconnection, queueVars
  <2>4. QED
    BY <2>2, <2>3
<1>5. CASE PageCloses
  BY <1>5, ClosingKeepsQueue
<1>6. ASSUME NEW r \in counting, BarCounts(r) PROVE QueueTypeOK' /\ QueueInv'
  <2>1. counting' \subseteq counting /\ UNCHANGED <<queued, started, replay, removing, made, accepted, doubled>>
    BY <1>6 DEF BarCounts
  <2>2. QED
    BY <2>1 DEF QueueTypeOK, QueueInv, ReplaysBegin, PostedOnce, NothingIsLost, NewIsUntouched
<1>7. CASE HandleOffline \/ HealthExpires \/ checkStatus \/ (\E up \in BOOLEAN : BarProbeAnswers(up)) \/ MapStep
  <2>1. UNCHANGED queueVars
    BY <1>7 DEF HandleOffline, HealthExpires, checkStatus, BarProbeAnswers, MapStep, ListFails, syncFires,
                ListArrives, CachedShown, SyncFiresAnswers
  <2>2. QED
    BY <1>1, <2>1
<1>8. QED
  BY <1>1, <1>2, <1>3, <1>4, <1>5, <1>6, <1>7 DEF OfflineNext, NetStep, BarStep, offlineVars

-----------------------------------------------------------------------------
(* The network and the offline bar. *)

NetTypeOK ==
  /\ onLine \in BOOLEAN /\ knownDown \in BOOLEAN
  /\ probing \in [Probers -> 0..MaxProbes]
  /\ outages \in 0..MaxOutages /\ closes \in 0..MaxCloses

ProbeMoves(p) ==
  \/ probing[p] > 0 /\ probing' = [probing EXCEPT ![p] = @ - 1]
  \/ probing[p] < MaxProbes /\ probing' = [probing EXCEPT ![p] = @ + 1]

LEMMA ProbeIsCounted ==
  ASSUME NetTypeOK, NEW p \in Probers, ProbeMoves(p)
  PROVE  probing' \in [Probers -> 0..MaxProbes]
<1>1. probing[p] \in 0..MaxProbes /\ MaxProbes \in Nat
  BY OfflineAssumption DEF NetTypeOK
<1>2. \/ probing[p] > 0 /\ probing' = [probing EXCEPT ![p] = probing[p] - 1]
      \/ probing[p] < MaxProbes /\ probing' = [probing EXCEPT ![p] = probing[p] + 1]
  BY DEF ProbeMoves
<1>3. PICK n \in 0..MaxProbes : probing' = [probing EXCEPT ![p] = n]
  <2>1. probing[p] > 0 => probing[p] - 1 \in 0..MaxProbes
    BY <1>1
  <2>2. probing[p] < MaxProbes => probing[p] + 1 \in 0..MaxProbes
    BY <1>1
  <2>3. QED
    BY <1>2, <2>1, <2>2
<1>4. QED
  BY <1>3 DEF NetTypeOK

LEMMA NetStays == ASSUME NetTypeOK, [OfflineNext]_offlineVars PROVE NetTypeOK'
<1>1. \/ probing' = probing
      \/ probing' = [p \in Probers |-> 0]
      \/ \E p \in Probers : ProbeMoves(p)
  <2>1. "bar" \in Probers /\ "app" \in Probers /\ "map" \in Probers
    BY DEF Probers
  <2>2. CASE QueueStep
    BY <2>2 DEF QueueStep, queueRawAction, PostRefused, PostAccepted, removeQueueAction, netVars
  <2>3. CASE NetStep
    BY <2>1, <2>3 DEF NetStep, HandleOnline, HandleOffline, HealthExpires, PageCloses, ProbeMoves, netVars
  <2>4. CASE BarStep
    BY <2>1, <2>4 DEF BarStep, checkStatus, BarCounts, BarProbeAnswers, HandleReconnection, Probe, ProbeMoves, netVars
  <2>5. CASE MapStep
    BY <2>1, <2>5 DEF MapStep, ListFails, syncFires, ListArrives, CachedShown, SyncFiresAnswers, Probe, ProbeMoves, netVars
  <2>6. QED
    BY <2>2, <2>3, <2>4, <2>5 DEF OfflineNext, offlineVars, netVars
<1>2. 0 \in 0..MaxProbes
  BY OfflineAssumption
<1>3. probing' \in [Probers -> 0..MaxProbes]
  BY <1>1, <1>2, ProbeIsCounted DEF NetTypeOK
<1>4. /\ onLine' \in BOOLEAN /\ knownDown' \in BOOLEAN
      /\ outages' = outages \/ (outages < MaxOutages /\ outages' = outages + 1)
      /\ closes' = closes \/ (closes < MaxCloses /\ closes' = closes + 1)
  <2>1. CASE QueueStep
    BY <2>1 DEF QueueStep, queueRawAction, PostRefused, PostAccepted, removeQueueAction, netVars, NetTypeOK
  <2>2. CASE NetStep
    BY <2>2 DEF NetStep, HandleOnline, HandleOffline, HealthExpires, PageCloses, NetTypeOK
  <2>3. CASE BarStep
    BY <2>3 DEF BarStep, checkStatus, BarCounts, BarProbeAnswers, HandleReconnection, netVars, NetTypeOK
  <2>4. CASE MapStep
    BY <2>4 DEF MapStep, ListFails, syncFires, ListArrives, CachedShown, SyncFiresAnswers, Remember, netVars, NetTypeOK
  <2>5. QED
    BY <2>1, <2>2, <2>3, <2>4 DEF OfflineNext, offlineVars, netVars, NetTypeOK
<1>5. outages' \in 0..MaxOutages /\ closes' \in 0..MaxCloses
  BY <1>4, OfflineAssumption DEF NetTypeOK
<1>6. QED
  BY <1>3, <1>4, <1>5 DEF NetTypeOK

BarTypeOK ==
  /\ isOffline \in BOOLEAN
  /\ failCount \in 0..2
  /\ queueCount \in 0..Cardinality(Actions)

(* The count of the bar, as a step leaves it. *)
LEMMA CountStays ==
  ASSUME OfflineTypeOK, BarInv, [OfflineNext]_offlineVars, QueueTypeOK'
  PROVE  queueCount' \in 0..Cardinality(Actions) /\ queueCount' <= Cardinality(made')
<1>1. queueCount' \in {queueCount, Cardinality(queued), 0} /\ made \subseteq made'
  <2>1. CASE QueueStep
    BY <2>1 DEF QueueStep, queueRawAction, PostRefused, PostAccepted, removeQueueAction, barVars
  <2>2. CASE NetStep
    BY <2>2 DEF NetStep, HandleOnline, HandleOffline, HealthExpires, PageCloses, barVars, queueVars
  <2>3. CASE BarStep
    BY <2>3 DEF BarStep, checkStatus, BarCounts, BarProbeAnswers, HandleReconnection, Counted, getQueuedActions,
                barVars, queueVars
  <2>4. CASE MapStep
    BY <2>4 DEF MapStep, ListFails, syncFires, ListArrives, CachedShown, SyncFiresAnswers, barVars, queueVars
  <2>5. QED
    BY <2>1, <2>2, <2>3, <2>4 DEF OfflineNext, offlineVars, barVars, queueVars
<1>2. IsFiniteSet(made') /\ IsFiniteSet(made) /\ Cardinality(Actions) \in Nat
  BY OfflineAssumption, FS_Subset, FS_CardinalityType DEF QueueTypeOK, OfflineTypeOK
<1>3. Cardinality(made) <= Cardinality(made') /\ Cardinality(made) \in Nat /\ Cardinality(made') \in Nat
  BY <1>1, <1>2, FS_Subset, FS_CardinalityType
<1>4. queueCount \in 0..Cardinality(Actions) /\ queueCount <= Cardinality(made)
  BY DEF OfflineTypeOK, BarInv
<1>5. Cardinality(queued) \in 0..Cardinality(Actions) /\ Cardinality(queued) <= Cardinality(made)
  BY QueueIsCounted
<1>6. QED
  BY <1>1, <1>2, <1>3, <1>4, <1>5

(* Two failed probes in a row, as a step leaves them. *)
LEMMA FailuresStay ==
  ASSUME OfflineTypeOK, BarInv, [OfflineNext]_offlineVars
  PROVE  isOffline' \in BOOLEAN /\ failCount' \in 0..2 /\ (isOffline' /\ onLine' => failCount' = 2)
<1>1. isOffline \in BOOLEAN /\ onLine \in BOOLEAN /\ failCount \in 0..2 /\ (isOffline /\ onLine => failCount = 2)
  BY DEF OfflineTypeOK, BarInv
<1>2. \/ UNCHANGED <<isOffline, failCount, onLine>>
      \/ isOffline' = FALSE /\ failCount' = 0
      \/ isOffline' = TRUE /\ failCount' = failCount /\ onLine' = FALSE
      \/ BarFailed /\ onLine' = onLine
  <2>1. CASE QueueStep
    BY <2>1 DEF QueueStep, queueRawAction, PostRefused, PostAccepted, removeQueueAction, barVars, netVars
  <2>2. CASE NetStep
    BY <2>2 DEF NetStep, HandleOnline, HandleOffline, HealthExpires, PageCloses, barVars
  <2>3. CASE BarStep
    BY <1>1, <2>3 DEF BarStep, checkStatus, BarCounts, BarProbeAnswers, BarReached, HandleReconnection, Probe, barVars, netVars
  <2>4. CASE MapStep
    BY <2>4 DEF MapStep, ListFails, syncFires, ListArrives, CachedShown, SyncFiresAnswers, barVars, netVars
  <2>5. QED
    BY <2>1, <2>2, <2>3, <2>4 DEF OfflineNext, offlineVars, barVars, netVars
<1>3. CASE BarFailed /\ onLine' = onLine
  <2>1. CASE failCount = 0
    <3>1. failCount' = 1 /\ isOffline' = isOffline /\ ~(isOffline /\ onLine)
      BY <1>1, <1>3, <2>1 DEF BarFailed
    <3>2. QED
      BY <1>1, <1>3, <3>1
  <2>2. CASE failCount # 0
    <3>1. failCount >= 1 /\ failCount' = 2
      BY <1>1, <1>3, <2>2 DEF BarFailed
    <3>2. isOffline' = TRUE
      BY <1>1, <1>3, <3>1 DEF BarFailed
    <3>3. QED
      BY <3>1, <3>2
  <2>3. QED
    BY <2>1, <2>2
<1>4. CASE UNCHANGED <<isOffline, failCount, onLine>>
  <2>1. isOffline' = isOffline /\ failCount' = failCount /\ onLine' = onLine
    BY <1>4
  <2>2. QED
    BY <1>1, <2>1, Zenon
<1>5. CASE isOffline' = FALSE /\ failCount' = 0
  <2>1. failCount' \in 0..2
    BY <1>5
  <2>2. QED
    BY <1>5, <2>1
<1>6. CASE isOffline' = TRUE /\ failCount' = failCount /\ onLine' = FALSE
  BY <1>1, <1>6
<1>7. QED
  BY <1>2, <1>3, <1>4, <1>5, <1>6

LEMMA BarIsRight == OfflineTypeOK /\ BarInv => BarIsFair
<1> SUFFICES ASSUME OfflineTypeOK, BarInv PROVE BarIsFair
  OBVIOUS
<1>1. ASSUME onLine, failCount < 2, made = {} PROVE ~barShown
  <2>1. Cardinality(made) = 0 /\ Cardinality(Actions) \in Nat
    BY <1>1, FS_EmptySet, OfflineAssumption, FS_CardinalityType
  <2>2. ~(queueCount > 0)
    BY <2>1 DEF OfflineTypeOK, BarInv
  <2>3. ~isOffline
    BY <1>1 DEF BarInv
  <2>4. QED
    BY <2>2, <2>3 DEF barShown
<1>2. QED
  BY <1>1 DEF BarInv, BarIsFair

-----------------------------------------------------------------------------
(* The fires on the map. *)

ShownTypeOK ==
  /\ overtaken \in BOOLEAN
  /\ fires \in Lists \cup {{}}
  /\ activeFires \subseteq Verified
  /\ incidents \subseteq Incidents
  /\ reading \subseteq SUBSET Incidents
  /\ given \subseteq Incidents
  /\ reads \in 0..MaxReads

LEMMA ListKeepsMap ==
  ASSUME ShownTypeOK, MapIsUpToDate, NEW list \in Lists, ListArrives(list) PROVE ShownTypeOK' /\ MapIsUpToDate'
<1>1. reads < MaxReads /\ reads' = reads + 1 /\ fires' = list /\ reading' = reading
  BY DEF ListArrives
<1>2. reads' \in 0..MaxReads /\ list \subseteq Incidents
  BY <1>1, OfflineAssumption DEF ShownTypeOK
<1>3. CASE list = {}
  BY <1>1, <1>2, <1>3 DEF ListArrives, ShownTypeOK, MapIsUpToDate
<1>4. CASE list # {}
  BY <1>1, <1>2, <1>4 DEF ListArrives, cacheIncidents, ShownTypeOK, MapIsUpToDate
<1>5. QED
  BY <1>3, <1>4

LEMMA CacheKeepsMap ==
  ASSUME ShownTypeOK, MapIsUpToDate, NEW list \in reading, CachedShown(list) PROVE ShownTypeOK' /\ MapIsUpToDate'
<1>1. /\ reading' = reading \ {list}
      /\ activeFires' = IF list = {} THEN activeFires ELSE list \cap Verified
      /\ overtaken' = (list # given)
      /\ UNCHANGED <<fires, incidents, given, reads>>
  BY DEF CachedShown
<1>2. ShownTypeOK'
  BY <1>1 DEF ShownTypeOK
<1>3. MapIsUpToDate'
  BY <1>1 DEF MapIsUpToDate
<1>4. QED
  BY <1>2, <1>3

LEMMA ShownStays ==
  ASSUME ShownTypeOK, MapIsUpToDate, [OfflineNext]_offlineVars PROVE ShownTypeOK' /\ MapIsUpToDate'
<1>1. CASE UNCHANGED mapVars
  BY <1>1 DEF mapVars, ShownTypeOK, MapIsUpToDate
<1>2. CASE QueueStep \/ BarStep \/ HandleOnline \/ HandleOffline \/ HealthExpires
  BY <1>1, <1>2 DEF QueueStep, queueRawAction, PostRefused, PostAccepted, removeQueueAction, BarStep, checkStatus,
      BarCounts, BarProbeAnswers, HandleReconnection, HandleOnline, HandleOffline, HealthExpires
<1>3. CASE PageCloses
  BY <1>3 DEF PageCloses, ShownTypeOK, MapIsUpToDate
<1>4. CASE ListFails
  BY <1>4 DEF ListFails, ShownTypeOK, MapIsUpToDate
<1>5. CASE syncFires \/ \E up \in BOOLEAN : SyncFiresAnswers(up)
  <2>1. /\ UNCHANGED <<fires, activeFires, incidents, given, overtaken, reads>>
        /\ reading' \in {reading, reading \cup {incidents}}
    BY <1>5 DEF syncFires, SyncFiresAnswers, getCachedIncidents
  <2>2. QED
    BY <2>1 DEF ShownTypeOK, MapIsUpToDate
<1>6. QED
  BY <1>1, <1>2, <1>3, <1>4, <1>5, ListKeepsMap, CacheKeepsMap DEF OfflineNext, NetStep, MapStep, offlineVars

LEMMA OfflineTypesSplit ==
  OfflineTypeOK <=> QueueTypeOK /\ NetTypeOK /\ BarTypeOK /\ ShownTypeOK
BY DEF OfflineTypeOK, QueueTypeOK, NetTypeOK, BarTypeOK, ShownTypeOK

LEMMA OfflineBegins == OfflineInit => OfflineInv
<1> SUFFICES ASSUME OfflineInit PROVE OfflineInv
  OBVIOUS
<1>1. /\ started = 0 /\ queueCount = 0 /\ outages = 0 /\ closes = 0 /\ reads = 0 /\ made = {} /\ queued = {}
      /\ replay = [p \in Replays |-> {}] /\ removing = [p \in Replays |-> {}]
      /\ accepted = [a \in Actions |-> 0] /\ probing = [p \in Probers |-> 0]
      /\ incidents \in Lists /\ given = {} /\ isOffline = FALSE
  BY DEF OfflineInit
<1>2. Cardinality(Actions) \in Nat /\ Cardinality(made) = 0
  BY <1>1, OfflineAssumption, FS_CardinalityType, FS_EmptySet
<1>3. /\ started \in 0..MaxReplays /\ outages \in 0..MaxOutages /\ closes \in 0..MaxCloses /\ reads \in 0..MaxReads
      /\ queueCount \in 0..Cardinality(Actions) /\ 0 \in 0..MaxProbes
  BY <1>1, <1>2, OfflineAssumption
<1>4. incidents \subseteq Incidents /\ probing \in [Probers -> 0..MaxProbes]
  BY <1>1, <1>3, OfflineAssumption
<1>5. OfflineTypeOK
  <2>1. QueueTypeOK
    BY <1>1, <1>3 DEF OfflineInit, QueueTypeOK
  <2>2. NetTypeOK
    BY <1>3, <1>4 DEF OfflineInit, NetTypeOK
  <2>3. BarTypeOK
    <3>1. failCount = 0 /\ 0 \in 0..2
      BY DEF OfflineInit
    <3>2. QED
      BY <1>1, <1>3, <3>1 DEF BarTypeOK
  <2>4. ShownTypeOK
    BY <1>3, <1>4 DEF OfflineInit, ShownTypeOK
  <2>5. QED
    BY <2>1, <2>2, <2>3, <2>4, OfflineTypesSplit
<1>6. QueueInv
  <2>1. ReplaysBegin
    BY <1>1 DEF ReplaysBegin
  <2>2. PostedOnce /\ NothingIsLost /\ NewIsUntouched
    BY <1>1 DEF PostedOnce, NothingIsLost, NewIsUntouched
  <2>3. QED
    BY <2>1, <2>2 DEF QueueInv
<1>7. BarInv /\ MapIsUpToDate
  BY <1>1, <1>2 DEF BarInv, MapIsUpToDate
<1>8. QED
  BY <1>5, <1>6, <1>7 DEF OfflineInv

LEMMA OfflineStays == OfflineInv /\ [OfflineNext]_offlineVars => OfflineInv'
<1> SUFFICES ASSUME OfflineInv, [OfflineNext]_offlineVars PROVE OfflineInv'
  OBVIOUS
<1>1. OfflineTypeOK /\ QueueTypeOK /\ NetTypeOK /\ BarTypeOK /\ ShownTypeOK /\ QueueInv /\ BarInv /\ MapIsUpToDate
  BY OfflineTypesSplit DEF OfflineInv
<1>2. QueueTypeOK' /\ QueueInv' /\ NetTypeOK' /\ ShownTypeOK' /\ MapIsUpToDate'
  BY <1>1, QueueStays, NetStays, ShownStays
<1>3. BarTypeOK' /\ BarInv'
  BY <1>1, <1>2, CountStays, FailuresStay DEF BarTypeOK, BarInv
<1>4. OfflineTypeOK'
  BY <1>2, <1>3 DEF OfflineTypeOK, QueueTypeOK, NetTypeOK, BarTypeOK, ShownTypeOK
<1>5. QED
  BY <1>2, <1>3, <1>4 DEF OfflineInv

LEMMA OfflineIsRight == OfflineInv => QueueIsKept /\ BarIsFair /\ MapIsUpToDate
<1> SUFFICES ASSUME OfflineInv PROVE QueueIsKept /\ BarIsFair /\ MapIsUpToDate
  OBVIOUS
<1>1. ASSUME NEW a \in made PROVE (a \in queued \/ accepted[a] > 0) /\ (accepted[a] > 1 => a \in doubled)
  <2>1. accepted[a] \in Nat
    BY DEF OfflineInv, OfflineTypeOK
  <2>2. a \notin doubled => accepted[a] <= 1
    BY DEF OfflineInv, QueueInv, PostedOnce
  <2>3. QED
    BY <2>1, <2>2 DEF OfflineInv, QueueInv, NothingIsLost
<1>2. QED
  BY <1>1, BarIsRight DEF OfflineInv, QueueIsKept

-----------------------------------------------------------------------------
(***************************************************************************)
(* SimulationWorkspace: the runs, the playback and the suggestions         *)
(* (RunsAreOurs, PlaybackFits).                                            *)
(***************************************************************************)

(* How long a result plays. *)
LEMMA LengthIsNumber ==
  ASSUME NEW runs \in Seq(Seq(Grids))
  PROVE  Length(runs) \in Nat
<1> DEFINE f == [i \in 1..Len(runs) |-> Len(runs[i])]
<1>1. Len(runs) \in Nat /\ DOMAIN runs = 1..Len(runs)
  OBVIOUS
<1>2. \A i \in 1..Len(runs) : f[i] \in Nat
  OBVIOUS
<1> DEFINE T == {f[i] : i \in 1..Len(runs)} \cup {0}
<1>3. {Len(runs[i]) : i \in DOMAIN runs} \cup {0} = T
  BY <1>1
<1>4. Max(T) \in T
  <2> HIDE DEF f
  <2>1. QED
    BY <1>1, <1>2, MaxOfValues
<1>5. T \subseteq Nat
  BY <1>2
<1> HIDE DEF T
<1>6. Max(T) \in Nat
  BY <1>4, <1>5
<1>7. QED
  BY <1>3, <1>6 DEF Length

LEMMA TotalIsNumber ==
  ASSUME WorkspaceTypeOK
  PROVE  Total \in Nat
<1>1. CASE result = NoResult
  BY <1>1 DEF Total
<1>2. CASE result # NoResult
  <2>1. result.runs \in Seq(Seq(Grids))
    BY <1>2, WorkspaceAssumption DEF WorkspaceTypeOK
  <2>2. QED
    BY <1>2, <2>1, LengthIsNumber DEF Total
<1>3. QED
  BY <1>1, <1>2

(* What the last questions and the progress are of, ... *)
AsksAreTidy ==
  /\ ~isLoading => progress = NoAsk
  /\ lastCluster # NoAsk => Cardinality(lastCluster) >= 2
(* ... and what the page plays when no run has strayed. *)
PlaysItsResult ==
  ~strayed =>
    /\ isPlaying <=> timer # 0
    /\ timer # 0 => timer = Total
    /\ isLoading /\ ~sought => tick = 0
    /\ ~sought /\ hasResult => tick <= LastTick
RunsInv == WorkspaceTypeOK /\ AsksAreTidy /\ PlaysItsResult /\ RunsAreOurs

(* Leaving the page, as far as the runs go. *)
LeaveRuns ==
  /\ selected' = NoFire /\ chosen' = {} /\ multi' = FALSE
  /\ lastCluster' = NoAsk /\ progressKey' = NoAsk
  /\ ClearMap
  /\ suggestion' = NoFire /\ suggesting' = NoFire /\ accepting' = NoAsk
  /\ UNCHANGED seeks

LEMMA NoAskIsNone == NoAsk \notin Subjects
BY WorkspaceAssumption DEF NoAsk, Subjects

LEMMA RunsBegin ==
  ASSUME WorkspaceInit PROVE RunsInv
<1> USE WorkspaceAssumption DEF WorkspaceInit
<1>1. WorkspaceTypeOK
  <2>1. asked \in [RunIds -> Subjects \cup {NoAsk}]
    OBVIOUS
  <2>2. seeks \in 0..MaxSeeks
    OBVIOUS
  <2>3. status \in Statuses
    BY DEF Statuses
  <2>4. QED
    BY <2>1, <2>2, <2>3 DEF WorkspaceTypeOK
<1>2. AsksAreTidy
  BY DEF AsksAreTidy
<1>3. Total = 0 /\ InFlight = {} /\ ~isLoading /\ ~isPlaying
  BY DEF Total, InFlight, isLoading, isPlaying
<1>4. PlaysItsResult
  BY <1>3 DEF PlaysItsResult, hasResult
<1>5. RunsAreOurs
  BY <1>3 DEF RunsAreOurs, OneRunAtATime, RunsFitTheSelection
<1>6. QED
  BY <1>1, <1>2, <1>4, <1>5 DEF RunsInv

(* A run that is started while no other is in flight. *)
LEMMA StartRunHolds ==
  ASSUME RunsInv, ProgressEffect, NEW subject \in Subjects, StartRun(subject),
         selected' \in Fires \cup {NoFire}, chosen' \subseteq Fires, multi' \in BOOLEAN,
         lastCluster' \in Subjects \cup {NoAsk}, lastCluster' # NoAsk => Cardinality(lastCluster') >= 2,
         suggestion' \in Fires \cup {NoFire}, suggesting' \in Fires \cup {NoFire},
         accepting' \in Subjects \cup {NoAsk}, seeks' = seeks, strayed' \in BOOLEAN,
         ~strayed' => /\ ~strayed /\ ~isLoading
                      /\ selected' = selected
                      /\ Cardinality(subject) >= 2 \/ subject = Target(selected)
  PROVE  RunsInv'
<1> DEFINE r == CHOOSE i \in RunIds \ InFlight : TRUE
<1>1. r \in RunIds /\ r \notin InFlight
  <2>1. RunIds \ InFlight # {}
    BY DEF StartRun, InFlight
  <2>2. QED
    BY <2>1
<1>2. /\ asked' = [asked EXCEPT ![r] = subject] /\ held' = r
      /\ status' = "loading" /\ tick' = 0 /\ timer' = 0 /\ sought' = FALSE
      /\ progressKey' = subject /\ result' = result
  BY DEF StartRun
<1> HIDE DEF r
<1>3. progress' = progress
  BY <1>2 DEF ProgressEffect
<1>4. asked' \in [RunIds -> Subjects \cup {NoAsk}]
  BY <1>1, <1>2 DEF RunsInv, WorkspaceTypeOK
<1>5. WorkspaceTypeOK'
  BY <1>1, <1>2, <1>3, <1>4 DEF WorkspaceTypeOK, RunsInv, Statuses
<1>6. AsksAreTidy'
  BY <1>2 DEF AsksAreTidy, isLoading
<1>7. Total \in Nat /\ Total' = Total
  BY <1>2, TotalIsNumber DEF RunsInv, Total
<1>8. PlaysItsResult'
  BY <1>2, <1>7 DEF PlaysItsResult, isPlaying, isLoading, hasResult, LastTick
<1>9. RunsAreOurs'
  <2> SUFFICES ASSUME ~strayed' PROVE OneRunAtATime' /\ RunsFitTheSelection'
    BY DEF RunsAreOurs
  <2>1. InFlight = {} /\ progress = NoAsk
    BY DEF RunsInv, AsksAreTidy, RunsAreOurs, OneRunAtATime
  <2>2. InFlight' = {r}
    <3>1. \A i \in RunIds : asked[i] = NoAsk
      BY <2>1 DEF InFlight
    <3>2. subject # NoAsk
      BY NoAskIsNone
    <3>3. QED
      BY <1>1, <1>2, <3>1, <3>2 DEF InFlight, RunsInv, WorkspaceTypeOK
  <2>3. OneRunAtATime'
    BY <1>2, <1>3, <2>1, <2>2 DEF OneRunAtATime, isLoading
  <2>4. asked'[r] = subject
    BY <1>1, <1>2 DEF RunsInv, WorkspaceTypeOK
  <2>5. RunsFitTheSelection'
    BY <1>2, <2>2, <2>4 DEF RunsFitTheSelection, RunsInv, RunsAreOurs, Target
  <2>6. QED
    BY <2>3, <2>5
<1>10. QED
  BY <1>5, <1>6, <1>8, <1>9 DEF RunsInv

(* Clearing the map. *)
LEMMA ClearMapHolds ==
  ASSUME RunsInv, ProgressEffect, ClearMap,
         selected' \in Fires \cup {NoFire}, chosen' \subseteq Fires, multi' \in BOOLEAN,
         lastCluster' \in {lastCluster, NoAsk}, progressKey' \in {progressKey, NoAsk},
         suggestion' \in Fires \cup {NoFire}, suggesting' \in Fires \cup {NoFire},
         accepting' \in Subjects \cup {NoAsk}, seeks' = seeks
  PROVE  RunsInv'
<1>1. /\ asked' = [r \in RunIds |-> IF r = held THEN NoAsk ELSE asked[r]] /\ held' = NoRun
      /\ timer' = 0 /\ result' = NoResult /\ tick' = 0 /\ sought' = FALSE /\ status' = "idle"
      /\ strayed' = (strayed /\ ~(InFlight \subseteq {held}))
  BY DEF ClearMap, AbortHeld
<1>2. progress' = NoAsk
  BY <1>1 DEF ProgressEffect
<1>3. asked' \in [RunIds -> Subjects \cup {NoAsk}]
  BY <1>1 DEF RunsInv, WorkspaceTypeOK
<1>4. strayed' \in BOOLEAN
  BY <1>1
<1>5. WorkspaceTypeOK'
  BY <1>1, <1>2, <1>3, <1>4 DEF WorkspaceTypeOK, RunsInv, Statuses
<1>6. AsksAreTidy'
  BY <1>2 DEF AsksAreTidy, RunsInv
<1>7. PlaysItsResult'
  BY <1>1 DEF PlaysItsResult, isPlaying, isLoading, hasResult, Total
<1>8. RunsAreOurs'
  <2> SUFFICES ASSUME ~strayed' PROVE OneRunAtATime' /\ RunsFitTheSelection'
    BY DEF RunsAreOurs
  <2>1. InFlight \subseteq {held}
    <3>1. CASE strayed
      BY <1>1, <3>1
    <3>2. CASE ~strayed
      BY <3>2 DEF RunsInv, RunsAreOurs, OneRunAtATime
    <3>3. QED
      BY <3>1, <3>2
  <2>2. InFlight' = {}
    BY <1>1, <2>1 DEF InFlight
  <2>3. QED
    BY <1>1, <1>2, <2>2 DEF OneRunAtATime, RunsFitTheSelection, isLoading
<1>9. QED
  BY <1>5, <1>6, <1>7, <1>8 DEF RunsInv

(* A step that leaves the runs alone. *)
LEMMA QuietStepHolds ==
  ASSUME RunsInv, ProgressEffect, UNCHANGED <<runVars, selected, lastCluster, progressKey, strayed, seeks>>,
         chosen' \subseteq Fires, multi' \in BOOLEAN,
         suggestion' \in Fires \cup {NoFire}, suggesting' \in Fires \cup {NoFire},
         accepting' \in Subjects \cup {NoAsk}
  PROVE  RunsInv'
<1> USE DEF runVars
<1>1. progress' = progress
  BY DEF ProgressEffect, RunsInv, AsksAreTidy, isLoading
<1>2. WorkspaceTypeOK'
  BY <1>1 DEF RunsInv, WorkspaceTypeOK
<1>3. InFlight' = InFlight /\ Total' = Total /\ isLoading' = isLoading /\ isPlaying' = isPlaying
  BY DEF InFlight, Total, isLoading, isPlaying
<1>4. AsksAreTidy' /\ PlaysItsResult'
  BY <1>1, <1>3 DEF RunsInv, AsksAreTidy, PlaysItsResult, hasResult, LastTick
<1>5. RunsAreOurs'
  BY <1>1, <1>3 DEF RunsInv, RunsAreOurs, OneRunAtATime, RunsFitTheSelection
<1>6. QED
  BY <1>2, <1>4, <1>5 DEF RunsInv

(* A step that plays, or that ends a request. *)
LEMMA PlayStepHolds ==
  ASSUME RunsInv, ProgressEffect, UNCHANGED <<choiceVars, lineVars, strayed>>,
         seeks' \in 0..MaxSeeks, status' \in Statuses, tick' \in Nat, timer' \in Nat,
         asked' \in [RunIds -> Subjects \cup {NoAsk}], held' \in RunIds \cup {NoRun}, sought' \in BOOLEAN,
         result' # NoResult => result'.of \in Subjects /\ result'.runs \in Outcomes[result'.of],
         PlaysItsResult',
         isLoading' => isLoading,
         ~strayed => InFlight' = IF isLoading' THEN {held'} ELSE {},
         \A r \in InFlight' : r \in InFlight /\ asked'[r] = asked[r],
         result' = result \/ \E r \in InFlight : result'.of = asked[r]
  PROVE  RunsInv'
<1> USE DEF choiceVars, lineVars
<1>1. progress' = IF isLoading' THEN progress ELSE NoAsk
  BY DEF ProgressEffect, isLoading
<1>2. WorkspaceTypeOK'
  BY <1>1 DEF RunsInv, WorkspaceTypeOK
<1>3. AsksAreTidy'
  BY <1>1 DEF RunsInv, AsksAreTidy
<1>4. RunsAreOurs'
  BY <1>1 DEF RunsInv, RunsAreOurs, OneRunAtATime, RunsFitTheSelection
<1>5. QED
  BY <1>2, <1>3, <1>4 DEF RunsInv

(* startAutoPlay makes the tick and the timer those of the result. *)
LEMMA AutoPlayFits ==
  ASSUME RunsInv, NEW total \in Nat, StartAutoPlay(total), Total' = total, ~sought => tick = 0 \/ strayed, strayed' = strayed
  PROVE  /\ status' \in {"paused", "playing"} /\ tick' \in Nat /\ timer' \in Nat /\ sought' \in BOOLEAN
         /\ PlaysItsResult'
<1>1. tick \in Nat /\ sought \in BOOLEAN
  BY DEF RunsInv, WorkspaceTypeOK
<1>2. CASE total <= 1
  <2>1. status' = "paused" /\ timer' = 0 /\ tick' = 0 /\ sought' = FALSE
    BY <1>2 DEF StartAutoPlay
  <2>2. hasResult' => 0 <= LastTick'
    BY DEF hasResult, LastTick
  <2>3. QED
    BY <2>1, <2>2 DEF PlaysItsResult, isPlaying, isLoading
<1>3. CASE ~(total <= 1)
  <2>1. status' = "playing" /\ timer' = total /\ tick' = tick /\ sought' = sought
    BY <1>3 DEF StartAutoPlay
  <2>2. Total' # 0 /\ 0 <= LastTick'
    BY <1>3 DEF LastTick
  <2>3. QED
    BY <1>1, <2>1, <2>2 DEF PlaysItsResult, isPlaying, isLoading
<1>4. QED
  BY <1>2, <1>3

LEMMA OverEnds ==
  ASSUME RunsInv, NEW r \in InFlight, Over(r)
  PROVE  /\ asked' \in [RunIds -> Subjects \cup {NoAsk}] /\ held' \in RunIds \cup {NoRun}
         /\ InFlight' = InFlight \ {r}
         /\ \A q \in InFlight' : asked'[q] = asked[q]
<1>1. asked \in [RunIds -> Subjects \cup {NoAsk}] /\ held \in RunIds \cup {NoRun}
  BY DEF RunsInv, WorkspaceTypeOK
<1>2. asked' = [asked EXCEPT ![r] = NoAsk] /\ held' = IF held = r THEN NoRun ELSE held
  BY DEF Over
<1>3. r \in RunIds
  BY DEF InFlight
<1>4. QED
  BY <1>1, <1>2, <1>3 DEF InFlight

LEMMA RunAnswersHolds ==
  ASSUME RunsInv, ProgressEffect, NEW r \in RunIds, RunAnswers(r)
  PROVE  RunsInv'
<1>1. r \in InFlight /\ Over(r) /\ asked[r] \in Subjects
  BY DEF RunAnswers, InFlight, RunsInv, WorkspaceTypeOK
<1>2. PICK runs \in Outcomes[asked[r]] : result' = [of |-> asked[r], runs |-> runs] /\ StartAutoPlay(Length(runs))
  BY DEF RunAnswers
<1>3. runs \in Seq(Seq(Grids))
  BY <1>1, WorkspaceAssumption
<1>4. result' # NoResult
  BY <1>1, <1>2, <1>3, WorkspaceAssumption
<1>5. result'.of = asked[r] /\ result'.runs = runs
  BY <1>2
<1>6. Total' = Length(runs) /\ Length(runs) \in Nat
  BY <1>3, <1>4, <1>5, LengthIsNumber DEF Total
<1>7. UNCHANGED <<choiceVars, lineVars, strayed, seeks>>
  BY DEF RunAnswers
<1>8. ~strayed => isLoading /\ InFlight = {r}
  BY <1>1 DEF RunsInv, RunsAreOurs, OneRunAtATime
<1>9. ~sought => tick = 0 \/ strayed
  BY <1>8 DEF RunsInv, PlaysItsResult
<1>10. /\ status' \in {"paused", "playing"} /\ tick' \in Nat /\ timer' \in Nat /\ sought' \in BOOLEAN
       /\ PlaysItsResult'
  BY <1>2, <1>6, <1>7, <1>9, AutoPlayFits
<1>11. ~isLoading'
  BY <1>10 DEF isLoading
<1>12. QED
  <2>1. ~strayed => InFlight' = {}
    BY <1>1, <1>8, OverEnds
  <2>2. \A q \in InFlight' : q \in InFlight /\ asked'[q] = asked[q]
    BY <1>1, OverEnds
  <2>3. asked' \in [RunIds -> Subjects \cup {NoAsk}] /\ held' \in RunIds \cup {NoRun}
    BY <1>1, OverEnds
  <2>4. seeks' \in 0..MaxSeeks /\ status' \in Statuses
    BY <1>7, <1>10 DEF RunsInv, WorkspaceTypeOK, Statuses
  <2>5. result' # NoResult => result'.of \in Subjects /\ result'.runs \in Outcomes[result'.of]
    BY <1>1, <1>5
  <2>6. result' = result \/ \E q \in InFlight : result'.of = asked[q]
    BY <1>1, <1>5
  <2>7. ~strayed => InFlight' = IF isLoading' THEN {held'} ELSE {}
    BY <2>1, <1>11
  <2>8. QED
    BY <1>7, <1>10, <1>11, <2>2, <2>3, <2>4, <2>5, <2>6, <2>7, PlayStepHolds

LEMMA RunFailsHolds ==
  ASSUME RunsInv, ProgressEffect, NEW r \in RunIds, RunFails(r)
  PROVE  RunsInv'
<1>1. r \in InFlight /\ Over(r) /\ status' = "error"
  BY DEF RunFails
<1>2. UNCHANGED <<result, tick, timer, sought, choiceVars, lineVars, strayed, seeks>>
  BY DEF RunFails
<1>3. Total' = Total /\ ~isLoading' /\ ~isPlaying'
  BY <1>1, <1>2 DEF Total, isLoading, isPlaying
<1>4. ~strayed => isLoading /\ InFlight = {r}
  BY <1>1 DEF RunsInv, RunsAreOurs, OneRunAtATime
<1>5. ~strayed => timer = 0
  BY <1>4 DEF RunsInv, PlaysItsResult, isLoading, isPlaying
<1>6. PlaysItsResult'
  BY <1>2, <1>3, <1>5 DEF PlaysItsResult, RunsInv, hasResult, LastTick
<1>7. QED
  <2>1. ~strayed => InFlight' = IF isLoading' THEN {held'} ELSE {}
    BY <1>1, <1>3, <1>4, OverEnds
  <2>2. \A q \in InFlight' : q \in InFlight /\ asked'[q] = asked[q]
    BY <1>1, OverEnds
  <2>3. asked' \in [RunIds -> Subjects \cup {NoAsk}] /\ held' \in RunIds \cup {NoRun}
    BY <1>1, OverEnds
  <2>4. /\ seeks' \in 0..MaxSeeks /\ status' \in Statuses
        /\ tick' \in Nat /\ timer' \in Nat /\ sought' \in BOOLEAN
        /\ result' # NoResult => result'.of \in Subjects /\ result'.runs \in Outcomes[result'.of]
    BY <1>1, <1>2 DEF RunsInv, WorkspaceTypeOK, Statuses
  <2>5. QED
    BY <1>2, <1>3, <1>6, <2>1, <2>2, <2>3, <2>4, PlayStepHolds

(* A step that plays without a request. *)
LEMMA TimerStepHolds ==
  ASSUME RunsInv, ProgressEffect, UNCHANGED <<result, asked, held, choiceVars, lineVars, strayed>>,
         seeks' \in 0..MaxSeeks, status' \in Statuses, tick' \in Nat, timer' \in Nat, sought' \in BOOLEAN,
         PlaysItsResult',
         ~strayed => (isLoading' <=> isLoading), isLoading' => isLoading
  PROVE  RunsInv'
<1>1. InFlight' = InFlight
  BY DEF InFlight
<1>2. ~strayed => InFlight' = IF isLoading' THEN {held'} ELSE {}
  BY <1>1 DEF RunsInv, RunsAreOurs, OneRunAtATime
<1>3. \A q \in InFlight' : q \in InFlight /\ asked'[q] = asked[q]
  BY <1>1
<1>4. /\ asked' \in [RunIds -> Subjects \cup {NoAsk}] /\ held' \in RunIds \cup {NoRun}
      /\ result' # NoResult => result'.of \in Subjects /\ result'.runs \in Outcomes[result'.of]
  BY DEF RunsInv, WorkspaceTypeOK
<1>5. UNCHANGED <<choiceVars, lineVars, strayed>> /\ result' = result
  OBVIOUS
<1>6. QED
  BY <1>2, <1>3, <1>4, <1>5, PlayStepHolds

LEMMA PlayTickHolds ==
  ASSUME RunsInv, ProgressEffect, PlayTick
  PROVE  RunsInv'
<1>1. UNCHANGED <<result, asked, held, choiceVars, lineVars, strayed, seeks>> /\ sought' = FALSE /\ timer > 0
  BY DEF PlayTick
<1>2. tick \in Nat /\ timer \in Nat /\ seeks \in 0..MaxSeeks /\ status \in Statuses
  BY DEF RunsInv, WorkspaceTypeOK
<1>3. Total' = Total /\ Total \in Nat
  BY <1>1, TotalIsNumber DEF Total, RunsInv
<1>4. ~strayed => isPlaying /\ timer = Total
  BY <1>1, <1>2 DEF RunsInv, PlaysItsResult
<1>5. CASE tick + 1 >= timer - 1
  <2>1. tick' = timer - 1 /\ timer' = 0 /\ status' = "paused"
    BY <1>5 DEF PlayTick
  <2>2. ~isLoading' /\ ~isPlaying' /\ status' \in Statuses
    BY <2>1 DEF isLoading, isPlaying, Statuses
  <2>3. tick' \in Nat
    BY <1>1, <1>2, <2>1
  <2>4. ~strayed => tick' <= LastTick'
    BY <1>3, <1>4, <2>1 DEF LastTick
  <2>5. PlaysItsResult'
    BY <1>1, <2>1, <2>2, <2>4 DEF PlaysItsResult
  <2>6. ~strayed => ~isLoading
    BY <1>4 DEF isPlaying, isLoading
  <2>7. timer' \in Nat /\ sought' \in BOOLEAN /\ seeks' \in 0..MaxSeeks
    BY <1>1, <1>2, <2>1
  <2>8. QED
    BY <1>1, <2>2, <2>3, <2>5, <2>6, <2>7, TimerStepHolds
<1>6. CASE ~(tick + 1 >= timer - 1)
  <2>1. tick' = tick + 1 /\ timer' = timer /\ status' = status
    BY <1>6 DEF PlayTick
  <2>2. isLoading' = isLoading /\ isPlaying' = isPlaying /\ status' \in Statuses
    BY <1>2, <2>1 DEF isLoading, isPlaying
  <2>3. tick' \in Nat /\ timer' \in Nat
    BY <1>2, <2>1
  <2>4. ~strayed => tick' <= LastTick'
    BY <1>2, <1>3, <1>4, <1>6, <2>1 DEF LastTick
  <2>5. ~strayed => ~isLoading' /\ isPlaying' /\ timer' # 0 /\ timer' = Total'
    BY <1>1, <1>2, <1>3, <1>4, <2>1, <2>2 DEF isPlaying, isLoading
  <2>6. PlaysItsResult'
    BY <1>1, <2>4, <2>5 DEF PlaysItsResult
  <2>7. sought' \in BOOLEAN /\ seeks' \in 0..MaxSeeks
    BY <1>1, <1>2
  <2>8. QED
    BY <1>1, <2>2, <2>3, <2>6, <2>7, TimerStepHolds
<1>7. QED
  BY <1>5, <1>6

LEMMA PauseHolds ==
  ASSUME RunsInv, ProgressEffect, Pause
  PROVE  RunsInv'
<1>1. /\ UNCHANGED <<result, tick, sought, asked, held, choiceVars, lineVars, strayed, seeks>>
      /\ isPlaying /\ timer' = 0 /\ status' = "paused"
  BY DEF Pause
<1>2. Total' = Total /\ ~isLoading' /\ ~isPlaying' /\ ~isLoading
  BY <1>1 DEF Total, isLoading, isPlaying
<1>3. PlaysItsResult'
  BY <1>1, <1>2 DEF PlaysItsResult, RunsInv, hasResult, LastTick
<1>4. /\ seeks' \in 0..MaxSeeks /\ status' \in Statuses
      /\ tick' \in Nat /\ timer' \in Nat /\ sought' \in BOOLEAN
  BY <1>1 DEF RunsInv, WorkspaceTypeOK, Statuses
<1>5. UNCHANGED <<result, asked, held, choiceVars, lineVars, strayed>>
  BY <1>1
<1>6. QED
  BY <1>2, <1>3, <1>4, <1>5, TimerStepHolds

LEMMA PlayHolds ==
  ASSUME RunsInv, ProgressEffect, Play
  PROVE  RunsInv'
<1>1. /\ UNCHANGED <<result, asked, held, choiceVars, lineVars, strayed, seeks>>
      /\ hasResult /\ ~isLoading /\ ~isPlaying
  BY DEF Play, PlaybackEnabled
<1>2. tick \in Nat /\ timer \in Nat /\ seeks \in 0..MaxSeeks /\ sought \in BOOLEAN
  BY DEF RunsInv, WorkspaceTypeOK
<1>3. Total' = Total /\ Total \in Nat
  BY <1>1, TotalIsNumber DEF Total, RunsInv
<1>4. CASE Total <= 1
  <2>1. status' = "paused" /\ timer' = 0 /\ tick' = 0 /\ sought' = FALSE
    BY <1>4 DEF Play, StartAutoPlay
  <2>2. ~isLoading' /\ ~isPlaying' /\ status' \in Statuses
    BY <2>1 DEF isLoading, isPlaying, Statuses
  <2>3. hasResult' => 0 <= LastTick'
    BY <1>3 DEF hasResult, LastTick
  <2>4. PlaysItsResult'
    BY <2>1, <2>2, <2>3 DEF PlaysItsResult
  <2>5. tick' \in Nat /\ timer' \in Nat /\ sought' \in BOOLEAN /\ seeks' \in 0..MaxSeeks
    BY <1>1, <1>2, <2>1
  <2>6. QED
    BY <1>1, <2>2, <2>4, <2>5, TimerStepHolds
<1>5. CASE ~(Total <= 1)
  <2> DEFINE from == IF tick >= LastTick THEN 0 ELSE tick
  <2>1. tick' = from /\ timer' = Total /\ status' = "playing" /\ sought' = (sought /\ from # 0)
    BY <1>5 DEF Play
  <2>2. ~isLoading' /\ isPlaying' /\ status' \in Statuses
    BY <2>1 DEF isLoading, isPlaying, Statuses
  <2>3. from \in Nat /\ from <= LastTick'
    BY <1>2, <1>3, <1>5 DEF LastTick
  <2>4. timer' # 0 /\ timer' = Total' /\ timer' \in Nat
    BY <1>3, <1>5, <2>1
  <2>5. PlaysItsResult'
    BY <2>1, <2>2, <2>3, <2>4 DEF PlaysItsResult
  <2>6. sought' \in BOOLEAN /\ seeks' \in 0..MaxSeeks
    BY <1>1, <1>2, <2>1
  <2>7. QED
    BY <1>1, <2>1, <2>2, <2>3, <2>4, <2>5, <2>6, TimerStepHolds
<1>6. QED
  BY <1>4, <1>5

LEMMA SeekHolds ==
  ASSUME RunsInv, ProgressEffect, NEW to \in Nat, SeekToTick(to)
  PROVE  RunsInv'
<1>1. /\ UNCHANGED <<status, result, timer, asked, held, choiceVars, lineVars, strayed>>
      /\ hasResult /\ seeks < MaxSeeks /\ seeks' = seeks + 1
      /\ tick' = Min({to, LastTick}) /\ sought' = isLoading
  BY DEF SeekToTick
<1>2. timer \in Nat /\ seeks \in 0..MaxSeeks /\ status \in Statuses
  BY DEF RunsInv, WorkspaceTypeOK
<1>3. Total' = Total /\ Total \in Nat
  BY <1>1, TotalIsNumber DEF Total, RunsInv
<1>4. LastTick \in Nat /\ LastTick' = LastTick
  BY <1>1, <1>3 DEF LastTick, hasResult
<1>5. tick' \in {to, LastTick} /\ tick' <= LastTick
  <2>1. {to, LastTick} \subseteq Nat
    BY <1>4
  <2>2. Min({to, LastTick}) \in {to, LastTick} /\ \A y \in {to, LastTick} : Min({to, LastTick}) <= y
    BY <2>1, MinIsLeast
  <2>3. QED
    BY <1>1, <2>2
<1>6. isLoading' = isLoading /\ isPlaying' = isPlaying /\ status' \in Statuses
  BY <1>1, <1>2 DEF isLoading, isPlaying
<1>7. PlaysItsResult'
  BY <1>1, <1>3, <1>4, <1>5, <1>6 DEF PlaysItsResult, RunsInv
<1>8. tick' \in Nat /\ timer' \in Nat /\ sought' \in BOOLEAN /\ seeks' \in 0..MaxSeeks
  <2>1. sought' \in BOOLEAN
    BY <1>1 DEF isLoading
  <2>2. seeks' \in 0..MaxSeeks
    BY <1>1, <1>2, WorkspaceAssumption
  <2>3. QED
    BY <1>1, <1>2, <1>4, <1>5, <2>1, <2>2
<1>9. QED
  BY <1>1, <1>6, <1>7, <1>8, TimerStepHolds

LEMMA StopHolds ==
  ASSUME RunsInv, ProgressEffect, StopRunning
  PROVE  RunsInv'
<1>1. /\ UNCHANGED <<result, tick, sought, choiceVars, lineVars, strayed, seeks>>
      /\ AbortHeld /\ timer' = 0 /\ status' = IF isLoading THEN "idle" ELSE "paused"
  BY DEF StopRunning
<1>2. Total' = Total /\ ~isLoading' /\ ~isPlaying' /\ status' \in Statuses
  BY <1>1 DEF Total, isLoading, isPlaying, Statuses
<1>3. PlaysItsResult'
  BY <1>1, <1>2 DEF PlaysItsResult, RunsInv, hasResult, LastTick
<1>4. asked' = [r \in RunIds |-> IF r = held THEN NoAsk ELSE asked[r]] /\ held' = NoRun
  BY <1>1 DEF AbortHeld
<1>5. asked' \in [RunIds -> Subjects \cup {NoAsk}] /\ held' \in RunIds \cup {NoRun}
  BY <1>4 DEF RunsInv, WorkspaceTypeOK
<1>6. InFlight' = InFlight \ {held} /\ \A q \in InFlight' : q \in InFlight /\ asked'[q] = asked[q]
  BY <1>4 DEF InFlight
<1>7. ~strayed => InFlight' = IF isLoading' THEN {held'} ELSE {}
  BY <1>2, <1>6 DEF RunsInv, RunsAreOurs, OneRunAtATime
<1>8. /\ seeks' \in 0..MaxSeeks
      /\ tick' \in Nat /\ timer' \in Nat /\ sought' \in BOOLEAN
      /\ result' # NoResult => result'.of \in Subjects /\ result'.runs \in Outcomes[result'.of]
  BY <1>1 DEF RunsInv, WorkspaceTypeOK
<1>9. UNCHANGED <<choiceVars, lineVars, strayed>> /\ result' = result
  BY <1>1
<1>10. QED
  BY <1>2, <1>3, <1>5, <1>6, <1>7, <1>8, <1>9, PlayStepHolds

LEMMA TargetIsSubject ==
  ASSUME NEW f \in Fires \cup {NoFire}
  PROVE  Target(f) \in Subjects
BY DEF Target, Subjects

LEMMA RunStepHolds ==
  ASSUME RunsInv, ProgressEffect, RunStep
  PROVE  RunsInv'
<1> USE DEF runVars, choiceVars, lineVars
<1>1. /\ selected \in Fires \cup {NoFire} /\ chosen \subseteq Fires /\ multi \in BOOLEAN
      /\ lastCluster \in Subjects \cup {NoAsk}
      /\ suggestion \in Fires \cup {NoFire} /\ suggesting \in Fires \cup {NoFire}
      /\ accepting \in Subjects \cup {NoAsk} /\ strayed \in BOOLEAN
  BY DEF RunsInv, WorkspaceTypeOK
<1>2. lastCluster # NoAsk => Cardinality(lastCluster) >= 2
  BY DEF RunsInv, AsksAreTidy
<1>3. Target(selected) \in Subjects /\ chosen \in Subjects
  BY <1>1, TargetIsSubject DEF Subjects
<1>4. CASE HandleRun
  <2>1. /\ StartRun(Target(selected)) /\ lastCluster' = NoAsk /\ ~isLoading
        /\ UNCHANGED <<selected, chosen, multi, lineVars, strayed, seeks>>
    BY <1>4 DEF HandleRun, RunEnabled
  <2>2. QED
    BY <1>1, <1>3, <2>1, StartRunHolds
<1>5. CASE HandleRunCluster
  <2>1. /\ StartRun(chosen) /\ lastCluster' = chosen /\ ~isLoading /\ multi' = FALSE
        /\ Cardinality(chosen) >= 2
        /\ UNCHANGED <<selected, chosen, lineVars, strayed, seeks>>
    BY <1>5 DEF HandleRunCluster, GroupBarShown
  <2>2. multi' \in BOOLEAN /\ lastCluster' \in Subjects \cup {NoAsk} /\ (lastCluster' # NoAsk => Cardinality(lastCluster') >= 2)
    BY <1>3, <2>1
  <2>3. QED
    BY <1>1, <1>3, <2>1, <2>2, StartRunHolds
<1>6. CASE HandleRerun
  <2> DEFINE subject == IF lastCluster = NoAsk THEN Target(selected) ELSE lastCluster
  <2>1. /\ StartRun(subject) /\ ~isLoading
        /\ UNCHANGED <<selected, chosen, multi, lastCluster, lineVars, strayed, seeks>>
    BY <1>6 DEF HandleRerun, PlaybackEnabled, RetryEnabled, isLoading
  <2>2. subject \in Subjects /\ (Cardinality(subject) >= 2 \/ subject = Target(selected))
    BY <1>1, <1>2, <1>3
  <2> HIDE DEF subject
  <2>3. QED
    BY <1>1, <1>2, <2>1, <2>2, StartRunHolds
<1>7. CASE Dismiss
  <2>1. ClearMap /\ UNCHANGED <<choiceVars, lineVars, seeks>>
    BY <1>7 DEF Dismiss
  <2>2. QED
    BY <1>1, <2>1, ClearMapHolds
<1>8. ASSUME NEW to \in 0..SliderMax, SeekToTick(to) PROVE RunsInv'
  <2>1. to \in Nat
    <3>1. 0..SliderMax \subseteq Nat
      OBVIOUS
    <3>2. QED
      BY <3>1
  <2>2. QED
    BY <1>8, <2>1, SeekHolds
<1>9. QED
  BY <1>4, <1>5, <1>6, <1>7, <1>8, StopHolds, RunAnswersHolds, RunFailsHolds, PlayTickHolds, PauseHolds, PlayHolds
     DEF RunStep

LEMMA OtherStepHolds ==
  ASSUME RunsInv, ProgressEffect, ChoiceStep \/ SuggestStep \/ SharedStep \/ LeaveRuns
  PROVE  RunsInv'
<1> USE DEF choiceVars, lineVars
<1>1. /\ selected \in Fires \cup {NoFire} /\ chosen \subseteq Fires /\ multi \in BOOLEAN
      /\ lastCluster \in Subjects \cup {NoAsk}
      /\ suggestion \in Fires \cup {NoFire} /\ suggesting \in Fires \cup {NoFire}
      /\ accepting \in Subjects \cup {NoAsk} /\ strayed \in BOOLEAN
  BY DEF RunsInv, WorkspaceTypeOK
<1>2. Target(selected) \in Subjects
  BY <1>1, TargetIsSubject
<1>3. CASE ChoiceStep
  <2>1. ASSUME NEW f \in Fires, ToggleFireSelect(f)
        PROVE  chosen' \subseteq Fires /\ UNCHANGED <<runVars, selected, multi, lastCluster, progressKey, lineVars, strayed, seeks>>
    BY <1>1, <2>1 DEF ToggleFireSelect
  <2>2. ASSUME ToggleMultiSelect \/ ClearChosen
        PROVE  chosen' \subseteq Fires /\ multi' \in BOOLEAN /\ UNCHANGED <<runVars, selected, lastCluster, progressKey, lineVars, strayed, seeks>>
    <3>1. CASE ToggleMultiSelect
      BY <1>1, <3>1 DEF ToggleMultiSelect
    <3>2. CASE ClearChosen
      BY <1>1, <3>2 DEF ClearChosen
    <3>3. QED
      BY <2>2, <3>1, <3>2
  <2>3. /\ chosen' \subseteq Fires /\ multi' \in BOOLEAN
        /\ UNCHANGED <<runVars, selected, lastCluster, progressKey, lineVars, strayed, seeks>>
    BY <1>1, <1>3, <2>1, <2>2 DEF ChoiceStep
  <2>4. QED
    BY <1>1, <2>3, QuietStepHolds
<1>4. CASE SuggestStep \/ HandleAccept \/ AcceptFails
  <2>1. UNCHANGED <<runVars, choiceVars, strayed, seeks>>
    BY <1>4 DEF SuggestStep, HandleSuggest, SuggestAnswers, DismissSuggestion, HandleAccept, AcceptFails
  <2>2. suggestion' \in Fires \cup {NoFire} /\ suggesting' \in Fires \cup {NoFire}
    BY <1>1, <1>4 DEF SuggestStep, HandleSuggest, SuggestAnswers, DismissSuggestion, HandleAccept, AcceptFails
  <2>3. accepting' \in Subjects \cup {NoAsk}
    BY <1>1, <1>2, <1>4 DEF SuggestStep, HandleSuggest, SuggestAnswers, DismissSuggestion, HandleAccept, AcceptFails
  <2>4. QED
    BY <1>1, <2>1, <2>2, <2>3, QuietStepHolds
<1>5. ASSUME NEW f \in Fires \cup {NoFire}, SelectFire(f) PROVE RunsInv'
  <2>1. /\ ClearMap /\ selected' = f /\ suggestion' = NoFire
        /\ UNCHANGED <<chosen, multi, lastCluster, progressKey, suggesting, accepting, seeks>>
    BY <1>5 DEF SelectFire
  <2>2. QED
    BY <1>1, <2>1, ClearMapHolds
<1>6. CASE HandleClear
  <2>1. /\ ClearMap /\ suggestion' = NoFire /\ chosen' = {} /\ multi' = FALSE
        /\ UNCHANGED <<selected, lastCluster, progressKey, suggesting, accepting, seeks>>
    BY <1>6 DEF HandleClear
  <2>2. QED
    BY <1>1, <2>1, ClearMapHolds
<1>7. CASE LeaveRuns
  <2>1. /\ ClearMap /\ selected' = NoFire /\ chosen' = {} /\ multi' = FALSE
        /\ lastCluster' = NoAsk /\ progressKey' = NoAsk
        /\ suggestion' = NoFire /\ suggesting' = NoFire /\ accepting' = NoAsk /\ seeks' = seeks
    BY <1>7 DEF LeaveRuns
  <2>2. QED
    BY <2>1, ClearMapHolds
<1>8. CASE AcceptSaved
  <2>1. /\ accepting \in Subjects /\ accepting' = NoAsk /\ suggestion' = NoFire /\ lastCluster' = NoAsk
        /\ StartRun(accepting)
        /\ strayed' = (strayed \/ isLoading \/ accepting # Target(selected))
        /\ UNCHANGED <<selected, chosen, multi, suggesting, seeks>>
    BY <1>1, <1>8 DEF AcceptSaved
  <2>2. strayed' \in BOOLEAN
    BY <2>1
  <2>3. ~strayed' => ~strayed /\ ~isLoading /\ accepting = Target(selected)
    BY <2>1
  <2>4. QED
    BY <1>1, <2>1, <2>2, <2>3, StartRunHolds
<1>9. QED
  BY <1>3, <1>4, <1>5, <1>6, <1>7, <1>8 DEF SharedStep

RunsMove ==
  \/ (RunStep \/ ChoiceStep \/ SuggestStep \/ SharedStep \/ LeaveRuns) /\ ProgressEffect
  \/ PollAnswers
  \/ UNCHANGED workspaceVars

LEMMA RunsStay ==
  ASSUME RunsInv, RunsMove
  PROVE  RunsInv'
<1>1. CASE PollAnswers
  <2>1. UNCHANGED <<runVars, choiceVars, lineVars, strayed, seeks>> /\ isLoading /\ progress' = progressKey
    BY <1>1 DEF PollAnswers
  <2> USE DEF runVars, choiceVars, lineVars
  <2>2. WorkspaceTypeOK'
    BY <2>1 DEF RunsInv, WorkspaceTypeOK
  <2>3. InFlight' = InFlight /\ Total' = Total /\ isLoading' = isLoading /\ isPlaying' = isPlaying
    BY <2>1 DEF InFlight, Total, isLoading, isPlaying
  <2>4. AsksAreTidy' /\ PlaysItsResult'
    BY <2>1, <2>3 DEF RunsInv, AsksAreTidy, PlaysItsResult, hasResult, LastTick
  <2>5. RunsAreOurs'
    BY <2>1, <2>3 DEF RunsInv, RunsAreOurs, OneRunAtATime, RunsFitTheSelection
  <2>6. QED
    BY <2>2, <2>4, <2>5 DEF RunsInv
<1>2. CASE UNCHANGED workspaceVars
  <2> USE <1>2 DEF workspaceVars, runVars, choiceVars, lineVars
  <2>1. WorkspaceTypeOK'
    BY DEF RunsInv, WorkspaceTypeOK
  <2>2. InFlight' = InFlight /\ Total' = Total /\ isLoading' = isLoading /\ isPlaying' = isPlaying
    BY DEF InFlight, Total, isLoading, isPlaying
  <2>3. AsksAreTidy' /\ PlaysItsResult'
    BY <2>2 DEF RunsInv, AsksAreTidy, PlaysItsResult, hasResult, LastTick
  <2>4. RunsAreOurs'
    BY <2>2 DEF RunsInv, RunsAreOurs, OneRunAtATime, RunsFitTheSelection
  <2>5. QED
    BY <2>1, <2>3, <2>4 DEF RunsInv
<1>3. QED
  BY <1>1, <1>2, RunStepHolds, OtherStepHolds DEF RunsMove

LEMMA RunsAreRight ==
  ASSUME RunsInv PROVE WorkspaceTypeOK /\ RunsAreOurs /\ PlaybackFits
<1>1. Total \in Nat
  BY TotalIsNumber DEF RunsInv
<1>2. PlaybackFits
  BY DEF RunsInv, PlaysItsResult, PlaybackFits
<1>3. QED
  BY <1>2 DEF RunsInv

-----------------------------------------------------------------------------
(***************************************************************************)
(* SimulationWorkspace: the figures of the panel (AreaOnlyGrows).          *)
(***************************************************************************)

(* The sum over a finite set of places: MapThenSumSet takes them out one   *)
(* by one, so that there is a sum of the places up to each number.         *)
Pick(s) == CHOOSE x \in s : TRUE
SumAt(f, g, s) == IF s = {} THEN 0 ELSE f[Pick(s)] + g[s \ {Pick(s)}]
Sums(f, g, S) == g = [s \in SUBSET S |-> SumAt(f, g, s)]

LEMMA PickTakes ==
  ASSUME NEW s, s # {} PROVE Pick(s) \in s
BY DEF Pick

LEMMA SmallerSet ==
  ASSUME NEW n \in Nat, NEW s \in SUBSET (1..n), s # {}
  PROVE  /\ s \ {Pick(s)} \in SUBSET (1..n)
         /\ Cardinality(s) \in Nat /\ Cardinality(s) # 0
         /\ Cardinality(s \ {Pick(s)}) = Cardinality(s) - 1
<1>1. IsFiniteSet(s)
  <2>1. IsFiniteSet(1..n)
    BY FS_Interval
  <2>2. QED
    BY <2>1, FS_Subset
<1>2. Pick(s) \in s
  BY PickTakes
<1>3. Cardinality(s \ {Pick(s)}) = Cardinality(s) - 1
  BY <1>1, <1>2, FS_RemoveElement
<1>4. Cardinality(s) \in Nat /\ Cardinality(s) # 0
  BY <1>1, FS_CardinalityType, FS_EmptySet
<1>5. QED
  BY <1>3, <1>4

LEMMA SumsExist ==
  ASSUME NEW n \in Nat, NEW f
  PROVE  \E g : Sums(f, g, 1..n)
<1> DEFINE D(k) == {s \in SUBSET (1..n) : Cardinality(s) <= k}
           Upto(k) == \E g : g = [s \in D(k) |-> SumAt(f, g, s)]
           T == {k \in Nat : ~Upto(k)}
<1>1. T = {}
  <2> SUFFICES ASSUME T # {} PROVE FALSE
    OBVIOUS
  <2>1. PICK k \in T : \A y \in T : k <= y
    <3>1. T \subseteq Nat
      OBVIOUS
    <3> HIDE DEF T
    <3>2. QED
      BY <3>1, LeastNumber
  <2>2. k \in Nat /\ ~Upto(k) /\ \A y \in Nat : y < k => Upto(y)
    <3> HIDE DEF Upto
    <3>1. QED
      BY <2>1
  <2> HIDE DEF T
  <2>3. CASE k = 0
    <3>1. PICK g : g = [s \in D(0) |-> 0]
      OBVIOUS
    <3>2. \A s \in D(0) : s = {}
      <4>1. ASSUME NEW s \in D(0), s # {} PROVE FALSE
        <5>1. Cardinality(s) \in Nat /\ Cardinality(s) # 0
          BY <4>1, SmallerSet
        <5>2. QED
          BY <5>1
      <4>2. QED
        BY <4>1
    <3>3. \A s \in D(0) : SumAt(f, g, s) = 0
      BY <3>2 DEF SumAt
    <3>4. g = [s \in D(0) |-> SumAt(f, g, s)]
      BY <3>1, <3>3
    <3>5. QED
      BY <2>2, <2>3, <3>4
  <2>4. CASE k # 0
    <3>1. k - 1 \in Nat /\ k - 1 < k
      BY <2>2, <2>4
    <3>2. PICK h : h = [s \in D(k - 1) |-> SumAt(f, h, s)]
      BY <2>2, <3>1
    <3>3. PICK g : g = [s \in D(k) |-> SumAt(f, h, s)]
      OBVIOUS
    <3>4. ASSUME NEW s \in D(k) PROVE SumAt(f, g, s) = SumAt(f, h, s)
      <4>1. CASE s = {}
        BY <4>1 DEF SumAt
      <4>2. CASE s # {}
        <5> DEFINE u == s \ {Pick(s)}
        <5>1. u \in SUBSET (1..n) /\ Cardinality(s) \in Nat /\ Cardinality(u) = Cardinality(s) - 1
          BY <4>2, SmallerSet
        <5>2. Cardinality(u) <= k - 1 /\ Cardinality(u) <= k
          BY <2>2, <5>1
        <5>3. u \in D(k - 1) /\ u \in D(k)
          BY <5>1, <5>2
        <5>4. h[u] = SumAt(f, h, u) /\ g[u] = SumAt(f, h, u)
          <6> HIDE DEF D, u
          <6>1. h[u] = SumAt(f, h, u)
            BY <3>2, <5>3
          <6>2. g[u] = SumAt(f, h, u)
            BY <3>3, <5>3
          <6>3. QED
            BY <6>1, <6>2
        <5>5. QED
          BY <4>2, <5>4 DEF SumAt
      <4>3. QED
        BY <4>1, <4>2
    <3>5. g = [s \in D(k) |-> SumAt(f, g, s)]
      BY <3>3, <3>4
    <3>6. QED
      BY <2>2, <3>5
  <2>5. QED
    BY <2>3, <2>4
<1>2. Upto(n)
  BY <1>1
<1>3. D(n) = SUBSET (1..n)
  <2>1. ASSUME NEW s \in SUBSET (1..n) PROVE Cardinality(s) <= n
    <3>1. IsFiniteSet(1..n) /\ Cardinality(1..n) = n
      <4>1. IsFiniteSet(1..n) /\ Cardinality(1..n) = IF 1 > n THEN 0 ELSE n - 1 + 1
        BY FS_Interval
      <4>2. QED
        BY <4>1
    <3>2. QED
      BY <3>1, FS_Subset
  <2>2. QED
    BY <2>1
<1>4. QED
  BY <1>2, <1>3 DEF Sums

(* The sums of numbers are numbers, and greater of greater numbers.        *)
LEMMA SumsGrow ==
  ASSUME NEW n \in Nat, NEW e, NEW f, NEW g, NEW h, Sums(e, g, 1..n), Sums(f, h, 1..n),
         \A i \in 1..n : e[i] \in Nat /\ f[i] \in Nat /\ e[i] <= f[i]
  PROVE  g[1..n] \in Nat /\ h[1..n] \in Nat /\ g[1..n] <= h[1..n]
<1> DEFINE Fits(s) == g[s] \in Nat /\ h[s] \in Nat /\ g[s] <= h[s]
           T == {k \in Nat : \E s \in SUBSET (1..n) : Cardinality(s) = k /\ ~Fits(s)}
<1>1. ASSUME NEW s \in SUBSET (1..n) PROVE g[s] = SumAt(e, g, s) /\ h[s] = SumAt(f, h, s)
  <2>1. g[s] = SumAt(e, g, s)
    BY DEF Sums
  <2>2. h[s] = SumAt(f, h, s)
    BY DEF Sums
  <2>3. QED
    BY <2>1, <2>2
<1>2. T = {}
  <2> SUFFICES ASSUME T # {} PROVE FALSE
    OBVIOUS
  <2>1. PICK k \in T : \A y \in T : k <= y
    <3>1. T \subseteq Nat
      OBVIOUS
    <3> HIDE DEF T
    <3>2. QED
      BY <3>1, LeastNumber
  <2>2. PICK s \in SUBSET (1..n) : Cardinality(s) = k /\ ~Fits(s)
    BY <2>1
  <2>3. s # {}
    <3>1. s = {} => g[s] = 0 /\ h[s] = 0
      BY <1>1 DEF SumAt
    <3>2. QED
      BY <2>2, <3>1
  <2> DEFINE i == Pick(s)
             u == s \ {Pick(s)}
  <2>4. u \in SUBSET (1..n) /\ Cardinality(s) \in Nat /\ Cardinality(s) # 0 /\ Cardinality(u) = Cardinality(s) - 1
    BY <2>3, SmallerSet
  <2>5. Fits(u)
    <3> SUFFICES ASSUME ~Fits(u) PROVE FALSE
      OBVIOUS
    <3>1. k - 1 \in Nat /\ ~(k <= k - 1) /\ Cardinality(u) = k - 1
      BY <2>2, <2>4
    <3> HIDE DEF Fits, u
    <3>2. k - 1 \in T
      BY <2>4, <3>1
    <3>3. QED
      BY <2>1, <3>1, <3>2
  <2>6. i \in 1..n /\ e[i] \in Nat /\ f[i] \in Nat /\ e[i] <= f[i]
    BY <2>3, PickTakes
  <2>7. g[s] = e[i] + g[u] /\ h[s] = f[i] + h[u]
    BY <1>1, <2>3 DEF SumAt
  <2> HIDE DEF i, u
  <2>8. Fits(s)
    <3>1. g[u] \in Nat /\ h[u] \in Nat /\ g[u] <= h[u]
      BY <2>5
    <3> HIDE DEF Fits, T
    <3>2. /\ e[i] + g[u] \in Nat /\ f[i] + h[u] \in Nat
          /\ e[i] + g[u] <= f[i] + h[u]
      BY <2>6, <3>1
    <3> USE DEF Fits
    <3>3. QED
      BY <2>7, <3>2
  <2>9. QED
    BY <2>2, <2>8
<1>3. 1..n \in SUBSET (1..n) /\ Cardinality(1..n) \in Nat
  BY FS_Interval, FS_CardinalityType
<1> HIDE DEF Fits
<1>4. Fits(1..n)
  BY <1>2, <1>3
<1>5. QED
  BY <1>4 DEF Fits

LEMMA AreaIsASum ==
  ASSUME NEW runs, NEW t, NEW n \in Nat, DOMAIN runs = 1..n
  PROVE  \E g : Sums([i \in 1..n |-> Affected(GridAt(runs[i], t))], g, 1..n) /\ AffectedArea(runs, t) = g[1..n]
<1> DEFINE f == [i \in 1..n |-> Affected(GridAt(runs[i], t))]
           sum == CHOOSE g : g = [s \in SUBSET (1..n) |->
                     IF s = {} THEN 0
                     ELSE LET x == CHOOSE y \in s : TRUE IN Affected(GridAt(runs[x], t)) + g[s \ {x}]]
<1>1. PICK g : Sums(f, g, 1..n)
  BY SumsExist
<1>2. AffectedArea(runs, t) = sum[1..n]
  BY DEF AffectedArea, MapThenSumSet, MapThenFoldSet
<1>3. ASSUME NEW any, NEW s \in SUBSET (1..n)
      PROVE  SumAt(f, any, s)
             = IF s = {} THEN 0 ELSE LET x == CHOOSE y \in s : TRUE IN Affected(GridAt(runs[x], t)) + any[s \ {x}]
  <2>1. s # {} => f[Pick(s)] = Affected(GridAt(runs[Pick(s)], t))
    BY PickTakes
  <2>2. QED
    BY <2>1 DEF SumAt, Pick
<1>4. \A any : Sums(f, any, 1..n) <=> any = [s \in SUBSET (1..n) |->
                     IF s = {} THEN 0
                     ELSE LET x == CHOOSE y \in s : TRUE IN Affected(GridAt(runs[x], t)) + any[s \ {x}]]
  BY <1>3 DEF Sums
<1>5. Sums(f, sum, 1..n)
  <2>1. \E any : any = [s \in SUBSET (1..n) |->
               IF s = {} THEN 0
               ELSE LET x == CHOOSE y \in s : TRUE IN Affected(GridAt(runs[x], t)) + any[s \ {x}]]
    BY <1>1, <1>4
  <2>2. sum = [s \in SUBSET (1..n) |->
               IF s = {} THEN 0
               ELSE LET x == CHOOSE y \in s : TRUE IN Affected(GridAt(runs[x], t)) + sum[s \ {x}]]
    <3> HIDE DEF f
    <3>1. QED
      BY <2>1, Zenon
  <2> HIDE DEF f, sum
  <2>3. QED
    BY <1>4, <2>2
<1>6. QED
  BY <1>2, <1>5

LEMMA FrontIsASum ==
  ASSUME NEW runs, NEW t, NEW n \in Nat, DOMAIN runs = 1..n
  PROVE  \E g : /\ Sums([i \in 1..n |-> IF t < Len(runs[i]) THEN runs[i][t + 1].burning ELSE 0], g, 1..n)
                /\ ActiveFront(runs, t) = g[1..n]
<1> DEFINE f == [i \in 1..n |-> IF t < Len(runs[i]) THEN runs[i][t + 1].burning ELSE 0]
           sum == CHOOSE g : g = [s \in SUBSET (1..n) |->
                     IF s = {} THEN 0
                     ELSE LET x == CHOOSE y \in s : TRUE
                          IN  (IF t < Len(runs[x]) THEN runs[x][t + 1].burning ELSE 0) + g[s \ {x}]]
<1>1. PICK g : Sums(f, g, 1..n)
  BY SumsExist
<1>2. ActiveFront(runs, t) = sum[1..n]
  BY DEF ActiveFront, MapThenSumSet, MapThenFoldSet
<1>3. ASSUME NEW any, NEW s \in SUBSET (1..n)
      PROVE  SumAt(f, any, s)
             = IF s = {} THEN 0
               ELSE LET x == CHOOSE y \in s : TRUE
                    IN  (IF t < Len(runs[x]) THEN runs[x][t + 1].burning ELSE 0) + any[s \ {x}]
  <2>1. s # {} => f[Pick(s)] = IF t < Len(runs[Pick(s)]) THEN runs[Pick(s)][t + 1].burning ELSE 0
    BY PickTakes
  <2>2. QED
    BY <2>1 DEF SumAt, Pick
<1>4. \A any : Sums(f, any, 1..n) <=> any = [s \in SUBSET (1..n) |->
                     IF s = {} THEN 0
                     ELSE LET x == CHOOSE y \in s : TRUE
                          IN  (IF t < Len(runs[x]) THEN runs[x][t + 1].burning ELSE 0) + any[s \ {x}]]
  BY <1>3 DEF Sums
<1>5. Sums(f, sum, 1..n)
  <2>1. \E any : any = [s \in SUBSET (1..n) |->
               IF s = {} THEN 0
               ELSE LET x == CHOOSE y \in s : TRUE
                    IN  (IF t < Len(runs[x]) THEN runs[x][t + 1].burning ELSE 0) + any[s \ {x}]]
    BY <1>1, <1>4
  <2>2. sum = [s \in SUBSET (1..n) |->
               IF s = {} THEN 0
               ELSE LET x == CHOOSE y \in s : TRUE
                    IN  (IF t < Len(runs[x]) THEN runs[x][t + 1].burning ELSE 0) + sum[s \ {x}]]
    <3> HIDE DEF f
    <3>1. QED
      BY <2>1, Zenon
  <2> HIDE DEF f, sum
  <2>3. QED
    BY <1>4, <2>2
<1>6. QED
  BY <1>2, <1>5

(* A history that spreads has never less. *)
LEMMA SpreadsOn ==
  ASSUME NEW h \in Seq(Grids), Spreads(h), NEW i \in 1..Len(h), NEW j \in 1..Len(h), i <= j
  PROVE  Affected(h[i]) \in Nat /\ Affected(h[j]) \in Nat /\ Affected(h[i]) <= Affected(h[j])
<1>1. \A k \in 1..Len(h) : Affected(h[k]) \in Nat
  <2>1. \A k \in 1..Len(h) : h[k] \in Grids
    OBVIOUS
  <2>2. \A grid \in Grids : Affected(grid) \in Nat
    BY DEF Grids, Affected
  <2>3. QED
    BY <2>1, <2>2
<1> DEFINE T == {k \in i..Len(h) : ~(Affected(h[i]) <= Affected(h[k]))}
<1>2. T = {}
  <2> SUFFICES ASSUME T # {} PROVE FALSE
    OBVIOUS
  <2>1. PICK k \in T : \A y \in T : k <= y
    <3>1. T \subseteq Nat
      OBVIOUS
    <3> HIDE DEF T
    <3>2. QED
      BY <3>1, LeastNumber
  <2>2. k \in i..Len(h) /\ ~(Affected(h[i]) <= Affected(h[k]))
    BY <2>1
  <2>3. k # i
    BY <1>1, <2>2
  <2>4. k - 1 \in i..Len(h) /\ ~(k <= k - 1) /\ k - 1 \in 1..(Len(h) - 1) /\ k \in 1..Len(h) /\ k - 1 \in 1..Len(h) /\ (k - 1) + 1 = k
    BY <2>2, <2>3
  <2>5. Affected(h[i]) <= Affected(h[k - 1])
    <3>1. k - 1 \notin T
      <4> HIDE DEF T
      <4>1. QED
        BY <2>1, <2>4
    <3>2. QED
      BY <2>4, <3>1
  <2>6. Affected(h[k - 1]) <= Affected(h[k])
    BY <2>4 DEF Spreads
  <2>7. Affected(h[i]) \in Nat /\ Affected(h[k - 1]) \in Nat /\ Affected(h[k]) \in Nat
    BY <1>1, <2>4
  <2>8. QED
    BY <2>2, <2>5, <2>6, <2>7
<1>3. QED
  BY <1>1, <1>2

LEMMA GridAtTick ==
  ASSUME NEW h \in Seq(Grids), Spreads(h), NEW t \in Nat
  PROVE  \E i \in 1..Len(h) : GridAt(h, t) = h[i] /\ i = IF t + 1 <= Len(h) THEN t + 1 ELSE Len(h)
<1>1. Len(h) \in Nat \ {0}
  BY DEF Spreads
<1>2. Min({t + 1, Len(h)}) \in {t + 1, Len(h)} /\ \A y \in {t + 1, Len(h)} : Min({t + 1, Len(h)}) <= y
  BY <1>1, MinIsLeast
<1>3. PICK i : i = Min({t + 1, Len(h)})
  OBVIOUS
<1>4. i \in 1..Len(h) /\ i = IF t + 1 <= Len(h) THEN t + 1 ELSE Len(h)
  BY <1>1, <1>2, <1>3
<1>5. QED
  BY <1>3, <1>4 DEF GridAt

LEMMA GridsSpread ==
  ASSUME NEW h \in Seq(Grids), Spreads(h), NEW from \in Nat, NEW to \in Nat, from <= to
  PROVE  /\ Affected(GridAt(h, from)) \in Nat /\ Affected(GridAt(h, to)) \in Nat
         /\ Affected(GridAt(h, from)) <= Affected(GridAt(h, to))
<1>1. PICK i \in 1..Len(h) : GridAt(h, from) = h[i] /\ i = IF from + 1 <= Len(h) THEN from + 1 ELSE Len(h)
  BY GridAtTick
<1>2. PICK j \in 1..Len(h) : GridAt(h, to) = h[j] /\ j = IF to + 1 <= Len(h) THEN to + 1 ELSE Len(h)
  BY GridAtTick
<1>3. Len(h) \in Nat
  OBVIOUS
<1>4. i <= j
  BY <1>1, <1>2, <1>3
<1>5. QED
  BY <1>1, <1>2, <1>4, SpreadsOn

(* Runs as the server answers with. *)
Answers(runs) == runs \in Seq(Seq(Grids)) /\ \A i \in DOMAIN runs : Spreads(runs[i])

LEMMA AreaGrows ==
  ASSUME NEW runs, Answers(runs), NEW from \in Nat, NEW to \in Nat, from <= to
  PROVE  /\ AffectedArea(runs, from) \in Nat /\ AffectedArea(runs, to) \in Nat
         /\ AffectedArea(runs, from) <= AffectedArea(runs, to)
<1>1. PICK n : n = Len(runs)
  OBVIOUS
<1>2. n \in Nat /\ DOMAIN runs = 1..n /\ \A i \in 1..n : runs[i] \in Seq(Grids) /\ Spreads(runs[i])
  BY <1>1 DEF Answers
<1> DEFINE e == [i \in 1..n |-> Affected(GridAt(runs[i], from))]
           f == [i \in 1..n |-> Affected(GridAt(runs[i], to))]
<1>3. PICK g : Sums(e, g, 1..n) /\ AffectedArea(runs, from) = g[1..n]
  BY <1>2, AreaIsASum
<1>4. PICK h : Sums(f, h, 1..n) /\ AffectedArea(runs, to) = h[1..n]
  BY <1>2, AreaIsASum
<1>5. \A i \in 1..n : e[i] \in Nat /\ f[i] \in Nat /\ e[i] <= f[i]
  BY <1>2, GridsSpread
<1> HIDE DEF e, f
<1>6. QED
  BY <1>2, <1>3, <1>4, <1>5, SumsGrow

LEMMA FrontIsPart ==
  ASSUME NEW runs, Answers(runs), NEW t \in Nat
  PROVE  ActiveFront(runs, t) <= AffectedArea(runs, t)
<1>1. PICK n : n = Len(runs)
  OBVIOUS
<1>2. n \in Nat /\ DOMAIN runs = 1..n /\ \A i \in 1..n : runs[i] \in Seq(Grids) /\ Spreads(runs[i])
  BY <1>1 DEF Answers
<1> DEFINE e == [i \in 1..n |-> IF t < Len(runs[i]) THEN runs[i][t + 1].burning ELSE 0]
           f == [i \in 1..n |-> Affected(GridAt(runs[i], t))]
<1>3. PICK g : Sums(e, g, 1..n) /\ ActiveFront(runs, t) = g[1..n]
  BY <1>2, FrontIsASum
<1>4. PICK h : Sums(f, h, 1..n) /\ AffectedArea(runs, t) = h[1..n]
  BY <1>2, AreaIsASum
<1>5. ASSUME NEW i \in 1..n PROVE e[i] \in Nat /\ f[i] \in Nat /\ e[i] <= f[i]
  <2>1. runs[i] \in Seq(Grids) /\ Spreads(runs[i])
    BY <1>2
  <2>2. f[i] \in Nat
    BY <2>1, GridsSpread
  <2>3. CASE t < Len(runs[i])
    <3>1. Len(runs[i]) \in Nat /\ t + 1 <= Len(runs[i]) /\ t + 1 \in 1..Len(runs[i])
      BY <2>1, <2>3
    <3>2. GridAt(runs[i], t) = runs[i][t + 1]
      BY <2>1, <3>1, GridAtTick
    <3>3. runs[i][t + 1] \in Grids
      BY <2>1, <3>1
    <3>4. runs[i][t + 1].burning \in Nat /\ runs[i][t + 1].burning <= Affected(runs[i][t + 1])
      BY <3>3 DEF Grids, Affected
    <3>5. QED
      BY <2>2, <2>3, <3>2, <3>4
  <2>4. CASE ~(t < Len(runs[i]))
    BY <2>2, <2>4
  <2>5. QED
    BY <2>3, <2>4
<1> HIDE DEF e, f
<1>6. QED
  BY <1>2, <1>3, <1>4, <1>5, SumsGrow

LEMMA BarsGrow ==
  ASSUME NEW runs, Answers(runs), NEW hour \in Nat
  PROVE  SpreadBar(runs, hour) <= SpreadBar(runs, hour + 1)
<1>1. PICK n : n = Len(runs)
  OBVIOUS
<1>2. n \in Nat /\ DOMAIN runs = 1..n /\ \A i \in 1..n : runs[i] \in Seq(Grids) /\ Spreads(runs[i])
  BY <1>1 DEF Answers
<1>3. PICK now, then : now = hour * TicksPerHour /\ then = (hour + 1) * TicksPerHour
  OBVIOUS
<1>4. now \in Nat /\ then \in Nat /\ now <= then
  <2>1. hour + 1 \in Nat /\ hour <= hour + 1 /\ TicksPerHour \in Nat
    BY WorkspaceAssumption
  <2>2. QED
    BY <1>3, <2>1, ProductGrows
<1> DEFINE e == [i \in 1..n |-> AffectedArea(<<runs[i]>>, now)]
           f == [i \in 1..n |-> AffectedArea(<<runs[i]>>, then)]
<1>5. ASSUME NEW i \in 1..n PROVE e[i] \in Nat /\ f[i] \in Nat /\ e[i] <= f[i]
  <2>1. Answers(<<runs[i]>>)
    BY <1>2 DEF Answers
  <2>2. QED
    BY <1>4, <2>1, AreaGrows
<1>6. SpreadBar(runs, hour) = Max({e[i] : i \in 1..n} \cup {0})
  <2>1. {0} \cup {AffectedArea(<<runs[i]>>, hour * TicksPerHour) : i \in DOMAIN runs} = {e[i] : i \in 1..n} \cup {0}
    BY <1>2, <1>3
  <2>2. QED
    BY <2>1 DEF SpreadBar
<1>7. SpreadBar(runs, hour + 1) = Max({f[i] : i \in 1..n} \cup {0})
  <2>1. {0} \cup {AffectedArea(<<runs[i]>>, (hour + 1) * TicksPerHour) : i \in DOMAIN runs} = {f[i] : i \in 1..n} \cup {0}
    BY <1>2, <1>3
  <2>2. QED
    BY <2>1 DEF SpreadBar
<1> HIDE DEF e, f
<1>8. PICK p, q : p = Max({e[i] : i \in 1..n} \cup {0}) /\ q = Max({f[i] : i \in 1..n} \cup {0})
  OBVIOUS
<1>9. p \in {e[i] : i \in 1..n} \cup {0}
  BY <1>2, <1>5, <1>8, MaxOfValues
<1>10. q \in {f[i] : i \in 1..n} \cup {0} /\ \A y \in {f[i] : i \in 1..n} \cup {0} : y <= q
  BY <1>2, <1>5, <1>8, MaxOfValues
<1>11. q \in Nat
  BY <1>5, <1>10
<1>12. CASE p = 0
  BY <1>6, <1>7, <1>8, <1>11, <1>12
<1>13. CASE p # 0
  <2>1. PICK i \in 1..n : p = e[i]
    BY <1>9, <1>13
  <2>2. e[i] \in Nat /\ f[i] \in Nat /\ e[i] <= f[i] /\ f[i] <= q
    BY <1>5, <1>10
  <2>3. QED
    BY <1>6, <1>7, <1>8, <1>11, <2>1, <2>2
<1>14. QED
  BY <1>12, <1>13

LEMMA HourAgoIsEarlier ==
  ASSUME NEW t \in Nat PROVE HourAgo(t) \in Nat /\ HourAgo(t) <= t
<1>1. TicksPerHour \in Nat
  BY WorkspaceAssumption
<1> DEFINE T == {t - TicksPerHour, 0}
<1>2. \E x \in T : \A y \in T : x >= y
  BY <1>1
<1>3. HourAgo(t) \in T /\ \A y \in T : HourAgo(t) >= y
  <2>1. HourAgo(t) = Max(T)
    BY DEF HourAgo
  <2> HIDE DEF T
  <2>2. QED
    BY <1>2, <2>1 DEF Max
<1>4. QED
  BY <1>1, <1>3

LEMMA WeatherFollows ==
  ASSUME NEW from \in Nat, NEW to \in Nat, from <= to
  PROVE  /\ WeatherHour(from) <= WeatherHour(to)
         /\ BeyondForecast(from) => WeatherHour(from) = WeatherHour(to) /\ BeyondForecast(to)
<1>1. TicksPerHour \in Nat \ {0} /\ ForecastHours \in Nat \ {0}
  BY WorkspaceAssumption
<1> DEFINE p == from \div TicksPerHour
           q == to \div TicksPerHour
           last == ForecastHours - 1
<1>2. p \in Nat /\ q \in Nat /\ p <= q
  BY <1>1, QuotientGrows
<1>3. last \in Nat
  BY <1>1
<1>4. /\ WeatherHour(from) = Min({p, last}) /\ WeatherHour(to) = Min({q, last})
      /\ BeyondForecast(from) <=> p > last
      /\ BeyondForecast(to) <=> q > last
  BY DEF WeatherHour, BeyondForecast
<1> HIDE DEF p, q, last
<1>5. Min({p, last}) \in {p, last} /\ \A y \in {p, last} : Min({p, last}) <= y
  BY <1>2, <1>3, MinIsLeast
<1>6. Min({q, last}) \in {q, last} /\ \A y \in {q, last} : Min({q, last}) <= y
  BY <1>2, <1>3, MinIsLeast
<1>7. PICK m, k : m = Min({p, last}) /\ k = Min({q, last})
  OBVIOUS
<1>8. m \in Nat /\ k \in Nat /\ m = (IF p <= last THEN p ELSE last) /\ k = (IF q <= last THEN q ELSE last)
  BY <1>2, <1>3, <1>5, <1>6, <1>7
<1>9. QED
  BY <1>2, <1>3, <1>4, <1>7, <1>8

LEMMA PanelFollows ==
  ASSUME NEW runs, Answers(runs), NEW from \in Nat, NEW to \in Nat, from <= to
  PROVE  PanelGrows(runs, from, to)
<1>1. AffectedArea(runs, to) >= AffectedArea(runs, from)
  <2>1. /\ AffectedArea(runs, from) \in Nat /\ AffectedArea(runs, to) \in Nat
        /\ AffectedArea(runs, from) <= AffectedArea(runs, to)
    BY AreaGrows
  <2>2. QED
    BY <2>1
<1>2. AffectedArea(runs, from) >= AffectedArea(runs, HourAgo(from))
  <2>1. HourAgo(from) \in Nat /\ HourAgo(from) <= from
    BY HourAgoIsEarlier
  <2>2. /\ AffectedArea(runs, HourAgo(from)) \in Nat /\ AffectedArea(runs, from) \in Nat
        /\ AffectedArea(runs, HourAgo(from)) <= AffectedArea(runs, from)
    BY <2>1, AreaGrows
  <2>3. QED
    BY <2>2
<1>3. \A hour \in 0..to : SpreadBar(runs, hour) <= SpreadBar(runs, hour + 1)
  <2>1. \A hour \in 0..to : hour \in Nat
    OBVIOUS
  <2>2. QED
    BY <2>1, BarsGrow
<1>4. ActiveFront(runs, from) <= AffectedArea(runs, from)
  BY FrontIsPart
<1>5. /\ WeatherHour(from) <= WeatherHour(to)
      /\ BeyondForecast(from) => WeatherHour(from) = WeatherHour(to) /\ BeyondForecast(to)
  BY WeatherFollows
<1>6. QED
  BY <1>1, <1>2, <1>3, <1>4, <1>5 DEF PanelGrows

(* A tick of the playback is of the result on display, and goes forward.   *)
LEMMA PlaybackGoesOn ==
  ASSUME RunsInv, PlayTick, ~strayed, ~sought
  PROVE  PanelGrows(result.runs, tick, tick')
<1>1. timer \in Nat /\ timer > 0 /\ timer = Total /\ tick \in Nat
  BY DEF RunsInv, WorkspaceTypeOK, PlaysItsResult, PlayTick
<1>2. tick <= timer - 1
  BY <1>1 DEF RunsInv, PlaysItsResult, hasResult, LastTick
<1>3. tick' \in Nat /\ tick <= tick'
  BY <1>1, <1>2 DEF PlayTick
<1>4. result # NoResult
  BY <1>1 DEF Total
<1>5. result.of \in Subjects /\ result.runs \in Outcomes[result.of]
  BY <1>4 DEF RunsInv, WorkspaceTypeOK
<1>6. Answers(result.runs)
  BY <1>5, WorkspaceAssumption DEF Answers
<1>7. QED
  BY <1>1, <1>3, <1>6, PanelFollows

-----------------------------------------------------------------------------
(***************************************************************************)
(* SimulationPage: the list of containment lines (ListSettles).            *)
(***************************************************************************)

(* A fetch of lines, and the steps of saving one. *)
Fetches == [of : Fires, at : {"sent", "read", "failed"}, rows : SUBSET Lines]
Steps == {"unused", "sent", "stored", "refused", "over"}
Saving == {"sent", "stored", "refused"}
Known == {"stored", "over"}
Removals == [at : {"none", "sent", "gone", "refused"}, fetched : BOOLEAN]

ListTypes ==
  /\ shown \subseteq Rows
  /\ fetch \in Fetches \cup {NoFetch}
  /\ stored \subseteq Lines
  /\ post \in [Lines -> Steps]
  /\ delete \in [Lines -> Removals]
  /\ raced \in BOOLEAN
  /\ selected \in Fires \cup {NoFire}

(* What holds of the rows and the lines, races or not: a draft is a drawn  *)
(* line that is being saved, and a line that is stored, was read or is     *)
(* being removed was saved.                                                *)
RowsAreKnown ==
  /\ \A row \in shown :
       /\ ~row.synced => /\ ~row.fetched /\ row.line \notin Proposals
                         /\ post[row.line] \in Saving
       /\ row.synced => post[row.line] \in Known
  /\ \A l \in stored : post[l] \in Known /\ AssignedTo[l] # NoFire
  /\ fetch # NoFetch => \A l \in fetch.rows : post[l] \in Known
  /\ \A l \in Lines : delete[l].at # "none" => post[l] \in Known

(* Unless something raced with it, a fetch finds no edit under way and is  *)
(* of the selected fire, ...                                               *)
Still == \A l \in Lines : post[l] \in {"unused", "over"} /\ delete[l].at = "none"
FetchIsFresh ==
  ~raced /\ fetch # NoFetch =>
    /\ Still
    /\ fetch.of = selected
    /\ fetch.at = "read" => fetch.rows = LinesFor(selected)

(* ... and without one the list is right but for the edits under way.      *)
HasRow(l) == \E row \in shown : row.line = l
Draft(l) == [line |-> l, fetched |-> FALSE, synced |-> FALSE]
RowsFit ==
  /\ \A a, b \in shown : a.line = b.line => a = b
  /\ \A row \in shown : row.synced => row.line \in stored /\ post[row.line] = "over" /\ delete[row.line].at = "none"
LineFits(l) ==
  /\ l \in stored /\ AssignedTo[l] = selected /\ ~HasRow(l) => post[l] \in Saving \/ delete[l].at # "none"
  /\ delete[l].at # "none" => ~HasRow(l) /\ post[l] = "over"
  /\ delete[l].at \in {"sent", "refused"} => l \in stored
  /\ delete[l].at = "gone" => l \notin stored
  /\ post[l] \in Saving => IF l \in Proposals THEN ~HasRow(l) ELSE Draft(l) \in shown
  /\ post[l] = "stored" => l \in stored
LinesFit == \A l \in Lines : LineFits(l)
ListFits == ~raced /\ fetch = NoFetch => RowsFit /\ LinesFit

ListInv == ListTypes /\ RowsAreKnown /\ FetchIsFresh /\ ListFits

LEMMA ListBegins ==
  ASSUME PageInit PROVE ListInv
<1> USE DEF PageInit, WorkspaceInit
<1>1. ListTypes
  <2>1. post \in [Lines -> Steps]
    BY DEF Steps
  <2>2. delete \in [Lines -> Removals]
    BY DEF Removals, NoDelete
  <2>3. QED
    BY <2>1, <2>2 DEF ListTypes
<1>2. RowsAreKnown
  BY DEF RowsAreKnown, NoDelete
<1>3. FetchIsFresh
  BY DEF FetchIsFresh
<1>4. ListFits
  BY DEF ListFits, RowsFit, LinesFit, LineFits, Saving, HasRow, NoDelete
<1>5. QED
  BY <1>1, <1>2, <1>3, <1>4 DEF ListInv

LEMMA StillIsNotBusy == ASSUME ListTypes PROVE Busy <=> ~Still
<1>1. \A l \in Lines : post[l] \in Steps /\ delete[l].at \in {"none", "sent", "gone", "refused"}
  BY DEF ListTypes, Removals
<1>2. QED
  BY <1>1 DEF Busy, Still, Posting, Deleting, Steps

LEMMA ListIsRight ==
  ASSUME ListInv PROVE ListSettles
<1>1. DraftsAreInFlight
  BY DEF ListInv, ListTypes, RowsAreKnown, DraftsAreInFlight, Drafts, Posting, Saving, Rows
<1>2. ShownIsStored
  <2> SUFFICES ASSUME ~raced, ~Busy, fetch = NoFetch
               PROVE  /\ \A row \in shown : row.synced /\ row.line \in stored
                      /\ \A a, b \in shown : a.line = b.line => a = b
                      /\ LinesFor(selected) \subseteq {row.line : row \in shown}
    BY DEF ShownIsStored
  <2>1. Still /\ RowsFit /\ LinesFit
    BY StillIsNotBusy DEF ListInv, ListFits
  <2>2. \A row \in shown : row.line \in Lines
    BY DEF ListInv, ListTypes, Rows
  <2>3. \A row \in shown : row.synced
    BY <2>1, <2>2 DEF ListInv, RowsAreKnown, Still, Saving
  <2>4. LinesFor(selected) \subseteq {row.line : row \in shown}
    BY <2>1 DEF LinesFit, LineFits, Saving, LinesFor, Still, HasRow, ListInv, ListTypes
  <2>5. QED
    BY <2>1, <2>3, <2>4 DEF RowsFit
<1>3. QED
  BY <1>1, <1>2 DEF ListSettles

LEMMA ListIdles ==
  ASSUME ListInv, UNCHANGED <<listVars, selected>> PROVE ListInv'
BY DEF ListInv, ListTypes, RowsAreKnown, FetchIsFresh, Still, ListFits, RowsFit, LinesFit, LineFits, Saving, HasRow, LinesFor, listVars

(* Choosing a fire, and leaving. *)
LEMMA ChooseFireHolds ==
  ASSUME ListInv, NEW f \in Fires \cup {NoFire}, ChooseFire(f)
  PROVE  ListInv'
<1>1. selected' = f /\ raced' = Busy /\ UNCHANGED <<stored, post, delete>>
  BY DEF ChooseFire, SelectFire
<1>2. ~raced' => Still
  BY <1>1, StillIsNotBusy DEF ListInv
<1>3. raced' \in BOOLEAN /\ selected' \in Fires \cup {NoFire}
  BY <1>1 DEF Busy
<1>4. CASE f = NoFire
  <2>1. fetch' = NoFetch /\ shown' = {}
    BY <1>4 DEF ChooseFire
  <2>2. ListTypes' /\ RowsAreKnown' /\ FetchIsFresh'
    BY <1>1, <1>3, <2>1 DEF ListInv, ListTypes, RowsAreKnown, FetchIsFresh
  <2>3. ListFits'
    BY <1>1, <1>2, <1>4, <2>1 DEF ListInv, ListTypes, RowsAreKnown, ListFits, RowsFit, LinesFit, LineFits, Saving, HasRow, Still
  <2>4. QED
    BY <2>2, <2>3 DEF ListInv
<1>5. CASE f # NoFire
  <2>1. fetch' = [of |-> f, at |-> "sent", rows |-> {}] /\ shown' = shown
    BY <1>5 DEF ChooseFire
  <2>2. fetch' \in Fetches /\ fetch' # NoFetch /\ fetch'.of = f /\ fetch'.at = "sent" /\ fetch'.rows = {}
    BY <1>5, <2>1, LinesAssumption DEF Fetches
  <2>3. ListTypes' /\ RowsAreKnown'
    BY <1>1, <1>3, <2>1, <2>2 DEF ListInv, ListTypes, RowsAreKnown
  <2>4. FetchIsFresh' /\ ListFits'
    BY <1>1, <1>2, <2>2 DEF FetchIsFresh, ListFits, Still
  <2>5. QED
    BY <2>3, <2>4 DEF ListInv
<1>6. QED
  BY <1>4, <1>5

LEMMA LeaveHolds ==
  ASSUME ListInv, Leave
  PROVE  ListInv'
<1>1. selected' = NoFire /\ raced' = FALSE /\ fetch' = NoFetch /\ shown' = {} /\ UNCHANGED <<stored, post, delete>> /\ Still
  BY StillIsNotBusy DEF Leave, ListInv
<1>2. ListTypes' /\ RowsAreKnown' /\ FetchIsFresh'
  BY <1>1 DEF ListInv, ListTypes, RowsAreKnown, FetchIsFresh
<1>3. ListFits'
  BY <1>1 DEF ListInv, ListTypes, RowsAreKnown, ListFits, RowsFit, LinesFit, LineFits, Saving, HasRow, Still
<1>4. QED
  BY <1>2, <1>3 DEF ListInv

LEMMA ServerReadsHolds ==
  ASSUME ListInv, ServerReads
  PROVE  ListInv'
<1>1. fetch \in Fetches /\ fetch # NoFetch /\ UNCHANGED <<selected, shown, stored, post, delete, raced>>
  BY DEF ServerReads, ListInv, ListTypes, workspaceVars, choiceVars
<1>2. \/ fetch' = [fetch EXCEPT !.at = "read", !.rows = LinesFor(fetch.of)]
      \/ fetch' = [fetch EXCEPT !.at = "failed"]
  BY DEF ServerReads
<1>3. LinesFor(fetch.of) \subseteq stored /\ stored \subseteq Lines
  BY DEF LinesFor, ListInv, ListTypes
<1>4. /\ fetch' \in Fetches /\ fetch'.of = fetch.of
      /\ \/ fetch'.at = "failed" /\ fetch'.rows = fetch.rows
         \/ fetch'.at = "read" /\ fetch'.rows = LinesFor(fetch.of)
  BY <1>1, <1>2, <1>3 DEF Fetches
<1>5. fetch' # NoFetch
  BY <1>4, LinesAssumption DEF Fetches
<1>6. ListTypes'
  BY <1>1, <1>4 DEF ListInv, ListTypes
<1>7. \A l \in fetch'.rows : post[l] \in Known
  BY <1>1, <1>3, <1>4 DEF ListInv, RowsAreKnown
<1>8. RowsAreKnown'
  BY <1>1, <1>7 DEF ListInv, RowsAreKnown
<1>9. FetchIsFresh'
  <2> SUFFICES ASSUME ~raced' PROVE Still' /\ fetch'.of = selected' /\ (fetch'.at = "read" => fetch'.rows = LinesFor(selected)')
    BY DEF FetchIsFresh
  <2>1. Still /\ fetch.of = selected
    BY <1>1 DEF ListInv, FetchIsFresh
  <2>2. Still' /\ LinesFor(selected)' = LinesFor(selected)
    BY <1>1, <2>1 DEF Still, LinesFor
  <2>3. QED
    BY <1>1, <1>4, <2>1, <2>2
<1>10. ListFits'
  BY <1>5 DEF ListFits
<1>11. QED
  BY <1>6, <1>8, <1>9, <1>10 DEF ListInv

LEMMA LinesArriveHolds ==
  ASSUME ListInv, LinesArrive
  PROVE  ListInv'
<1>1. /\ fetch \in Fetches /\ fetch # NoFetch /\ fetch.at \in {"read", "failed"} /\ fetch' = NoFetch
      /\ UNCHANGED <<selected, stored, post, delete>>
      /\ shown' = {[line |-> l, fetched |-> TRUE, synced |-> TRUE] : l \in fetch.rows}
      /\ raced' = (raced \/ fetch.at = "failed")
  BY DEF LinesArrive, ListInv, ListTypes, workspaceVars, choiceVars, Fetches
<1> DEFINE fresh(l) == [line |-> l, fetched |-> TRUE, synced |-> TRUE]
<1>2. \A l \in fetch.rows : fresh(l) \in Rows /\ fresh(l).line = l /\ fresh(l).fetched /\ fresh(l).synced
  BY <1>1 DEF Rows, Fetches
<1>3. shown' = {fresh(l) : l \in fetch.rows}
  BY <1>1
<1> HIDE DEF fresh
<1>4. \A row \in shown' : row \in Rows /\ row.line \in fetch.rows /\ row.fetched /\ row.synced /\ row = fresh(row.line)
  BY <1>2, <1>3
<1>5. \A l \in fetch.rows : \E row \in shown' : row.line = l
  BY <1>2, <1>3
<1>6. ListTypes'
  BY <1>1, <1>4 DEF ListInv, ListTypes
<1>7. RowsAreKnown' /\ FetchIsFresh'
  BY <1>1, <1>4 DEF ListInv, RowsAreKnown, FetchIsFresh
<1>8. ListFits'
  <2> SUFFICES ASSUME ~raced' PROVE RowsFit' /\ LinesFit'
    BY DEF ListFits
  <2>1. ~raced /\ Still /\ fetch.rows = LinesFor(selected)
    BY <1>1 DEF ListInv, FetchIsFresh
  <2>2. \A l \in stored : post[l] = "over" /\ l \in Lines
    BY <2>1 DEF ListInv, ListTypes, RowsAreKnown, Still, Known
  <2>3. RowsFit'
    <3>1. \A a, b \in shown' : a.line = b.line => a = b
      BY <1>4
    <3>2. \A row \in shown' : row.line \in stored' /\ row.line \in Lines
      BY <1>1, <1>4, <2>1, <2>2 DEF LinesFor
    <3>3. \A row \in shown' : post'[row.line] = "over" /\ delete'[row.line].at = "none"
      BY <1>1, <2>1, <2>2, <3>2 DEF Still
    <3>4. QED
      BY <3>1, <3>2, <3>3 DEF RowsFit
  <2>4. LinesFit'
    BY <1>1, <1>5, <2>1, <2>2 DEF LinesFit, LineFits, Saving, LinesFor, Still, HasRow
  <2>5. QED
    BY <2>3, <2>4
<1>9. QED
  BY <1>6, <1>7, <1>8 DEF ListInv

(* An edit: with a fetch under way it races. *)
LEMMA EditHolds ==
  ASSUME ListInv, fetch' = fetch, ListTypes', RowsAreKnown',
         ~raced' => ~raced /\ (fetch = NoFetch \/ ~Still),
         ~raced' /\ RowsFit /\ LinesFit => RowsFit' /\ LinesFit'
  PROVE  ListInv'
<1>1. ~raced' => fetch' = NoFetch
  BY DEF ListInv, FetchIsFresh
<1>2. FetchIsFresh'
  BY <1>1 DEF FetchIsFresh
<1>3. ListFits'
  BY DEF ListInv, ListFits
<1>4. QED
  BY <1>2, <1>3 DEF ListInv

LEMMA RowParts ==
  ASSUME ListTypes
  PROVE  /\ \A row \in shown : row.line \in Lines /\ row.fetched \in BOOLEAN /\ row.synced \in BOOLEAN
                               /\ row = [line |-> row.line, fetched |-> row.fetched, synced |-> row.synced]
         /\ \A l \in Lines : post[l] \in Steps /\ delete[l] \in Removals
BY DEF ListTypes, Rows

LEMMA PostMoves ==
  ASSUME ListTypes, NEW l \in Lines, NEW step \in Steps, post' = [post EXCEPT ![l] = step]
  PROVE  post' \in [Lines -> Steps] /\ post'[l] = step /\ \A k \in Lines : k # l => post'[k] = post[k]
BY DEF ListTypes

LEMMA DeleteMoves ==
  ASSUME ListTypes, NEW l \in Lines, NEW removal \in Removals, delete' = [delete EXCEPT ![l] = removal]
  PROVE  delete' \in [Lines -> Removals] /\ delete'[l] = removal /\ \A k \in Lines : k # l => delete'[k] = delete[k]
BY DEF ListTypes


(* An edit of one line: what has to be shown is about that line alone. *)
LEMMA OneLineEdit ==
  ASSUME ListInv, NEW l \in Lines, fetch' = fetch, selected' = selected, ListTypes',
         \A k \in Lines : k # l => /\ post'[k] = post[k] /\ delete'[k] = delete[k]
                                   /\ k \in stored' <=> k \in stored,
         \A row \in Rows : row.line # l => (row \in shown' <=> row \in shown),
         \A row \in shown' : row.line = l =>
           /\ ~row.synced => ~row.fetched /\ l \notin Proposals /\ post'[l] \in Saving
           /\ row.synced => post'[l] \in Known,
         l \in stored' => post'[l] \in Known /\ AssignedTo[l] # NoFire,
         post[l] \in Known => post'[l] \in Known,
         delete'[l].at # "none" => post'[l] \in Known,
         ~raced' => ~raced /\ (fetch = NoFetch \/ ~Still),
         ~raced' /\ RowsFit /\ LinesFit =>
           /\ \A a, b \in shown' : a.line = l /\ b.line = l => a = b
           /\ \A row \in shown' : row.line = l /\ row.synced => l \in stored' /\ post'[l] = "over" /\ delete'[l].at = "none"
           /\ LineFits(l)'
  PROVE  ListInv'
<1>1. ListTypes /\ shown \subseteq Rows /\ shown' \subseteq Rows
  BY DEF ListInv, ListTypes
<1>2. \A row \in shown' : row.line \in Lines /\ (row.line # l => row \in shown)
  BY <1>1 DEF Rows
<1>3. RowsAreKnown'
  <2>1. \A row \in shown' :
          /\ ~row.synced => ~row.fetched /\ row.line \notin Proposals /\ post'[row.line] \in Saving
          /\ row.synced => post'[row.line] \in Known
    <3> TAKE row \in shown'
    <3>1. CASE row.line = l
      BY <3>1
    <3>2. CASE row.line # l
      BY <1>2, <3>2 DEF ListInv, RowsAreKnown
    <3>3. QED
      BY <3>1, <3>2
  <2>2. \A k \in stored' : post'[k] \in Known /\ AssignedTo[k] # NoFire
    <3>1. stored' \subseteq Lines
      BY DEF ListTypes
    <3>2. QED
      BY <3>1 DEF ListInv, RowsAreKnown
  <2>3. fetch' # NoFetch => \A k \in fetch'.rows : post'[k] \in Known
    <3>1. fetch # NoFetch => fetch.rows \subseteq Lines
      BY <1>1 DEF ListTypes, Fetches
    <3>2. QED
      BY <3>1 DEF ListInv, RowsAreKnown
  <2>4. \A k \in Lines : delete'[k].at # "none" => post'[k] \in Known
    BY DEF ListInv, RowsAreKnown
  <2>5. QED
    BY <2>1, <2>2, <2>3, <2>4 DEF RowsAreKnown
<1>4. ASSUME ~raced', RowsFit, LinesFit PROVE RowsFit' /\ LinesFit'
  <2>1. RowsFit'
    <3>1. \A a, b \in shown' : a.line = b.line => a = b
      BY <1>2, <1>4 DEF RowsFit
    <3>2. \A row \in shown' : row.synced => row.line \in stored' /\ post'[row.line] = "over" /\ delete'[row.line].at = "none"
      <4> TAKE row \in shown'
      <4>1. CASE row.line = l
        BY <1>4, <4>1
      <4>2. CASE row.line # l
        BY <1>2, <1>4, <4>2 DEF RowsFit
      <4>3. QED
        BY <4>1, <4>2
    <3>3. QED
      BY <3>1, <3>2 DEF RowsFit
  <2>2. ASSUME NEW k \in Lines PROVE LineFits(k)'
    <3>1. CASE k = l
      BY <1>4, <3>1
    <3>2. CASE k # l
      <4>1. HasRow(k)' <=> HasRow(k)
        BY <1>1, <3>2 DEF HasRow
      <4>2. Draft(k) \in shown' <=> Draft(k) \in shown
        BY <3>2 DEF Draft, Rows
      <4>3. LineFits(k)
        BY <1>4 DEF LinesFit
      <4>4. QED
        BY <3>2, <4>1, <4>2, <4>3 DEF LineFits, Draft
    <3>3. QED
      BY <3>1, <3>2
  <2>3. QED
    BY <2>1, <2>2 DEF LinesFit
<1>5. QED
  BY <1>3, <1>4, EditHolds

LEMMA DrawHolds ==
  ASSUME ListInv, NEW l \in Lines, DrawComplete(l)
  PROVE  ListInv'
<1>1. /\ post[l] = "unused" /\ l \notin Proposals /\ shown' = shown \cup {Draft(l)}
      /\ post' = [post EXCEPT ![l] = "sent"] /\ raced' = (raced \/ fetch # NoFetch)
      /\ UNCHANGED <<selected, fetch, stored, delete>>
  BY DEF DrawComplete, workspaceVars, choiceVars, Draft
<1>2. ListTypes
  BY DEF ListInv
<1>3. post' \in [Lines -> Steps] /\ post'[l] = "sent" /\ \A k \in Lines : k # l => post'[k] = post[k]
  BY <1>1, <1>2, PostMoves DEF Steps
<1>4. Draft(l) \in Rows /\ Draft(l).line = l /\ ~Draft(l).fetched /\ ~Draft(l).synced
  BY DEF Draft, Rows
<1>5. ListTypes'
  BY <1>1, <1>2, <1>3, <1>4 DEF ListTypes
<1>6. \A row \in shown : row.line # l
  BY <1>1 DEF ListInv, RowsAreKnown, Known, Saving
<1>7. l \notin stored /\ delete[l].at = "none" /\ post[l] \notin Known
  BY <1>1 DEF ListInv, RowsAreKnown, Known
<1>8. \A row \in shown' : row.line = l => row = Draft(l)
  BY <1>1, <1>6
<1>9. LineFits(l)'
  BY <1>1, <1>3, <1>7 DEF LineFits, Saving, Draft
<1>10. \A row \in Rows : row.line # l => (row \in shown' <=> row \in shown)
  BY <1>1, <1>4
<1>11. ~raced' => ~raced /\ fetch = NoFetch
  BY <1>1
<1>12. \A row \in shown' : row.line = l =>
           /\ ~row.synced => ~row.fetched /\ l \notin Proposals /\ post'[l] \in Saving
           /\ row.synced => post'[l] \in Known
  BY <1>1, <1>3, <1>4, <1>8 DEF Saving
<1>13. QED
  BY <1>1, <1>3, <1>4, <1>5, <1>7, <1>8, <1>9, <1>10, <1>11, <1>12, OneLineEdit

LEMMA ServerStoresHolds ==
  ASSUME ListInv, NEW l \in Lines, ServerStores(l)
  PROVE  ListInv'
<1>1. /\ post[l] = "sent" /\ UNCHANGED <<selected, shown, fetch, delete, raced>>
      /\ \/ AssignedTo[l] # NoFire /\ stored' = stored \cup {l} /\ post' = [post EXCEPT ![l] = "stored"]
         \/ post' = [post EXCEPT ![l] = "refused"] /\ stored' = stored
  BY DEF ServerStores, workspaceVars, choiceVars
<1>2. ListTypes /\ ~Still
  BY <1>1 DEF ListInv, Still
<1>3. PICK step \in {"stored", "refused"} : post' = [post EXCEPT ![l] = step]
  BY <1>1
<1>4. post' \in [Lines -> Steps] /\ post'[l] = step /\ \A k \in Lines : k # l => post'[k] = post[k]
  <2>1. step \in Steps
    BY DEF Steps
  <2>2. QED
    BY <1>2, <1>3, <2>1, PostMoves
<1>5. l \notin stored /\ delete[l].at = "none" /\ post[l] \notin Known
  BY <1>1 DEF ListInv, RowsAreKnown, Known
<1>6. \/ step = "stored" /\ stored' = stored \cup {l} /\ AssignedTo[l] # NoFire
      \/ step = "refused" /\ stored' = stored
  BY <1>1, <1>2, <1>4, PostMoves DEF Steps
<1>7. ListTypes'
  BY <1>1, <1>2, <1>4, <1>6 DEF ListTypes
<1>8. \A row \in shown : row.line = l => ~row.synced /\ ~row.fetched /\ l \notin Proposals
  BY <1>1 DEF ListInv, RowsAreKnown, Known
<1>9. post'[l] \in Saving
  BY <1>4 DEF Saving
<1>10. ASSUME RowsFit, LinesFit PROVE LineFits(l)' /\ \A a, b \in shown' : a.line = l /\ b.line = l => a = b
  <2>1. LineFits(l)
    BY <1>10 DEF LinesFit
  <2>2. HasRow(l)' <=> HasRow(l)
    BY <1>1 DEF HasRow
  <2>3. LineFits(l)'
    BY <1>1, <1>4, <1>5, <1>6, <1>9, <2>1, <2>2 DEF LineFits, Saving, Draft
  <2>4. QED
    BY <1>1, <1>10, <2>3 DEF RowsFit
<1>11. \A k \in Lines : k # l => (k \in stored' <=> k \in stored)
  BY <1>6
<1>12. l \in stored' => post'[l] \in Known /\ AssignedTo[l] # NoFire
  BY <1>4, <1>5, <1>6 DEF Known
<1>13. QED
  BY <1>1, <1>2, <1>4, <1>5, <1>7, <1>8, <1>9, <1>10, <1>11, <1>12, OneLineEdit

LEMMA DraftSavedHolds ==
  ASSUME ListInv, NEW l \in Lines, DraftSaved(l)
  PROVE  ListInv'
<1> DEFINE saved(row) == IF row.line = l /\ ~row.fetched THEN [row EXCEPT !.synced = TRUE] ELSE row
<1>1. /\ post[l] = "stored" /\ l \notin Proposals /\ shown' = {saved(row) : row \in shown}
      /\ post' = [post EXCEPT ![l] = "over"] /\ UNCHANGED <<selected, fetch, stored, delete, raced>>
  BY DEF DraftSaved, Closed, workspaceVars, choiceVars
<1>2. ListTypes /\ ~Still
  BY <1>1 DEF ListInv, Still
<1>3. post' \in [Lines -> Steps] /\ post'[l] = "over" /\ \A k \in Lines : k # l => post'[k] = post[k]
  BY <1>1, <1>2, PostMoves DEF Steps
<1>4. \A row \in Rows : saved(row) \in Rows /\ saved(row).line = row.line /\ (row.line # l => saved(row) = row)
  BY DEF Rows
<1>5. \A row \in Rows : row.line = l /\ ~row.fetched => saved(row).synced
  BY DEF Rows
<1>6. \A row \in Rows : row.line = l /\ row.fetched => saved(row) = row
  OBVIOUS
<1>7. shown \subseteq Rows /\ \A row \in shown : row.line = l /\ ~row.synced => ~row.fetched
  BY <1>2 DEF ListTypes, ListInv, RowsAreKnown
<1> HIDE DEF saved
<1>8. \A row \in shown' : row.line = l => row.synced
  BY <1>1, <1>4, <1>5, <1>6, <1>7
<1>9. shown' \subseteq Rows
  BY <1>1, <1>4, <1>7
<1>10. ListTypes'
  BY <1>1, <1>2, <1>3, <1>9 DEF ListTypes
<1>11. \A row \in Rows : row.line # l => (row \in shown' <=> row \in shown)
  BY <1>1, <1>4, <1>7
<1>12. \A a \in shown' : a.line = l => \E row \in shown : row.line = l /\ a = saved(row)
  BY <1>1, <1>4, <1>7
<1>13. ASSUME RowsFit, LinesFit
       PROVE  /\ \A a, b \in shown' : a.line = l /\ b.line = l => a = b
              /\ l \in stored /\ delete[l].at = "none"
              /\ LineFits(l)'
  <2>1. LineFits(l)
    BY <1>13 DEF LinesFit
  <2>2. \A a, b \in shown' : a.line = l /\ b.line = l => a = b
    BY <1>12, <1>13 DEF RowsFit
  <2>3. l \in stored /\ delete[l].at = "none"
    BY <1>1, <2>1 DEF LineFits
  <2>4. HasRow(l)'
    <3>1. Draft(l) \in shown /\ Draft(l).line = l
      BY <1>1, <2>1 DEF LineFits, Saving, Draft
    <3>2. saved(Draft(l)) \in shown' /\ saved(Draft(l)).line = l
      BY <1>1, <1>4, <1>7, <3>1
    <3>3. QED
      BY <3>2 DEF HasRow
  <2>5. LineFits(l)'
    BY <1>1, <1>3, <2>3, <2>4 DEF LineFits, Saving, Draft
  <2>6. QED
    BY <2>2, <2>3, <2>5
<1>14. post'[l] \in Known /\ (l \in stored => AssignedTo[l] # NoFire)
  BY <1>3 DEF Known, ListInv, RowsAreKnown
<1>15. QED
  BY <1>1, <1>2, <1>3, <1>8, <1>10, <1>11, <1>13, <1>14, OneLineEdit

LEMMA DraftFailsHolds ==
  ASSUME ListInv, NEW l \in Lines, DraftFails(l)
  PROVE  ListInv'
<1>1. /\ post[l] \in {"stored", "refused"} /\ l \notin Proposals
      /\ shown' = {row \in shown : row.line # l \/ row.fetched}
      /\ post' = [post EXCEPT ![l] = "over"] /\ raced' = (raced \/ post[l] = "stored")
      /\ UNCHANGED <<selected, fetch, stored, delete>>
  BY DEF DraftFails, Closed, workspaceVars, choiceVars
<1>2. ListTypes /\ ~Still
  BY <1>1 DEF ListInv, Still
<1>3. post' \in [Lines -> Steps] /\ post'[l] = "over" /\ \A k \in Lines : k # l => post'[k] = post[k]
  BY <1>1, <1>2, PostMoves DEF Steps
<1>4. ListTypes'
  BY <1>1, <1>2, <1>3 DEF ListTypes
<1>5. \A row \in Rows : row.line # l => (row \in shown' <=> row \in shown)
  BY <1>1
<1>6. \A row \in shown' : row.line = l => row \in shown /\ row.synced
  BY <1>1, <1>2 DEF ListTypes, Rows, ListInv, RowsAreKnown
<1>7. post'[l] \in Known /\ (l \in stored => AssignedTo[l] # NoFire)
  BY <1>3 DEF Known, ListInv, RowsAreKnown
<1>8. ~raced' => ~raced /\ post[l] = "refused"
  BY <1>1
<1>9. ASSUME ~raced', RowsFit, LinesFit
      PROVE  (\A row \in shown' : row.line # l) /\ LineFits(l)'
  <2>1. l \notin stored /\ delete[l].at = "none"
    BY <1>8, <1>9 DEF ListInv, RowsAreKnown, Known
  <2>2. \A row \in shown' : row.line # l
    BY <1>6, <1>8, <1>9 DEF RowsFit
  <2>3. LineFits(l)'
    BY <1>1, <1>3, <2>1 DEF LineFits, Saving, Draft
  <2>4. QED
    BY <2>2, <2>3
<1>10. QED
  BY <1>1, <1>2, <1>3, <1>4, <1>5, <1>6, <1>7, <1>8, <1>9, OneLineEdit

LEMMA SuggestionHolds ==
  ASSUME ListInv, NEW l \in Lines, AcceptSuggestion(l) \/ SuggestionSaved(l) \/ SuggestionFails(l)
  PROVE  ListInv'
<1>1. ListTypes /\ l \in Proposals
  BY DEF ListInv, AcceptSuggestion, SuggestionSaved, SuggestionFails
<1>2. \A row \in shown : row.line = l => row.synced
  BY <1>1 DEF ListInv, RowsAreKnown
<1>3. l \in stored => AssignedTo[l] # NoFire
  BY DEF ListInv, RowsAreKnown
<1>4. CASE AcceptSuggestion(l)
  <2>1. /\ post[l] = "unused" /\ post' = [post EXCEPT ![l] = "sent"] /\ raced' = (raced \/ fetch # NoFetch)
        /\ UNCHANGED <<selected, shown, fetch, stored, delete>>
    BY <1>4 DEF AcceptSuggestion, HandleAccept, choiceVars
  <2>2. post' \in [Lines -> Steps] /\ post'[l] = "sent" /\ \A k \in Lines : k # l => post'[k] = post[k]
    BY <1>1, <2>1, PostMoves DEF Steps
  <2>3. ListTypes'
    BY <1>1, <2>1, <2>2 DEF ListTypes
  <2>4. l \notin stored /\ delete[l].at = "none" /\ post[l] \notin Known /\ \A row \in shown : row.line # l
    BY <1>2, <2>1 DEF ListInv, RowsAreKnown, Known
  <2>5. LineFits(l)'
    BY <1>1, <2>1, <2>2, <2>4 DEF LineFits, Saving, HasRow
  <2>6. ~raced' => ~raced /\ fetch = NoFetch
    BY <2>1
  <2>7. QED
    BY <2>1, <2>2, <2>3, <2>4, <2>5, <2>6, OneLineEdit
<1>5. CASE SuggestionSaved(l)
  <2> DEFINE new == [line |-> l, fetched |-> FALSE, synced |-> TRUE]
  <2>1. /\ post[l] = "stored" /\ shown' = shown \cup {new} /\ post' = [post EXCEPT ![l] = "over"]
        /\ UNCHANGED <<selected, fetch, stored, delete, raced>>
    BY <1>5 DEF SuggestionSaved, AcceptSaved, Closed
  <2>2. post' \in [Lines -> Steps] /\ post'[l] = "over" /\ \A k \in Lines : k # l => post'[k] = post[k]
    BY <1>1, <2>1, PostMoves DEF Steps
  <2>3. new \in Rows /\ new.line = l /\ new.synced
    BY DEF Rows
  <2> HIDE DEF new
  <2>4. ListTypes'
    BY <1>1, <2>1, <2>2, <2>3 DEF ListTypes
  <2>5. ~Still /\ post'[l] \in Known
    BY <2>1, <2>2 DEF Still, Known
  <2>6. \A row \in Rows : row.line # l => (row \in shown' <=> row \in shown)
    BY <2>1, <2>3
  <2>7. \A row \in shown' : row.line = l => row.synced
    BY <1>2, <2>1, <2>3
  <2>8. ASSUME RowsFit, LinesFit
        PROVE  /\ \A row \in shown' : row.line = l => row = new
               /\ l \in stored /\ delete[l].at = "none" /\ LineFits(l)'
    <3>1. LineFits(l)
      BY <2>8 DEF LinesFit
    <3>2. \A row \in shown : row.line # l
      BY <1>1, <2>1, <3>1 DEF LineFits, Saving, HasRow
    <3>3. l \in stored /\ delete[l].at = "none"
      BY <2>1, <3>1 DEF LineFits
    <3>4. HasRow(l)'
      BY <2>1, <2>3 DEF HasRow
    <3>5. LineFits(l)'
      BY <2>1, <2>2, <3>3, <3>4 DEF LineFits, Saving
    <3>6. QED
      BY <2>1, <3>2, <3>3, <3>5
  <2>9. QED
    BY <1>3, <2>1, <2>2, <2>4, <2>5, <2>6, <2>7, <2>8, OneLineEdit
<1>6. CASE SuggestionFails(l)
  <2>1. /\ post[l] \in {"stored", "refused"} /\ post' = [post EXCEPT ![l] = "over"]
        /\ raced' = (raced \/ post[l] = "stored") /\ UNCHANGED <<selected, shown, fetch, stored, delete>>
    BY <1>6 DEF SuggestionFails, AcceptFails, Closed, choiceVars
  <2>2. post' \in [Lines -> Steps] /\ post'[l] = "over" /\ \A k \in Lines : k # l => post'[k] = post[k]
    BY <1>1, <2>1, PostMoves DEF Steps
  <2>3. ListTypes'
    BY <1>1, <2>1, <2>2 DEF ListTypes
  <2>4. ~Still /\ post'[l] \in Known
    BY <2>1, <2>2 DEF Still, Known
  <2>5. ~raced' => ~raced /\ post[l] = "refused"
    BY <2>1
  <2>6. ASSUME ~raced', RowsFit, LinesFit
        PROVE  (\A row \in shown' : row.line # l) /\ LineFits(l)'
    <3>1. LineFits(l) /\ l \notin stored /\ delete[l].at = "none"
      BY <2>5, <2>6 DEF LinesFit, ListInv, RowsAreKnown, Known
    <3>2. \A row \in shown' : row.line # l
      BY <1>1, <2>1, <3>1 DEF LineFits, Saving, HasRow
    <3>3. LineFits(l)'
      BY <2>1, <2>2, <3>1 DEF LineFits, Saving
    <3>4. QED
      BY <3>2, <3>3
  <2>7. QED
    BY <1>2, <1>3, <2>1, <2>2, <2>3, <2>4, <2>5, <2>6, OneLineEdit
<1>7. QED
  BY <1>4, <1>5, <1>6

LEMMA DeleteLineHolds ==
  ASSUME ListInv, NEW row \in Rows, DeleteLine(row)
  PROVE  ListInv'
<1> DEFINE l == row.line
<1>1. /\ row \in shown /\ (row.synced => delete[l].at = "none")
      /\ shown' = {other \in shown : ~SameId(other, row)}
      /\ IF row.synced THEN delete' = [delete EXCEPT ![l] = [at |-> "sent", fetched |-> row.fetched]] ELSE delete' = delete
      /\ raced' = (raced \/ fetch # NoFetch \/ ~row.synced)
      /\ UNCHANGED <<selected, fetch, stored, post>>
  BY DEF DeleteLine, workspaceVars, choiceVars
<1>2. ListTypes /\ l \in Lines /\ row.fetched \in BOOLEAN
  BY DEF ListInv, Rows
<1>3. /\ delete' \in [Lines -> Removals] /\ \A k \in Lines : k # l => delete'[k] = delete[k]
      /\ row.synced => delete'[l].at = "sent"
      /\ ~row.synced => delete' = delete
  <2>1. CASE row.synced
    <3>1. [at |-> "sent", fetched |-> row.fetched] \in Removals
      BY <1>2 DEF Removals
    <3>2. QED
      BY <1>1, <1>2, <2>1, <3>1, DeleteMoves
  <2>2. CASE ~row.synced
    BY <1>1, <1>2, <2>2 DEF ListTypes
  <2>3. QED
    BY <2>1, <2>2
<1>4. raced' \in BOOLEAN
  BY <1>1
<1>5. ListTypes'
  BY <1>1, <1>2, <1>3, <1>4 DEF ListTypes
<1>6. \A other \in Rows : other.line # l => (other \in shown' <=> other \in shown)
  BY <1>1 DEF SameId
<1>7. \A other \in shown' : other \in shown
  BY <1>1
<1>8. /\ row.synced => post[l] \in Known
      /\ delete[l].at # "none" => post[l] \in Known
      /\ l \in stored => post[l] \in Known /\ AssignedTo[l] # NoFire
      /\ \A other \in shown : other.line = l =>
           /\ ~other.synced => ~other.fetched /\ l \notin Proposals /\ post[l] \in Saving
           /\ other.synced => post[l] \in Known
  BY <1>1, <1>2 DEF ListInv, RowsAreKnown
<1>9. delete'[l].at # "none" => post'[l] \in Known
  BY <1>1, <1>3, <1>8
<1>10. ~raced' => ~raced /\ fetch = NoFetch /\ row.synced
  BY <1>1
<1>11. ASSUME ~raced', RowsFit, LinesFit PROVE (\A other \in shown' : other.line # l) /\ LineFits(l)'
  <2>1. \A other \in shown' : other.line # l
    BY <1>1, <1>7, <1>11 DEF RowsFit, SameId
  <2>2. l \in stored /\ post[l] = "over"
    BY <1>1, <1>10, <1>11 DEF RowsFit
  <2>3. LineFits(l)'
    BY <1>1, <1>3, <1>10, <1>11, <2>1, <2>2 DEF LineFits, HasRow, Saving
  <2>4. QED
    BY <2>1, <2>3
<1> HIDE DEF l
<1>12. QED
  BY <1>1, <1>2, <1>3, <1>5, <1>6, <1>7, <1>8, <1>9, <1>10, <1>11, OneLineEdit

LEMMA RemovalHolds ==
  ASSUME ListInv, NEW l \in Lines, ServerDeletes(l) \/ DeleteSucceeds(l) \/ DeleteFails(l)
  PROVE  ListInv'
<1>1. ListTypes /\ delete[l] \in Removals /\ NoDelete \in Removals /\ NoDelete.at = "none"
  BY DEF ListInv, ListTypes, Removals, NoDelete
<1>2. delete[l].at # "none"
  BY DEF ServerDeletes, DeleteSucceeds, DeleteFails
<1>3. post[l] \in Known /\ (l \in stored => AssignedTo[l] # NoFire) /\ ~Still
  BY <1>2 DEF ListInv, RowsAreKnown, Still
<1>4. \A row \in shown : row.line = l =>
           /\ ~row.synced => ~row.fetched /\ l \notin Proposals /\ post[l] \in Saving
           /\ row.synced => post[l] \in Known
  BY DEF ListInv, RowsAreKnown
<1>5. RowsFit /\ LinesFit => (\A row \in shown : row.line # l) /\ post[l] = "over"
  BY <1>2 DEF LinesFit, LineFits, HasRow
<1>6. CASE ServerDeletes(l)
  <2>1. /\ delete[l].at = "sent" /\ UNCHANGED <<selected, shown, fetch, post, raced>>
        /\ \/ l \in stored /\ stored' = stored \ {l} /\ delete' = [delete EXCEPT ![l].at = "gone"]
           \/ delete' = [delete EXCEPT ![l].at = "refused"] /\ stored' = stored
    BY <1>6 DEF ServerDeletes, workspaceVars, choiceVars
  <2>2. PICK at \in {"gone", "refused"} :
          /\ delete' = [delete EXCEPT ![l].at = at]
          /\ IF at = "gone" THEN stored' = stored \ {l} ELSE stored' = stored
    BY <2>1
  <2>3. PICK removal : removal = [delete[l] EXCEPT !.at = at]
    OBVIOUS
  <2>4. removal \in Removals /\ removal.at = at
    BY <1>1, <2>3 DEF Removals
  <2>5. delete' = [delete EXCEPT ![l] = removal]
    BY <2>2, <2>3
  <2>6. delete' \in [Lines -> Removals] /\ delete'[l] = removal /\ \A k \in Lines : k # l => delete'[k] = delete[k]
    BY <1>1, <2>5, <2>4, DeleteMoves
  <2>7. ListTypes'
    BY <1>1, <2>1, <2>2, <2>6 DEF ListTypes
  <2>8. \A k \in Lines : k # l => (k \in stored' <=> k \in stored)
    BY <2>2
  <2>9. ASSUME RowsFit, LinesFit PROVE (\A row \in shown' : row.line # l) /\ LineFits(l)'
    <3>1. LineFits(l) /\ ~HasRow(l)' /\ post'[l] = "over" /\ \A row \in shown' : row.line # l
      BY <1>5, <2>1, <2>9 DEF LinesFit, HasRow
    <3>2. LineFits(l)'
      BY <2>1, <2>2, <2>6, <2>4, <3>1 DEF LineFits, Saving
    <3>3. QED
      BY <3>1, <3>2
  <2>10. l \in stored' => l \in stored
    BY <2>2
  <2>11. QED
    BY <1>3, <1>4, <2>1, <2>6, <2>7, <2>8, <2>9, <2>10, OneLineEdit
<1>7. CASE DeleteSucceeds(l)
  <2>1. delete[l].at = "gone" /\ delete' = [delete EXCEPT ![l] = NoDelete] /\ UNCHANGED <<selected, shown, fetch, stored, post, raced>>
    BY <1>7 DEF DeleteSucceeds, workspaceVars, choiceVars
  <2>2. delete' \in [Lines -> Removals] /\ delete'[l] = NoDelete /\ \A k \in Lines : k # l => delete'[k] = delete[k]
    BY <1>1, <2>1, DeleteMoves
  <2>3. ListTypes'
    BY <1>1, <2>1, <2>2 DEF ListTypes
  <2>4. ASSUME RowsFit, LinesFit PROVE (\A row \in shown' : row.line # l) /\ LineFits(l)'
    <3>1. LineFits(l) /\ ~HasRow(l)' /\ post'[l] = "over" /\ \A row \in shown' : row.line # l
      BY <1>5, <2>1, <2>4 DEF LinesFit, HasRow
    <3>2. LineFits(l)'
      BY <1>1, <2>1, <2>2, <3>1 DEF LineFits, Saving
    <3>3. QED
      BY <3>1, <3>2
  <2>5. QED
    BY <1>1, <1>3, <1>4, <2>1, <2>2, <2>3, <2>4, OneLineEdit
<1>8. CASE DeleteFails(l)
  <2> DEFINE back == [line |-> l, fetched |-> delete[l].fetched, synced |-> TRUE]
  <2>1. /\ delete[l].at \in {"gone", "refused"} /\ shown' = shown \cup {back}
        /\ delete' = [delete EXCEPT ![l] = NoDelete] /\ raced' = (raced \/ delete[l].at = "gone")
        /\ UNCHANGED <<selected, fetch, stored, post>>
    BY <1>8 DEF DeleteFails, workspaceVars, choiceVars
  <2>2. delete' \in [Lines -> Removals] /\ delete'[l] = NoDelete /\ \A k \in Lines : k # l => delete'[k] = delete[k]
    BY <1>1, <2>1, DeleteMoves
  <2>3. back \in Rows /\ back.line = l /\ back.synced
    BY <1>1 DEF Rows, Removals
  <2> HIDE DEF back
  <2>4. ListTypes'
    BY <1>1, <2>1, <2>2, <2>3 DEF ListTypes
  <2>5. \A row \in Rows : row.line # l => (row \in shown' <=> row \in shown)
    BY <2>1, <2>3
  <2>6. \A row \in shown' : row.line = l =>
           /\ ~row.synced => ~row.fetched /\ l \notin Proposals /\ post[l] \in Saving
           /\ row.synced => post[l] \in Known
    BY <1>3, <1>4, <2>1, <2>3
  <2>7. ~raced' => ~raced /\ delete[l].at = "refused"
    BY <2>1
  <2>8. ASSUME ~raced', RowsFit, LinesFit
        PROVE  /\ \A row \in shown' : row.line = l => row = back
               /\ l \in stored /\ post[l] = "over" /\ LineFits(l)'
    <3>1. l \in stored /\ post[l] = "over" /\ \A row \in shown' : row.line = l => row = back
      BY <1>5, <2>1, <2>7, <2>8 DEF LinesFit, LineFits
    <3>2. HasRow(l)'
      BY <2>1, <2>3 DEF HasRow
    <3>3. LineFits(l)'
      BY <1>1, <2>1, <2>2, <3>1, <3>2 DEF LineFits, Saving
    <3>4. QED
      BY <3>1, <3>3
  <2>9. QED
    BY <1>1, <1>3, <2>1, <2>2, <2>4, <2>5, <2>6, <2>7, <2>8, OneLineEdit
<1>9. QED
  BY <1>6, <1>7, <1>8

LEMMA ClearAllHolds ==
  ASSUME ListInv, ClearAll
  PROVE  ListInv'
<1>1. /\ UNCHANGED <<selected, fetch, stored, post, delete>> /\ shown' = shown \ Drafts
      /\ raced' = (raced \/ Drafts # {})
  BY DEF ClearAll, HandleClear
<1>2. ListTypes' /\ RowsAreKnown'
  <2>1. raced' \in BOOLEAN
    BY <1>1
  <2>2. QED
    BY <1>1, <2>1 DEF ListInv, ListTypes, RowsAreKnown
<1>3. ~raced' => UNCHANGED <<listVars, selected>>
  BY <1>1 DEF listVars, ListInv, ListTypes
<1>4. CASE ~raced'
  BY <1>3, <1>4, ListIdles
<1>5. CASE raced'
  BY <1>2, <1>5 DEF ListInv, FetchIsFresh, ListFits
<1>6. QED
  BY <1>4, <1>5

ListMove ==
  \/ LineStep \/ JointStep
  \/ UNCHANGED <<listVars, selected>>

LEMMA ListStays ==
  ASSUME ListInv, ListMove PROVE ListInv'
<1>1. CASE LineStep
  BY <1>1, ServerReadsHolds, LinesArriveHolds, DrawHolds, ServerStoresHolds, DraftSavedHolds, DraftFailsHolds,
     DeleteLineHolds, RemovalHolds DEF LineStep
<1>2. CASE JointStep
  BY <1>2, ChooseFireHolds, SuggestionHolds, ClearAllHolds, LeaveHolds DEF JointStep
<1>3. QED
  BY <1>1, <1>2, ListIdles DEF ListMove

-----------------------------------------------------------------------------
(***************************************************************************)
(* All of them together.                                                   *)
(***************************************************************************)

(* In the scene without lines there are none. *)
NoLines == shown = {} /\ stored = {} /\ fetch = NoFetch /\ post = [l \in Lines |-> "unused"]
           /\ delete = [l \in Lines |-> NoDelete] /\ raced = FALSE

(* The inductive invariant of the pages. *)
MapInv ==
  /\ PerimetersInv /\ WaterInv /\ QueryInv /\ BiasInv /\ PlaceInv /\ ViewInv /\ OfflineInv
  /\ RunsInv
  /\ IF scene = "runs" THEN NoLines ELSE ListInv

LEMMA MapBegins == MapInit => MapInv
<1> SUFFICES ASSUME MapInit PROVE MapInv
  OBVIOUS
<1>1. PerimetersInit /\ WaterInit /\ QueryInit /\ BiasInit /\ PlaceInit /\ ViewInit /\ OfflineInit /\ PageInit
  BY DEF MapInit
<1>2. NoLines /\ WorkspaceInit
  BY <1>1 DEF PageInit, NoLines
<1>3. ListInv /\ RunsInv
  BY <1>1, <1>2, ListBegins, RunsBegin
<1>4. QED
  BY <1>1, <1>2, <1>3, PerimetersBegin, WaterBegins, QueryBegins, BiasBegins, PlaceBegins, ViewBegins, OfflineBegins
     DEF MapInv

(* The page's steps, as far as the runs go and as far as the lines go.     *)
LEMMA LineStepsAreQuiet == LineStep => UNCHANGED workspaceVars
BY DEF LineStep, ServerReads, LinesArrive, DrawComplete, ServerStores, DraftSaved, DraftFails,
       ServerDeletes, DeleteSucceeds, DeleteFails, DeleteLine

LEMMA JointStepsShare ==
  ASSUME JointStep PROVE SharedStep \/ LeaveRuns
<1>1. ASSUME NEW f \in Fires \cup {NoFire}, ChooseFire(f) PROVE SharedStep
  BY <1>1 DEF ChooseFire, SharedStep
<1>2. ASSUME NEW l \in Lines, AcceptSuggestion(l) \/ SuggestionSaved(l) \/ SuggestionFails(l) PROVE SharedStep
  BY <1>2 DEF AcceptSuggestion, SuggestionSaved, SuggestionFails, SharedStep
<1>3. ClearAll => SharedStep
  BY DEF ClearAll, SharedStep
<1>4. Leave => LeaveRuns
  BY DEF Leave, LeaveRuns
<1>5. QED
  BY <1>1, <1>2, <1>3, <1>4 DEF JointStep

LEMMA RunsKeepTheFire ==
  ASSUME RunStep \/ SuggestStep PROVE selected' = selected
<1> USE DEF choiceVars
<1>1. ASSUME NEW r \in RunIds, RunAnswers(r) \/ RunFails(r) PROVE selected' = selected
  BY <1>1 DEF RunAnswers, RunFails
<1>2. ASSUME NEW to \in 0..SliderMax, SeekToTick(to) PROVE selected' = selected
  BY <1>2 DEF SeekToTick
<1>3. HandleRun \/ HandleRunCluster \/ HandleRerun \/ StopRunning \/ Dismiss => selected' = selected
  BY DEF HandleRun, HandleRunCluster, HandleRerun, StopRunning, Dismiss
<1>4. PlayTick \/ Pause \/ Play => selected' = selected
  BY DEF PlayTick, Pause, Play
<1>5. SuggestStep => selected' = selected
  BY DEF SuggestStep, HandleSuggest, SuggestAnswers, DismissSuggestion
<1>6. QED
  BY <1>1, <1>2, <1>3, <1>4, <1>5 DEF RunStep

LEMMA PageSceneMoves ==
  /\ RunsScene => RunsMove /\ UNCHANGED listVars
  /\ LinesScene => RunsMove /\ ListMove
  /\ AcceptScene => RunsMove /\ ListMove
<1>1. ASSUME RunsScene PROVE RunsMove /\ UNCHANGED listVars
  <2>1. CASE PollAnswers
    BY <1>1, <2>1 DEF RunsScene, RunsMove
  <2>2. CASE (RunStep \/ ChoiceStep \/ HandleClear \/ \E f \in Fires \cup {NoFire} : SelectFire(f)) /\ ProgressEffect
    <3>1. RunStep \/ ChoiceStep \/ SharedStep
      BY <2>2 DEF SharedStep
    <3>2. QED
      BY <1>1, <2>2, <3>1 DEF RunsScene, RunsMove
  <2>3. QED
    BY <1>1, <2>1, <2>2 DEF RunsScene
<1>2. ASSUME LinesScene PROVE RunsMove /\ ListMove
  <2>1. LineStep \/ JointStep
    BY <1>2 DEF LinesScene, JointStep
  <2>2. ProgressEffect
    BY <1>2 DEF LinesScene
  <2>3. QED
    BY <2>1, <2>2, LineStepsAreQuiet, JointStepsShare DEF RunsMove, ListMove
<1>3. ASSUME AcceptScene PROVE RunsMove /\ ListMove
  <2>1. ProgressEffect
    BY <1>3 DEF AcceptScene
  <2>2. CASE (RunStep \/ SuggestStep) /\ UNCHANGED listVars
    BY <2>1, <2>2, RunsKeepTheFire DEF RunsMove, ListMove
  <2>3. CASE LineStep
    BY <2>3, LineStepsAreQuiet DEF RunsMove, ListMove
  <2>4. CASE JointStep
    BY <2>1, <2>4, JointStepsShare DEF RunsMove, ListMove
  <2>5. Proposals \subseteq Lines
    BY LinesAssumption
  <2>6. QED
    BY <1>3, <2>2, <2>3, <2>4, <2>5 DEF AcceptScene, LineStep
<1>4. QED
  BY <1>1, <1>2, <1>3

LEMMA NoLinesStay ==
  ASSUME NoLines, UNCHANGED listVars PROVE NoLines'
BY DEF NoLines, listVars

(* The scenes share nothing: a step of one leaves the others as they are. *)
LEMMA ScenesStepAlone ==
  ASSUME [MapNext]_<<scene, allVars>>
  PROVE  /\ [PerimetersNext]_perimeterVars /\ [WaterNext]_waterVars /\ [QueryNext]_queryVars /\ [BiasNext]_biasVars
         /\ [PlaceNext]_placeVars /\ [ViewNext]_viewVars /\ [OfflineNext]_offlineVars
         /\ \/ UNCHANGED pageVars
            \/ scene = "runs" /\ RunsScene
            \/ scene = "lines" /\ LinesScene
            \/ scene = "accept" /\ AcceptScene
<1>1. CASE UNCHANGED <<scene, allVars>>
  BY <1>1 DEF allVars, sceneVars
<1>2. CASE scene \in {"growth", "fade"} /\ GrowthScene
           /\ UNCHANGED <<waterVars, queryVars, biasVars, placeVars, viewVars, offlineVars, pageVars>>
  BY <1>2 DEF GrowthScene
<1>3. CASE scene = "water" /\ WaterNext
           /\ UNCHANGED <<perimeterVars, queryVars, biasVars, placeVars, viewVars, offlineVars, pageVars>>
  BY <1>3
<1>4. CASE scene = "queries" /\ QueryNext
           /\ UNCHANGED <<perimeterVars, waterVars, biasVars, placeVars, viewVars, offlineVars, pageVars>>
  BY <1>4
<1>5. CASE scene = "bias" /\ BiasNext
           /\ UNCHANGED <<perimeterVars, waterVars, queryVars, placeVars, viewVars, offlineVars, pageVars>>
  BY <1>5
<1>6. CASE scene = "place" /\ PlaceNext
           /\ UNCHANGED <<perimeterVars, waterVars, queryVars, biasVars, viewVars, offlineVars, pageVars>>
  BY <1>6
<1>7. CASE scene \in {"look", "draw"} /\ (IF scene = "look" THEN LookStep ELSE DrawStep)
           /\ UNCHANGED <<perimeterVars, waterVars, queryVars, biasVars, placeVars, offlineVars, pageVars>>
  <2>1. ViewNext
    BY <1>7 DEF ViewNext
  <2>2. QED
    BY <1>7, <2>1
<1>8. CASE scene \in {"queue", "list"} /\ (IF scene = "queue" THEN QueueStep \/ NetStep \/ BarStep ELSE MapStep \/ NetStep)
           /\ UNCHANGED <<perimeterVars, waterVars, queryVars, biasVars, placeVars, viewVars, pageVars>>
  <2>1. OfflineNext
    BY <1>8 DEF OfflineNext
  <2>2. QED
    BY <1>8, <2>1
<1>9. CASE scene \in PageScenes
           /\ (\/ scene = "runs" /\ RunsScene
               \/ scene = "lines" /\ LinesScene
               \/ scene = "accept" /\ AcceptScene)
           /\ UNCHANGED sceneVars
  BY <1>9 DEF sceneVars
<1>10. QED
  BY <1>1, <1>2, <1>3, <1>4, <1>5, <1>6, <1>7, <1>8, <1>9 DEF MapNext

LEMMA MapStays == MapInv /\ [MapNext]_<<scene, allVars>> => MapInv'
<1> SUFFICES ASSUME MapInv, [MapNext]_<<scene, allVars>> PROVE MapInv'
  OBVIOUS
<1>1. scene' = scene
  BY DEF MapNext
<1>2. /\ [PerimetersNext]_perimeterVars /\ [WaterNext]_waterVars /\ [QueryNext]_queryVars /\ [BiasNext]_biasVars
      /\ [PlaceNext]_placeVars /\ [ViewNext]_viewVars /\ [OfflineNext]_offlineVars
      /\ \/ UNCHANGED pageVars
         \/ scene = "runs" /\ RunsScene
         \/ scene = "lines" /\ LinesScene
         \/ scene = "accept" /\ AcceptScene
  BY ScenesStepAlone
<1>3. PerimetersInv' /\ WaterInv' /\ QueryInv' /\ BiasInv' /\ PlaceInv' /\ ViewInv' /\ OfflineInv'
  BY <1>2, PerimetersStay, WaterStays, QueryStays, BiasStays, PlaceStays, ViewStays, OfflineStays DEF MapInv
<1>4. RunsMove
  BY <1>2, PageSceneMoves DEF RunsMove, pageVars
<1>5. RunsInv'
  BY <1>4, RunsStay DEF MapInv
<1>6. CASE scene = "runs"
  <2>1. UNCHANGED listVars
    BY <1>2, <1>6, PageSceneMoves DEF pageVars
  <2>2. NoLines'
    BY <1>6, <2>1, NoLinesStay DEF MapInv
  <2>3. QED
    BY <1>1, <1>3, <1>5, <1>6, <2>2 DEF MapInv
<1>7. CASE scene # "runs"
  <2>1. ListMove
    BY <1>2, <1>7, PageSceneMoves DEF ListMove, pageVars, workspaceVars, choiceVars
  <2>2. ListInv'
    BY <1>7, <2>1, ListStays DEF MapInv
  <2>3. QED
    BY <1>1, <1>3, <1>5, <1>7, <2>2 DEF MapInv
<1>8. QED
  BY <1>6, <1>7

LEMMA PageIsRight ==
  ASSUME RunsInv, IF scene = "runs" THEN NoLines ELSE ListInv
  PROVE  PageTypeOK /\ RunsAreOurs /\ PlaybackFits /\ ListSettles
<1>1. WorkspaceTypeOK /\ RunsAreOurs /\ PlaybackFits
  BY RunsAreRight
<1>2. CASE scene = "runs"
  <2>1. NoLines
    BY <1>2
  <2>2. post \in [Lines -> {"unused", "sent", "stored", "refused", "over"}]
    BY <2>1 DEF NoLines
  <2>3. delete \in [Lines -> [at : {"none", "sent", "gone", "refused"}, fetched : BOOLEAN]]
    BY <2>1 DEF NoLines, NoDelete
  <2>4. PageTypeOK
    BY <1>1, <2>1, <2>2, <2>3 DEF PageTypeOK, NoLines
  <2>5. ListSettles
    BY <2>1 DEF NoLines, ListSettles, DraftsAreInFlight, ShownIsStored, Drafts, LinesFor
  <2>6. QED
    BY <1>1, <2>4, <2>5
<1>3. CASE scene # "runs"
  <2>1. ListInv
    BY <1>3
  <2>2. ListSettles
    BY <2>1, ListIsRight
  <2>3. PageTypeOK
    BY <1>1, <2>1 DEF PageTypeOK, ListInv, ListTypes, Fetches, Steps, Removals
  <2>4. QED
    BY <1>1, <2>2, <2>3
<1>4. QED
  BY <1>2, <1>3

LEMMA MapAlways == MapSpec => []MapInv
BY MapBegins, MapStays, PTL DEF MapSpec

(* Whatever the clock, the server, the network and the user do, in any     *)
(* order, the pages' state keeps its type.                                 *)
THEOREM MapTyped == MapSpec => []TypeOK
<1>1. MapInv => TypeOK
  BY PerimetersTyped, PageIsRight DEF MapInv, WaterInv, QueryInv, ViewInv, OfflineInv, TypeOK
<1>2. QED
  BY <1>1, MapAlways, PTL

(* At every frame the shapes drawn are the groups of perimeters that touch *)
(* (mergeOverlappingFires), and no shape is drawn over loaded water that   *)
(* was measured at that frame, unless it is water altogether or slope and  *)
(* noise stretch a fire beyond the 30 % of estimateMaxReachKm (clipToLand).*)
THEOREM PerimetersAreHeld == MapSpec => []PerimetersHold
<1>1. MapInv => PerimetersHold
  BY GroupsBridge, ShoreIsHeld DEF MapInv, PerimetersHold
<1>2. QED
  BY <1>1, MapAlways, PTL

(* What the map shows is of its own view, its own question and its own     *)
(* place, in whatever order the answers come (useWaterBodies,              *)
(* useDamsFromOSM, the fetching hooks, useTerrainBiasMap,                  *)
(* useGuestNotifications, FireMap).                                        *)
THEOREM DataIsShown == MapSpec => []MapShowsItsData
<1>1. MapInv => MapShowsItsData
  BY ViewFollows DEF MapInv, WaterInv, QueryInv, BiasInv, PlaceInv, MapShowsItsData
<1>2. QED
  BY <1>1, MapAlways, PTL

(* No queued action is lost, and one is taken once unless two replays meet *)
(* or a page closes in between (syncQueuedActions); the bar warns fairly   *)
(* and the map has the newest list (OfflineBar, syncFires).                *)
THEOREM OfflineIsHeld == MapSpec => []OfflineHolds
<1>1. MapInv => OfflineHolds
  BY OfflineIsRight DEF MapInv, OfflineHolds
<1>2. QED
  BY <1>1, MapAlways, PTL

(* The runs, the playback and the list of lines on the simulation page are *)
(* those of the fire and the result they are shown for, whatever is        *)
(* replaced, cancelled, saved or removed meanwhile (useSimulation,         *)
(* useContainmentLine, SimulationPage).                                    *)
THEOREM PageIsHeld == MapSpec => []PageHolds
<1>1. MapInv => PageHolds
  BY PageIsRight DEF MapInv, PageHolds
<1>2. QED
  BY <1>1, MapAlways, PTL

(* From a frame to the next a perimeter moves the way its status says      *)
(* (effectiveGrowthState), and a simulation that plays never shows an      *)
(* affected area that shrinks (SimulationResults).                         *)
THEOREM PicturesMove == MapSpec => PicturesMoveOneWay
<1>1. MapInv /\ MapInv' /\ [MapNext]_<<scene, allVars>>
      => [\A f \in LiveFires :
            LET old == frame.outline[f]  new == frame'.outline[f]
            IN  /\ frame.drawn /\ frame'.drawn /\ frame.weather = frame'.weather
                /\ f \in frame.biased <=> f \in frame'.biased
                /\ frame.report[f] = frame'.report[f]
                => CASE frame.report[f].status = "active" -> old \subseteq new
                     [] frame.report[f].status = "contained" -> old = new
                     [] frame.report[f].status = "extinguished" -> new \subseteq old]_perimeterVars
  <2> SUFFICES ASSUME MapInv, MapInv', [MapNext]_<<scene, allVars>>, NEW f \in LiveFires
               PROVE  MovesOneWay(f)
    BY DEF MovesOneWay
  <2>1. PerimetersNext \/ UNCHANGED perimeterVars
    BY ScenesStepAlone
  <2>2. PerimetersInv /\ PerimetersInv'
    BY DEF MapInv
  <2>3. QED
    BY <2>1, <2>2, PerimetersMove
<1>2. MapInv /\ [MapNext]_<<scene, allVars>>
      => [PlayTick /\ ~strayed /\ ~sought => PanelGrows(result.runs, tick, tick')]_workspaceVars
  BY PlaybackGoesOn DEF MapInv
<1>3. MapSpec => PerimetersMoveOneWay
  BY <1>1, MapAlways, PTL DEF MapSpec, PerimetersMoveOneWay
<1>4. MapSpec => AreaOnlyGrows
  BY <1>2, MapAlways, PTL DEF MapSpec, AreaOnlyGrows
<1>5. QED
  BY <1>3, <1>4 DEF PicturesMoveOneWay
=============================================================================
