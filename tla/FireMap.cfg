\* Three fires with a dam and a river; three views; two keys; one network;
\* two drawn and one suggested line, two fires, two requests at a time.
SPECIFICATION MapSpec
CONSTANTS
  f1 = f1 f2 = f2 f3 = f3 dam = dam river = river
  v1 = v1 v2 = v2 v3 = v3 g1 = g1 g2 = g2 g3 = g3 g4 = g4 c1 = c1 c2 = c2 l1 = l1 l2 = l2 s1 = s1
  FireList <- List
  Place <- PlaceOf
  Size <- SizeOf
  Ignited <- IgnitedAt
  Noise <- NoiseOf
  Slope <- SlopeOf
  Weathers <- CalmOrDry
  DefaultWeather <- Calm
  Dams = {dam}
  Rivers = {river}
  Shore <- ShoreOf
  MaxRadius = 6
  BaseRate = 1
  EaseInTime = 2
  FadeTime = 2
  MaxClock = 5
  MaxChanges = 1
  MaxMoves = 1
  Views = {v1, v2, v3}
  FarViews = {v3}
  Fragments = {g1, g2, g3, g4}
  InView <- Tiles
  BodyOf <- Body
  AreaOf <- Area
  NameOf <- Named
  NoName = NoName
  minArea = 2
  MaxFragments = 3
  Within <- Bounds
  MaxViewMoves = 3
  NoView = NoView
  Keys = {v1, v2}
  NoKey = NoKey
  MaxAsks = 4
  BiasFires = {f1, f2, f3}
  BiasPlace <- SamePlace
  Places = {v1, v2}
  NoPlace = NoPlace
  FiresAt <- Found
  MaxSends = 4
  MapFires = {f1, f2}
  Resources = {g1}
  SavedPlaces = {v1}
  Nothing = Nothing
  Home = Home
  Here = Here
  Histories <- ShortAndLong
  Cells = {c1, c2}
  MaxTicks = 2
  MaxSteps = 5
  Actions = {g1, g2}
  Incidents = {f1, f2}
  Verified = {f1}
  Lists = {{}, {f1}, {f1, f2}}
  MaxProbes = 1
  MaxReplays = 2
  MaxOutages = 2
  MaxCloses = 1
  MaxReads = 2
  NoFire = NoFire
  NoRun = NoRun
  NoResult = NoResult
  NoFetch = NoFetch
  Fires = {f1, f2}
  RunIds = {1, 2}
  Outcomes <- AnyOutcome
  TicksPerHour = 2
  ForecastHours = 1
  MaxSeeks = 2
  Lines = {l1, l2, s1}
  Proposals = {s1}
  AssignedTo <- NearFire
INVARIANTS
  TypeOK
  
  
  OfflineHolds
  PageHolds
PROPERTIES
  
  MapCatchesUp
CHECK_DEADLOCK FALSE
