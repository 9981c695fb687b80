\* Two places, two reports or resources or saved places at a time; two
\* notices and a page of one more.
SPECIFICATION PagesSpec
CONSTANTS
  p1 = p1 p2 = p2 t1 = t1 t2 = t2 s1 = s1 s2 = s2
  Places = {p1, p2}
  Origin = Origin
  Nowhere = Nowhere
  MaxClicks = 2
  MaxReports = 2
  CrewMax = 1
  WaterMax = 2
  MaxResources = 2
  MaxPins = 1
  MAX_LOCATIONS = 1
  MaxAdds = 2
  Statuses = {s1, s2}
  FirstStatus = s1
  MaxStatusChanges = 3
  MaxNotices = 2
  MaxFetches = 2
  PageSize = 1
SYMMETRY Symmetric
INVARIANTS
  TypeOK
  
  TabsHold
PROPERTIES
  NoticesStay
CHECK_DEADLOCK FALSE
