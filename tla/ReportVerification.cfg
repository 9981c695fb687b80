\* With one corroborating report enough, three reports do what four would
\* with two.
SPECIFICATION FairSpec
CONSTANTS
  r1 = r1  r2 = r2  r3 = r3  ann = ann  bob = bob
  Anonymous = Anonymous  NoReport = NoReport
  Reports = {r1, r2, r3}  Author <- TwiceAnn
  Near <- Neighbours  Close <- OnePlace  SamePhoto <- OnePicture
  Unfit = {}  Water = {}  Hasty = {}
  MinCorroborating = 1
  MaxRunning = 2  Decided <- Decisions  MaxDecisions = 1
INVARIANTS TypeOK DuplicateLeavesOne
PROPERTIES EveryVerificationEnds RejectedStays
CHECK_DEADLOCK FALSE
