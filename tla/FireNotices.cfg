SPECIFICATION FairSpec
CONSTANTS
  u1 = u1  f1 = f1  f2 = f2
  Users = {u1}  Fires = {f1, f2}  Thresholds <- OneLadder
  Distances = {1, 7, 15}
  Sweeper = sweeper  NoOne = NoOne  NoFire = NoFire
  MaxMoves = 2  MaxGrowth = 1  MaxDecisions = 2
INVARIANTS NoticesTypeOK 
PROPERTIES EveryTierIsTold
