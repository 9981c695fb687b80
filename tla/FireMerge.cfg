SPECIFICATION FairSpec
CONSTANTS
  f1 = f1  f2 = f2  f3 = f3  NoFire = NoFire
  Fires = {f1, f2, f3}  Age <- InOrder  Meeting <- InARow
  Scheduler = scheduler  Sweeps = {scheduler, listing}
  Debounce = 1  Changing = {f3}  MaxChanges = 1
INVARIANTS TypeOK NoCircle
PROPERTIES OverlapEndsInMerge NoHastyMerge
