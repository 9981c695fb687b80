\* A fire is put out and burns again within three minutes.
SPECIFICATION Spec
CONSTANTS
  f1 = f1  f2 = f2  f3 = f3  NoFire = NoFire
  Fires = {f1, f2}  Age <- TwoInOrder  Meeting <- Both
  Scheduler = scheduler  Sweeps = {scheduler}
  Debounce = 3  Changing = {f1}  MaxChanges = 2
PROPERTIES ContinuousOverlap
