CONSTANTS
  Base = 11
  IntBytes = 2
  Place <- Places
  MaxLine = 10
  Result = 1
  NoFile = 2
  Lens = {0, 2, 5}
  Strays = {0}
  Nets <- GoodNets
  OldTypes = {1}
  NWorkers = 1
  MaxReqs = 3
SPECIFICATION Spec
INVARIANT NoFileTrue
CHECK_DEADLOCK FALSE
