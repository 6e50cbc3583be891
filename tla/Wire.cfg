CONSTANTS
  Base = 11
  IntBytes = 2
  Place <- Places
  MaxLine = 8
  Result = 1
  NoFile = 2
  Lens = {0, 2, 3, 4}
  Strays = {0, 10}
  Nets <- AllNets
  OldTypes = {0}
  NWorkers = 2
  MaxReqs = 3
SPECIFICATION FairSpec
INVARIANTS TypeOK Settled ShownRight NoAbort
PROPERTY EveryRequestAnswered
CHECK_DEADLOCK FALSE
