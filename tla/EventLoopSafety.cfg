CONSTANTS
  Clients = {c1, c2, c3}
  Fds = {4, 5, 6}
  NSlots = 3
  NWorkers = 2
  MsgLen = 2
  Setups <- AllSetups
  MaxQueue = 1
  NULL = NULL
SPECIFICATION Spec
INVARIANTS TypeOK RightClient BytesConserved PoolSound NoneForgotten NoAbort
SYMMETRY ClientSymmetry
CHECK_DEADLOCK FALSE
