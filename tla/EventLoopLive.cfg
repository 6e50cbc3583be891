CONSTANTS
  Clients = {c1, c2, c3}
  Fds = {4, 5, 6}
  NSlots = 3
  NWorkers = 2
  MsgLen = 1
  Setups <- CalmSetups
  MaxQueue = 2
  NULL = NULL
SPECIFICATION FairSpec
PROPERTIES EveryRequestAnswered EveryLeaverClosed ServiceSpec
