CONSTANTS
  NThreads = 2
  Fds = {4, 5, 6}
  Bufs = {b1, b2, b3}
  NULL = NULL
  Garbage = Garbage
SPECIFICATION FairSpec
INVARIANTS TypeOK RightRecipient NoLostRequest OneOwner
PROPERTIES ServiceSpec EveryRequestAnswered
