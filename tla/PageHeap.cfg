CONSTANTS
  Threads = {t1, t2}
  NPages = 5
  MaxBin = 3
  Requests = {1, 2, 3}
  SpanPages = 2
  ObjsPerSpan = 2
  MaxSpans = 4
  NULL = NULL
SPECIFICATION Spec
INVARIANTS TypeOK RadixExact BinsExact Coalesced
PROPERTY HeapSpec
SYMMETRY ThreadSymmetry
CHECK_DEADLOCK FALSE
