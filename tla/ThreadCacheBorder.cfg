CONSTANTS
  Threads = {t1, t2}
  Sizes = {60}
  Batch = 2
  ObjsPerSpan = 3
  MaxSpans = 2
  Addr <- MCAddr
  NULL = NULL
SPECIFICATION Spec
INVARIANT NoCrash
SYMMETRY ThreadSymmetry
CHECK_DEADLOCK FALSE
