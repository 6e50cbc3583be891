CONSTANTS
  Threads = {t1, t2}
  Sizes = {60, 64, 100, 2000}
  Batch = 1
  ObjsPerSpan = 2
  MaxSpans = 2
  Addr <- MCAddr
  NULL = NULL
SPECIFICATION Spec
INVARIANTS TypeOK OwnCache NeverTwice NoneLost LengthsTrue LargeEnough
SYMMETRY ThreadSymmetry
CHECK_DEADLOCK FALSE
