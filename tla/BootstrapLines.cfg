CONSTANTS
  Words = {1, 2}
  NFiles = 2
  MaxLines = 2
  MaxWords = 2
  MaxTotal = 4
SPECIFICATION Spec
INVARIANT AllLinesRead
CHECK_DEADLOCK FALSE
