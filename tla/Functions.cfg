CONSTANTS
  MaxSize = 40000
  Chars <- SomeChars
  MaxText = 4
SPECIFICATION BothSpec
INVARIANTS ClassSound SpanNotFree TokensRight CompareOrders
CHECK_DEADLOCK FALSE
