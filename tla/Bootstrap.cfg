CONSTANTS
  Words = {1, 2, 3, 4}
  NFiles = 2
  MaxLines = 2
  MaxWords = 2
  MaxTotal = 4
SPECIFICATION Spec
INVARIANTS TypeOK DictionaryOrder CountsTrue IndexComplete SearchFindsDocs
CHECK_DEADLOCK FALSE
