CONSTANTS
  Records <- ThreeRows
  PageSize = 1
  MaxPages = 1
  Now = 2
  MaxEdits = 4
  From = 1
  To = 3
SPECIFICATION FairSpec
INVARIANTS WindowIsRead
PROPERTIES ReaderAdvances
CHECK_DEADLOCK FALSE
