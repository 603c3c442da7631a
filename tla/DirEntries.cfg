SPECIFICATION Spec
CONSTANTS
  Names <- MCNames
  DirNames <- MCDirNames
  NSlots = 3
  MaxChanges = 2
  SEARCH_BUF = 7
  Tails <- Terminated
INVARIANTS
  TypeOK
  FillInBounds
  StableVisitedOnce
  NothingInvented
PROPERTIES
  ImplementsStream
  ScanEnds
CHECK_DEADLOCK FALSE
