SPECIFICATION Spec
CONSTANTS
  Names <- MCNames
  DirNames <- MCDirNames
  NSlots = 3
  MaxChanges = 0
  SEARCH_BUF = 7
  Tails <- Padded
INVARIANTS
  NothingInvented
CHECK_DEADLOCK FALSE
