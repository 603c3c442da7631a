SPECIFICATION Spec
CONSTANTS
  NNodes = 6
  DirNodes <- BusyDirs
  NoRead <- None
  NoExec <- None
  Untyped <- None
  NewNames <- BusyNames
  MaxChanges = 0
  Trees <- Chain
  PathLists <- BusyPaths
  Patterns <- OnlyLiteral
  FlagSets <- NoFlags
  BufLen = 30
  TREE_DEPTH = 2
  MaxNest = 8
  BatchSize = 3
  StatLen = 3
  NativeDirs <- None
  Answers <- None
  CanFail = FALSE
INVARIANTS
  AlwaysReleasesAll
CHECK_DEADLOCK FALSE
