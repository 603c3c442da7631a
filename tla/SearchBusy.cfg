SPECIFICATION Spec
CONSTANTS
  NNodes = 6
  DirNodes <- BusyDirs
  NoRead <- None
  NoExec <- None
  Untyped <- None
  NewNames <- BusyNames
  MaxChanges = 2
  Trees <- Chain
  PathLists <- BusyPaths
  Patterns <- BusyPatterns
  FlagSets <- BusyFlags
  BufLen = 30
  TREE_DEPTH = 2
  MaxNest = 8
  BatchSize = 3
  StatLen = 3
  NativeDirs <- Node4
  Answers <- BusyAnswers
  CanFail = TRUE
INVARIANTS
  TypeOK
  DepthBound
  ReleasesAll
  MissingIsSkipped
PROPERTIES
  UsesBuffer
  Returns
CHECK_DEADLOCK FALSE
