SPECIFICATION Spec
CONSTANTS
  NNodes = 6
  DirNodes <- QuietDirs
  NoRead <- Node4
  NoExec <- None
  Untyped <- Node5
  NewNames <- None
  MaxChanges = 0
  Trees <- QuietTrees
  PathLists <- QuietPaths
  Patterns <- QuietPatterns
  FlagSets <- QuietFlags
  BufLen = 80
  TREE_DEPTH = 2
  MaxNest = 8
  BatchSize = 2
  StatLen = 3
  NativeDirs <- None
  Answers <- None
  CanFail = FALSE
INVARIANTS
  PathTracks
  FindsAllOnce
  FindsOnlyMatches
  AtMostOne
  StopsAtFirst
  RecordsCounted
CHECK_DEADLOCK FALSE
