CONSTANTS
  Half = 8
  MAX_RW_COUNT = 4
  UIO_MAXIOV = 3
  UserVectors <- MCUserVectors
  Positions <- MCPositions
SPECIFICATION Spec
INVARIANTS
  TypeOK
  CutToLimit
  TransfersPrefix
  
  RefusesExactly
  ShortensExactly
CHECK_DEADLOCK FALSE
