CONSTANTS
  Half = 16
  MAX_RW_COUNT = 4
  file1 = file1
  thread1 = thread1
  file2 = file2
  Threads = {thread1, thread2}
  Files = {file1, file2}
  NoThread = NoThread
  Systems <- MCSystems
  MaxRetries = 2
SPECIFICATION Spec
INVARIANTS
  TypeOK
  NoGap
  SeeksAddUp
  AppendsDisjoint
  PositionValid
  ReturnsWhatMoved
PROPERTIES
  CallsReturn
CHECK_DEADLOCK FALSE
