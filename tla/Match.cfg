SPECIFICATION Spec
CONSTANTS
  MaxNest = 3
  PathLen = 6
  PattLen = 5
  NameChars = {"a", "b"}
  Pathnames <- MCPathnames
  Patterns <- MCPatterns
INVARIANTS
  ExactForOneAlternative
  SoundForAlternatives
  DescentReaches
  LimitIsSafe
CHECK_DEADLOCK FALSE
