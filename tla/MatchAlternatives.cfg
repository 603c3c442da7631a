SPECIFICATION Spec
CONSTANTS
  MaxNest = 3
  PathLen = 5
  PattLen = 4
  NameChars = {"a", "b"}
  Pathnames <- MCPathnames
  Patterns <- MCPatterns
INVARIANTS
  AlternativesJoin
CHECK_DEADLOCK FALSE
