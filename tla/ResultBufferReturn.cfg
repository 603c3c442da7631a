SPECIFICATION Spec
CONSTANTS
  BufLen = 20
  ResultLens <- MCResultLens
  Answers <- MCAnswers
  OtherErrors <- NegativeErrors
  CanFault = TRUE
INVARIANTS
  ErrorsAreNegative
CHECK_DEADLOCK FALSE
