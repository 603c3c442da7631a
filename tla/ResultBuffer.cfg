SPECIFICATION Spec
CONSTANTS
  BufLen = 20
  ResultLens <- MCResultLens
  Answers <- MCAnswers
  OtherErrors <- MCOtherErrors
  CanFault = TRUE
INVARIANTS
  TypeOK
  AtMostOneNulBehind
  AlwaysFramed
  FinalString
CHECK_DEADLOCK FALSE
