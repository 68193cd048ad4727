SPECIFICATION FairSpec
CONSTANTS
  NumCPU = 1
  MaxInputs = 4
  Errors <- MCErrors
  NoError = "nil"
INVARIANTS
  VerdictRight
  ItemsAccounted
PROPERTIES
  NoHandlerLeft
CHECK_DEADLOCK FALSE
