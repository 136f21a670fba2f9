SPECIFICATION FairSpec
CONSTANTS
  NULL = NULL
  Messages <- MCMessages
INVARIANTS
  ReadsInside
  
PROPERTIES
  Returns
  TurnsRunOut
CHECK_DEADLOCK FALSE
