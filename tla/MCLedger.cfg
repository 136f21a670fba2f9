SPECIFICATION FairSpec
CONSTANTS
  NULL = NULL
  Threads = {t1, t2}
  Handles = {h1}
  HandleOf <- OneHandle
  Requests <- MCRequests
  MaxLog = 2
  MaxRestarts = 1
INVARIANTS
  ChainIntact
  ReceiptsHold
  TamperingFound
PROPERTIES
  AppendReturns
  Refinement
CHECK_DEADLOCK FALSE
