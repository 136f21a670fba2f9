SPECIFICATION FairSpec
CONSTANTS
  NULL = NULL
  Tasks = {t1, t2}
  MaxCalls = 2
  MaxTokens = 2
  PeriodSecs = 1
  MaxConcurrent = 1
  RateMax = 2
  RateWindow = 1
  Tokens = 2
  MaxClock = 2
  MaxRequests = 4
INVARIANTS
  SlotsBalance
  OvershootBounded
  TokensBounded
  EveryRequestCountedOnce
  RateAtMostTwoWindows
  
PROPERTIES
  RequestsReturn
CHECK_DEADLOCK FALSE
