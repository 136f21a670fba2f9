SPECIFICATION FairSpec
CONSTANTS
  NULL = NULL
  Packets = {k1, k2, k3}
  MaxStarts = 2
  MaxClock = 1
  MaxCrashes = 1
  MaxFaults = 1
  Dirs = {primary}
  RingSize = 1
  FlushEvery = 2
INVARIANTS
  
  SavedFileKept
  
PROPERTIES
  StopFlushesAll
  
  Refinement
CHECK_DEADLOCK FALSE
