SPECIFICATION Spec
CONSTANTS
  NULL = NULL
  MaxStarts = 3
  MaxStops = 3
  MaxDeaths = 1
  MaxPackets = 2
INVARIANTS
  
  RowsMatchLoops
CHECK_DEADLOCK FALSE
