SPECIFICATION Spec
CONSTANTS
  NULL = NULL
  MaxStarts = 2
  MaxStops = 2
  MaxDeaths = 0
  MaxPackets = 1
INVARIANT StoppedMeansStopped
CHECK_DEADLOCK FALSE
