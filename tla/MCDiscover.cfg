SPECIFICATION Spec
CONSTANTS
  NULL = NULL
  Calls = {c1, c2}
  AddressBits = 3
  Self = 5
  PrefixLen = 0
  HostCap = 8
  ChunkSize = 3
  Listen = 1
  Timeouts = {1, 3}
  Scopes <- MCScopes
  Consents = {NULL, "sha256"}
  Alive = {2}
  Heard <- MCHeard
  Invalid = {0}
  MaxClock = 3
INVARIANTS
  SecondPassComesSecond
  
SYMMETRY AlikeCalls
CHECK_DEADLOCK FALSE
