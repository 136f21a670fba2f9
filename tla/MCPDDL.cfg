SPECIFICATION JudgeSpec
CONSTANTS
  NULL = NULL
  Types <- MCTypes
  Scopes <- MCScopes
  Targets <- MCTargets
  MaxClock = 2
  Limit = 1
INVARIANTS
  VerdictMatchesRules
CHECK_DEADLOCK FALSE
