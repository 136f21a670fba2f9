SPECIFICATION FairSpec
CONSTANTS
  NULL = NULL
  MaxSessions = 2
  MaxClock = 1
  Retentions = {0}
  MaxSaves = 2
  KeyCount = 3
  MaxItems = 2
  MaxScans = 2
  MaxWork = 2
  Calls = {1, 2}
  NmapOutputs <- MCNmapOutputs
  NucleiOutputs <- MCNucleiOutputs
  MaxCrashes = 1
INVARIANTS
  NoOrphans
  BatchInOneSession
  SettingsTearInOrder
  AuditKeepsPorts
  
PROPERTIES
  
  PagesRecover
CHECK_DEADLOCK FALSE
