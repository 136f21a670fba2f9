SPECIFICATION FairSpec
CONSTANTS
  Domain = "example"
  RecordTypes <- TypesAsked
  Words <- WordList
  Paths <- TwoPaths
  Zone <- SmallZone
  Ports = {p1, p2}
  Concurrency = 2
  StatusCodes = {200}
INVARIANTS
  ReportTellsZone
  ReportComplete
PROPERTIES
  EnumerationReturns
  WorkRunsOut
CHECK_DEADLOCK FALSE
