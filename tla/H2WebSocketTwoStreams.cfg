SPECIFICATION FairSessionSpec
CONSTANTS
  Flags = {TRUE}
  StreamCount = 2
  MessageCount = 1
  Capacity = 1
  Window = 2
  MaxGroups = 1
  MaxFaults = 1
INVARIANTS
  SessionReportIsTrue
PROPERTIES
  SessionEnds
  EchoPeerPasses
CHECK_DEADLOCK FALSE
