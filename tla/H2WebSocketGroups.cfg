SPECIFICATION SessionSpec
CONSTANTS
  Flags = {TRUE, FALSE}
  StreamCount = 1
  MessageCount = 2
  Capacity = 2
  Window = 4
  MaxGroups = 1
  MaxFaults = 3
INVARIANT PassedIsOneToOne
CHECK_DEADLOCK FALSE
