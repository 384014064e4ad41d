SPECIFICATION FairSchedulerSpec
CONSTANTS
  w1 = w1
  w2 = w2
  w3 = w3
  Workers <- ThreeWorkers
  Connections = 2
  StreamsPerConnection = 1
  MaxCalls = 2
INVARIANTS
  SlotsMatchHolders
  WaiterHasWaker
PROPERTY AcquireReturns
CHECK_DEADLOCK FALSE
