SPECIFICATION Spec
CONSTANTS
  MaxOps = 3
  MaxRounds = 2
  MaxQueued = 2
INVARIANTS
  OperationResultIsEarned
  AcceptedIsOneToOne
  PackagedPairPasses
PROPERTIES
  EndsUnlessSilent
  WebSocketExecutorEnds
CHECK_DEADLOCK FALSE
