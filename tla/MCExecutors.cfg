SPECIFICATION Spec
CONSTANTS
  Scenarios <- TwoScenarios
  MaxRuns = 2
  Requests = 1
  StreamMessages = 3
  ChannelOps = 3
  Window = 1
  Pauses = {1, 2}
  Times = {1, 2, 3, 4, 5, 6, 24, 25, 26, 27, 28}
  Modulus = 3
  BufferLength = 2
  Credit = 2
  MaxLength = 6
  maxReadBytes = 5
  c1 = c1
  c2 = c2
  Conns <- TwoConns
  Streams = 2
  MaxBatches = 2
INVARIANTS
  ExecutorResultIsEarned
  EvidenceIsOrdered
  Http1ResultIsEarned
  GrpcPassIsEarned
  PackagedGrpcPasses
  OutcomeIsExact
  BatchAddsUp
  LoadResultIsMeasured
PROPERTIES
  GrpcExecutorEnds
  StreamReturns
  LoadEnds
CHECK_DEADLOCK FALSE
