SPECIFICATION FairPhaseSpec
CONSTANTS
  w1 = w1
  w2 = w2
  Workers <- TwoWorkers
  Connections = 2
  StreamsPerConnection = 1
  MaxCalls = 2
  PeerLimits = {0, 1}
INVARIANTS
  RecorderMatchesWorkers
  BarrierProvesShape
  AcquireNeverWaits
  ReturnsQuiescent
  VerdictIsAboutThePeer
PROPERTIES
  ImplementsGatedPhase
  PhaseReturnsOrWorkerMissed
CHECK_DEADLOCK FALSE
