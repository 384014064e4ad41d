SPECIFICATION FairPhaseSpec
CONSTANTS
  w1 = w1
  w2 = w2
  Workers <- TwoWorkers
  Connections = 1
  StreamsPerConnection = 2
  MaxCalls = 1
  PeerLimits = {2}
PROPERTY AcceptedWasInFlight
CHECK_DEADLOCK FALSE
