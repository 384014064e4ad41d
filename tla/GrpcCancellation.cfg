SPECIFICATION GrpcSpec
CONSTANTS
  StreamMessages = 3
  ChannelOps = 3
  Window = 1
  Pauses = {0}
  Times = {5}
INVARIANT CancellationIsClients
CHECK_DEADLOCK FALSE
