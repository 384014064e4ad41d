SPECIFICATION Spec
CONSTANTS
  Modulus = 8
  MaxAge = 3
  MaxExchanges = 9
  MaxFaults = 2
  IdSpace = 4
  MaxQueries = 4
  MaxAnswers = 2
  MaxResends = 1
  MaxOps = 2
  Cases = 4
  HeaderBytes = 2
  LengthLimit = 2
  MaxRecords = 3
INVARIANTS
  ExchangesAreOwn
  ClassicResultIsEarned
  SecureResultIsEarned
  PackagedDnsPasses
  TlsPassIsEarned
  PackagedTlsPasses
  RecordsAreCounted
PROPERTIES
  ExecutorEnds
  SecureDnsEnds
  TlsExecutorEnds
CHECK_DEADLOCK FALSE
