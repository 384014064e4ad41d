SPECIFICATION SecureDnsSpec
CONSTANTS
  IdSpace = 4
  MaxQueries = 4
  MaxAnswers = 2
  MaxResends = 1
INVARIANT OneReusedConnection
CHECK_DEADLOCK FALSE
