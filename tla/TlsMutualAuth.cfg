SPECIFICATION TlsSpec
CONSTANTS
  MaxOps = 2
  Cases = 4
INVARIANT MutualAuthIsMutual
CHECK_DEADLOCK FALSE
