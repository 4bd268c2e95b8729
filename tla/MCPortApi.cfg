CONSTANTS
  None = None
  Methods = {"get", "query", "qsub"}
  MaxConnections = 2
  MaxPages = 2
  MaxRequests = 2
  MaxInFlight = 1
SPECIFICATION FairSpec
INVARIANT TypeOK
INVARIANT BridgeKept
INVARIANT NoOrphanOperation
PROPERTY Answered
CHECK_DEADLOCK FALSE
