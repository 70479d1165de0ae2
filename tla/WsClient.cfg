SPECIFICATION Spec
CONSTANTS
  MaxRequests = 3
  MaxOutstanding = 2
  MaxPushes = 2
  MaxConnections = 2
  MaxWire = 2
INVARIANTS NoResponseAcrossConnections PushesConserved OkMeansAccepted
PROPERTY ImplementsRequestLife
CHECK_DEADLOCK FALSE
