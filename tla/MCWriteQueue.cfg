SPECIFICATION FairSpec
CONSTANTS
  NoWrite = NoWrite
  MayRefuse = TRUE
  MaxIssued = 3
  MaxLinks = 2
  MaxRetries = 2
INVARIANTS
  Inv
  Ordered
PROPERTIES
  StopNotSwallowed
  Drains
CHECK_DEADLOCK FALSE
