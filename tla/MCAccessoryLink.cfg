SPECIFICATION FairSpec
CONSTANTS
  Caps = {c1, c2}
  Values = {v1, v2}
  Settings <- OneChanges
  c1 = c1
  c2 = c2
  v1 = v1
  v2 = v2
  Handles = {d1}
  None = None
  MayRefuse = TRUE
  MayJam = TRUE
  MaxSessions = 2
  MaxRequests = 4
  MaxPosted = 2
  MaxUnsaid = 1
INVARIANTS
  Inv
  Agreed
PROPERTIES
  RequestResolves
  DemandIsSent
CHECK_DEADLOCK FALSE
