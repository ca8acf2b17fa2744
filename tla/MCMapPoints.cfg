SPECIFICATION MapSpec
CONSTANTS
  wide = wide
  near = near
  far = far
  p = p
  q = q
  Areas = {wide, near, far}
  Covered <- Zoom
  Crowded = {far}
  Ids = {p, q}
  Existing = {p}
  In <- Lists
  None = None
  Lost = Lost
  MaxIdles = 3
  MaxChanges = 2
  MaxTaps = 1
  MaxLosses = 1
INVARIANTS
  MapInv
  ReadReconciles
PROPERTIES
  ReadsInOrder
  NewestTargetRead
CHECK_DEADLOCK FALSE
