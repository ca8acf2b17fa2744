SPECIFICATION Spec
CONSTANTS
  pA = pA
  pB = pB
  walking = walking
  driving = driving
  Points = {pA, pB}
  Profiles = {walking}
  Default = walking
  None = None
  Waits = TRUE
  MaxIntents = 1
  MaxAccepts = 1
  MaxReroutes = 2
  MaxFaults = 1
  MaxLosses = 0
  MaxHides = 1
INVARIANTS
  Inv
PROPERTIES
  NewestRequest
  AcceptedHeld
  PathKept
CHECK_DEADLOCK FALSE
