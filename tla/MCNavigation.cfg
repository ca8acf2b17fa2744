SPECIFICATION Spec
SYMMETRY Places
CONSTANTS
  pA = pA
  pB = pB
  walking = walking
  driving = driving
  Points = {pA, pB}
  Profiles = {walking, driving}
  Default = walking
  None = None
  Waits = TRUE
  MaxIntents = 2
  MaxAccepts = 0
  MaxReroutes = 0
  MaxFaults = 0
  MaxLosses = 2
  MaxHides = 0
INVARIANTS
  StoreAgrees
PROPERTIES
  ChoiceSticks
  OnlyNewestShown
CHECK_DEADLOCK FALSE
