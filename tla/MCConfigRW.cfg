SPECIFICATION Spec
CONSTANTS
  Readers = {r1}
  Writers = {1, 2}
  Background = bg
  NoBase = NoBase
  Chunks = 2
  Stragglers = FALSE
  MaxPosted = 1
  MaxSessions = 1
  MaxDrops = 1
  MaxMishaps = 1
  MaxForeign = 1
  MaxCalls = 2
INVARIANTS
  Inv
  MismatchClears
PROPERTIES
  OthersSurvive
  SuccessIsTrue
CHECK_DEADLOCK FALSE
