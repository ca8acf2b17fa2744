SPECIFICATION Spec
CONSTANTS
  a = a
  b = b
  Inputs = {a, b}
  Default = a
  Hours = 2
  None = None
  Partial = Partial
  Budgets <- Mixed
INVARIANTS
  Inv
  NothingForgotten
PROPERTIES
  Converges
CHECK_DEADLOCK FALSE
