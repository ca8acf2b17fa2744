SPECIFICATION Spec
SYMMETRY Alike
CONSTANTS
  b1 = b1
  b2 = b2
  p1 = p1
  p2 = p2
  q1 = q1
  n1 = n1
  f = f
  v0 = v0
  v1 = v1
  v2 = v2
  Boards = {b1, b2}
  Profiles = {p1, p2, q1, n1}
  Fields = {f}
  Values = {v0, v1, v2}
  Home <- TwoHomes
  First = b1
  Factory = v0
  Null = Null
  Failed = Failed
  Budgets <- Both
INVARIANTS
  Inv
PROPERTIES
  LatestLoad
  EditsKept
CHECK_DEADLOCK FALSE
