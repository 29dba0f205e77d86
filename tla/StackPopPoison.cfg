SPECIFICATION Spec
CONSTANTS
  p1 = p1  p2 = p2  p3 = p3  v1 = v1  v2 = v2
  Procs = {p1, p2, p3}
  Size = 2
  Vals = {v1}
  POISON = POISON
  WaitArgs <- Wait
  MaxCrashes = 0
INVARIANTS
  PopDelivers
CHECK_DEADLOCK FALSE
