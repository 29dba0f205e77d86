SPECIFICATION FairSpec
CONSTANTS
  p1 = p1  p2 = p2  p3 = p3  v1 = v1  v2 = v2
  Procs = {p1, p2, p3}
  Size = 2
  Vals = {v1, v2}
  POISON = POISON
  WaitArgs <- NoWait
  MaxCrashes = 1
INVARIANTS
  ConsistentWhenFree
PROPERTIES
  AtomicSpec
  CallsReturn
CHECK_DEADLOCK FALSE
