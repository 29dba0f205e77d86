SPECIFICATION FairSpec
CONSTANTS
  p1 = p1  p2 = p2  p3 = p3
  Procs = {p1, p2, p3}
  Sizes = {1}
  MaxAttaches = 3
  Marks = TRUE
INVARIANTS
  TypeOK
  SetupBeforeUse
  LockConserved
PROPERTIES
  KeepsSet
  CallsComplete
CHECK_DEADLOCK FALSE
