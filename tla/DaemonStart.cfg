SPECIFICATION Spec
CONSTANTS
  d1 = d1  d2 = d2  d3 = d3
  Daemons = {d1, d2, d3}
  MaxFd = 8
  Starts <- TheStarts
  None = None
INVARIANTS
  TypeOK
  OneDaemon
  ServerReached
PROPERTIES
  RefusedOnlyIfTaken
CHECK_DEADLOCK FALSE
