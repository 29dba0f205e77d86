SPECIFICATION FairSpec
CONSTANTS
  c1 = c1  c2 = c2  a = a  b = b
  Controllers = {c1, c2}
  Paths <- MCPaths
  Existing <- MCExisting
  Intervals <- MCIntervals
  None = None
  MaxCommands = 2
  MaxRemoves = 1
INVARIANTS
  SetMatches
  NextBackupAhead
PROPERTIES
  KeepsBackingUp
  StoppedObeysKill
CHECK_DEADLOCK FALSE
