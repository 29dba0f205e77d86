SPECIFICATION FairSpec
CONSTANTS
  s1 = s1  s2 = s2  r = r
  Senders = {s1}
  Receiver = r
  None = None
  Word = 2
  IntWidth = 4
  Sizes <- PartialSizes
  MaxInts = 1
PROPERTIES
  DeathPropagates
CHECK_DEADLOCK FALSE
