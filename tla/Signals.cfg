SPECIFICATION Spec
CONSTANTS
  s1 = s1  s2 = s2  r = r
  Senders = {s1, s2}
  Receiver = r
  None = None
  Word = 2
  IntWidth = 3
  Sizes <- AllSizes
  MaxInts = 2
INVARIANTS
  TypeOK
  PrefixCorrect
  StopAndWait
  OneSender
  OkMeansComplete
CHECK_DEADLOCK FALSE
