SPECIFICATION Spec
CONSTANTS
  MaxText = 6
  Texts <- TheTexts
  MaxCommands = 3
  Capacity = 1
  MaxItems = 3
  MaxFails = 1
INVARIANTS
  OnlyNeighbours
  ParsedAsMeant
  NobodyStuck
PROPERTIES
  EveryoneEnds
