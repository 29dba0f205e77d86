SPECIFICATION Spec
CONSTANTS
  MAX_LEN = 3
  MaxFile = 7
  Files <- TheFiles
INVARIANTS
  TypeOK
  WordsInOrder
  ReplacedIfDivisible
