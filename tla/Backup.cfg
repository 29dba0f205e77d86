SPECIFICATION Spec
CONSTANTS
  root = root  dirA = dirA  dirB = dirB  fileB = fileB  linkA = linkA
  Root = root
  Keys = {root, dirA, dirB}
  Regular = {fileB}
  Special = {linkA}
  Parent <- TreeParent
  TableSize = 2
  MaxWatches = 4
  Elements <- TheElements
  Null = Null
  MaxChanges = 3
  MaxModes = 3
INVARIANTS
  TypeOK
  LinksAgree
  InstancesMatch
  VersionClosed
  FullComplete
  NothingMissed
PROPERTIES
  BackupEnds
CHECK_DEADLOCK FALSE
