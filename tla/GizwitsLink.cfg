SPECIFICATION FairSpec
CONSTANTS
  RbCapacity = 12
  Chunk = 4
  SendMax = 1
  FirstSn = 255
  Values = 1
  Extras = 1
  MaxLost = 1
INVARIANTS
  LinkOK
PROPERTIES
  Settles
  FreedForAReason
CHECK_DEADLOCK FALSE
