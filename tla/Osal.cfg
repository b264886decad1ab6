SPECIFICATION FairSpec
CONSTANTS
  TasksCnt = 2
  b1 = b1
  b2 = b2
  b3 = b3
  Bufs = {b1, b2, b3}
  Flags = {"e"}
  SysEventMsg = "SYS_EVENT_MSG"
  NoBuf = NoBuf
  MaxCalls = 2
INVARIANTS
  BufferOwnership
  NoLostWakeup
PROPERTIES
  EventsNotLost
  ImplementsMailbox
  TopPriorityServed
