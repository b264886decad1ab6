SPECIFICATION Spec
CONSTANTS
  Frames <- SomeFrames
  Channels = {11, 12}
  MaxBackoffs = 1
  FifoSize = 3
  MaxTx = 1
  MaxFrames = 2
  MaxRequests = 2
INVARIANTS DriverOK CompletedOnce QuietIsSettled
PROPERTIES EveryTransmitEnds
CHECK_DEADLOCK FALSE
