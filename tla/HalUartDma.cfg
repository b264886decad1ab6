SPECIFICATION FairSpec
CONSTANTS
  RxMax = 4
  TxMax = 2
  High = 2
  Full = 3
  IdleTicks = 3
  TxTick = 2
  CharTicks = 2
  St0Size = 8
  MaxGap = 4
  MaxTx = 4
  MaxRx = 5
  Lengths = {1, 2}
INVARIANTS
  UartOK
  BytesInOrder
PROPERTIES
  AllAreTaken
  SlowPollsDrain
