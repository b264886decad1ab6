SPECIFICATION FairSpec
CONSTANTS
  Tasks = {"hal"}
  Flags = {"key", "led"}
  NoFlag = "0"
  IsrTask = "hal"
  IsrFlag = "key"
  Timeouts = {1, 3}
  MaxTimers = 2
  MaxLag = 2
  MaxStarts = 3
INVARIANTS
  ListOK
  TimersAccurate
PROPERTIES
  StopIsFinal
  TimersFire
