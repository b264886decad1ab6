SPECIFICATION FairSpec
CONSTANTS
  TasksCnt = 2
  HalTask = 1
  ZnpTask = 1
  NoFlag = "0"
  Ev = "ev"
  Timeouts = {1, 3}
  Debounce = 4
  MacTimeouts = {0, 2, 4}
  PmMinSleep = 1
  MaxSleepLoop = 3
  DeepAllowed = TRUE
  Builds = {"EB", "ZNP"}
  MaxTimeout = 5
  MaxLag = 1
  MaxStarts = 3
INVARIANTS
  NoWorkAsleep
  SleepOK
PROPERTIES
  TimersFire
CHECK_DEADLOCK FALSE
