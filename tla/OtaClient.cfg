SPECIFICATION Spec
CONSTANTS
  Versions = {"v1", "v2", "v3"}
  Corrupt = {"v3"}
  First = "v1"
  Offered = {"v2", "v3"}
  NBlocks = 3
  PageBlocks = 2
  CrcBlock = 1
  MaxFails = 2
  WindowFails = FALSE
  MaxBlockRetries = 1
  MaxEndRetries = 1
  HourMinutes = 1
  NetMax = 1
  MaxWaits = 1
  BlockBeforeReset = FALSE
INVARIANTS
  DownloadOK
PROPERTIES
  ImplementsInstall
  DownloadEnds
CHECK_DEADLOCK FALSE
