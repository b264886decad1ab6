CONSTANTS
  Devices = {d1, d2}
  Shorts = {s1, s2, s3}
  Children = {d1}
  NoMac = NoMac
  MaxMiss = 3
  MaxGap = 2
  Batch = 1
  MaxEvents = 2
SPECIFICATION FairSpec
INVARIANTS TableOK CursorValid
PROPERTIES RemovedOnlyIfSilent TableAndPhoneConverge
