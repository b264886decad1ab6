SPECIFICATION Spec
CONSTANTS
  a = a
  b = b
  e = e
  INVALID_PARTNER_ADDR = none
  MAX_KEY_ESTABLISHMENT_REC_ENTRY = 2
  KeyRoom = 1
  RecExpiryTime = 2
  EKeyTime = 1
  KeyTime = 1
  MacTime = 1
  MaxFaults = 1
  Devices <- MCDevices
  Plans <- MCPlans
INVARIANT SessionsOK
PROPERTY RecordsExpire
CHECK_DEADLOCK FALSE
