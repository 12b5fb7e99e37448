SPECIFICATION FairSpec
CONSTANTS
  Requests = {r1, r2}
  Apps = {a1}
  Refused = Refused
  NoLock = NoLock
  MaxRev = 0
CHECK_DEADLOCK FALSE
PROPERTIES ShutdownStops
