SPECIFICATION FairSpec
CONSTANTS
  Requests = {r1, r2}
  Apps = {a1}
  Refused = Refused
  NoLock = NoLock
  MaxRev = 1
CHECK_DEADLOCK FALSE
INVARIANTS MutualExclusion CleanExit AnnouncedRevisionRuns NoLostLock NoLostAnswer
PROPERTIES NoSpawnDuringWait NeverBackwards ImplementsDeployQueue QueuedDeployEnds PublishedSignalEnds
