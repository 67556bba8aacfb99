SPECIFICATION FairSpec
CONSTANTS
  T = {t1, t2}
  Removals = TRUE
  Faults = TRUE
  MaxProgress = 1
  MaxEvents = 1
INVARIANTS
  WaitingIsOwed
  StopSaved
PROPERTIES
  FileNeverGoesBack
  StopEnds
  KeptProgressReachesFile
CHECK_DEADLOCK FALSE
