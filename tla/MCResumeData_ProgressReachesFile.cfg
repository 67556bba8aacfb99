SPECIFICATION FairSpec
CONSTANTS
  T = {t1, t2}
  Removals = TRUE
  Faults = FALSE
  MaxProgress = 1
  MaxEvents = 1
PROPERTY
  ProgressReachesFile
CHECK_DEADLOCK FALSE
