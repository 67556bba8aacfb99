SPECIFICATION Spec
CONSTANTS
  T = {t1, t2}
  Removals = FALSE
  Faults = FALSE
  MaxProgress = 1
  MaxEvents = 2
INVARIANT
  StopSavesAll
CHECK_DEADLOCK FALSE
