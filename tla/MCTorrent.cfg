SPECIFICATION Spec
CONSTANTS
  MaxAlerts = 2
INVARIANTS
  StateIsCurrent
  PauseIsKept
  RecheckRepauses
