SPECIFICATION Spec
CONSTANTS
  MaxAlerts = 3
INVARIANT
  ForcedErrorStops
