SPECIFICATION Spec
CONSTANTS
  Values = {none, v1, v2}
  Empty = none
  None = None
  Absent = Absent
  Torn = Torn
  Faults = {"write", "unbackup", "backup", "replace"}
  Rotate = 1
  MaxCrashes = 0
INVARIANT
  CleanShutdownIsSaved
