SPECIFICATION FairSpec
CONSTANTS
  Values = {none, v1, v2}
  Empty = none
  None = None
  Absent = Absent
  Torn = Torn
  Faults = {"write", "unbackup", "backup", "replace", "archive"}
  Rotate = 1
  MaxCrashes = 2
INVARIANTS
  PrevIsOnDisk
  SavedStateSurvives
PROPERTIES
  IsAtomicStore
  ChangesReachTheFile
