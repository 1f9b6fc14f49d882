SPECIFICATION Spec
CONSTANTS
  Entity = {e1}
  State = {s1, s2}
  None = none
  Garbage = garbage
  SnapshotBackup = 1
  Bounds <- MCBounds
SYMMETRY Interchangeable
INVARIANTS
  ReadAsWritten
  AppliesWhatItHolds
  BasesAgree
  InGameLoaded
  InitsOnce
  PureExpected
CHECK_DEADLOCK FALSE
