SPECIFICATION Spec
CONSTANTS
  NoVal = NoVal
  Second = 1
  MaxPause = 0
  n1 = n1
  n2 = n2
  n3 = n3
  Nodes = {n1}
  PersistKeys = {p, q}
  TtlKeys = {}
  Vals = {v1, v2}
  Ttls = {1}
  Skew <- NoSkew
  BackupFails = TRUE
  Trailing = 0
  MaxLog = 4
  MaxNow = 1
  MaxRestarts = 2
  MaxInstalls = 0
SYMMETRY Symmetry
CHECK_DEADLOCK FALSE
INVARIANTS TypeOK CaughtUp
PROPERTY VisibleStays
