SPECIFICATION Spec
CONSTANTS
  NoVal = NoVal
  Second = 2
  MaxPause = 1
  n1 = n1
  n2 = n2
  n3 = n3
  Nodes = {n1, n2}
  PersistKeys = {}
  TtlKeys = {t}
  Vals = {v1, v2}
  Ttls = {2, 3}
  Skew <- SkewedNode
  BackupFails = TRUE
  Trailing = 0
  MaxLog = 2
  MaxNow = 6
  MaxRestarts = 1
  MaxInstalls = 1
SYMMETRY Symmetry
CHECK_DEADLOCK FALSE
INVARIANT TtlBounded
