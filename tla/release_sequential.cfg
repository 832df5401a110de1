SPECIFICATION Spec
CONSTANTS
  n1 = n1
  n2 = n2
  v1 = v1
  v2 = v2
  h1 = h1
  h2 = h2
  Nodes = {n1, n2}
  Leader = n1
  Serving = {n1}
  Handlers = {h1}
  Files = {Blank, Broken, v1, v2}
  Blank = Blank
  Broken = Broken
  NoVal = NoVal
  Faults = {"error", "crash"}
  Hurried = FALSE
  MaxActive = 1
  MaxRequests = 6
  MaxNow = 2
CHECK_DEADLOCK FALSE
SYMMETRY FileSymmetry
INVARIANT PushedWasCurrent
PROPERTY VersionsSpec
