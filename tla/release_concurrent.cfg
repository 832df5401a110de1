SPECIFICATION Spec
CONSTANTS
  n1 = n1
  n2 = n2
  v1 = v1
  v2 = v2
  h1 = h1
  h2 = h2
  Nodes = {n1, n2}
  Leader = n1
  Serving = {n1, n2}
  Handlers = {h1, h2}
  Files = {Blank, Broken, v1, v2}
  Blank = Blank
  Broken = Broken
  NoVal = NoVal
  Faults = {"error", "late", "swallowed", "crash"}
  Hurried = TRUE
  MaxActive = 2
  MaxRequests = 4
  MaxNow = 0
CHECK_DEADLOCK FALSE
SYMMETRY Symmetry
INVARIANTS TypeOK Provenance
