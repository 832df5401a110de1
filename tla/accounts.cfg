SPECIFICATION Spec
CONSTANTS
  n1 = n1
  n2 = n2
  h1 = h1
  h2 = h2
  a1 = a1
  a2 = a2
  root = root
  u1 = u1
  bob = bob
  pair = pair
  p0 = p0
  p1 = p1
  t1 = t1
  t2 = t2
  i1 = i1
  i2 = i2
  NoVal = NoVal
  Nodes = {n1, n2}
  Leader = n1
  Handlers = {h1, h2}
  Apps = {a1, a2}
  Users = {root, u1, bob, pair}
  Parts <- SplitNames
  Roles = {"owner"}
  Owner = "owner"
  Admin = root
  AdminPassword = p0
  Passwords = {p0, p1}
  Tokens = {t1, t2}
  Infos = {i1, i2}
  Requests <- SomeRequests
  Earlier <- FreshOrUsed
  MaxRequests = 3
  MaxLag = 1
  MaxFailures = 1
SYMMETRY HandlerSymmetry
CHECK_DEADLOCK FALSE
INVARIANTS TypeOK Grounded
PROPERTIES DirectorySteps
