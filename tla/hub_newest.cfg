SPECIFICATION Spec
CONSTANTS
  c1 = c1
  c2 = c2
  s1 = s1
  s2 = s2
  s3 = s3
  app = app
  None = None
  Conns = {c1, c2}
  Keys = {app}
  KeyOf <- OneKey
  Sends = {s1}
  DestOf <- OneDest
  Cap = 1
  Refused = {}
  Faults = {}
CHECK_DEADLOCK FALSE
INVARIANT NewestIsRegistered
