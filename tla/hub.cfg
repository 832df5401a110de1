SPECIFICATION FairSpec
CONSTANTS
  c1 = c1
  c2 = c2
  s1 = s1
  s2 = s2
  s3 = s3
  app = app
  None = None
  Conns = {c1, c2}
  Keys = {app}
  KeyOf <- OneKey
  Sends = {s1, s2, s3}
  DestOf <- OneDest
  Cap = 1
  Refused = {c2}
  Faults = {"mapRace", "large"}
CHECK_DEADLOCK FALSE
INVARIANTS TypeOK OneCloser RegisteredIsAlive
PROPERTIES SendReturns DeadIsClosed QueuedArrives
