SPECIFICATION FairSpec
CONSTANTS
  n1 = n1
  n2 = n2
  h1 = h1
  h2 = h2
  m1 = m1
  m2 = m2
  s1 = s1
  s2 = s2
  NoVal = NoVal
  Second = 2
  Nodes = {n1, n2}
  Leader = n1
  Handlers = {h1, h2}
  Registrations <- OneRegistration
  Heartbeats <- TwoHeartbeats
  Spaces <- OwnAndShared
  Shared = {s2}
  DefaultTtl = 4
  InstTtl = 5
  MetaTtl = 9
  Patience = 1
  LastStart = 5
  Horizon = 11
  MaxRequests = 2
  MaxLag = 2
  MaxFailures = 1
CHECK_DEADLOCK FALSE
INVARIANTS TypeOK ListedHasMeta FreshIsFound
PROPERTIES KeepsContent GoneIsUnlisted
