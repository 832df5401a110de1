SPECIFICATION Spec
CONSTANTS
  n1 = n1
  n2 = n2
  i1 = i1
  Nodes = {n1, n2}
  Self = n1
  Apps = {i1}
  Servers <- TwoServers
  Drafts <- FewDrafts
  Tries = 1
  None = None
  on = on
  ON = ON
  off = off
  Docs <- FewDocs
  Vals <- Texts
  Empty = Empty
  Null = Null
  NoEntries = NoEntries
  Lines = Lines
  FoldOf <- CaseFold
  Blank = Blank
  Unparsable = Unparsable
  MaxReleases = 2
  MaxLag = 1
CHECK_DEADLOCK FALSE
INVARIANT EveryNodePushes
