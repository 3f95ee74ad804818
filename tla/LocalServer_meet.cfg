SPECIFICATION FairSpec
CONSTANTS
  c1 = c1
  c2 = c2
  c3 = c3
  p1 = p1
  p2 = p2
  g = g
  Conn = {c1, c2, c3}
  Peer = {c1, c2, c3}
  Label = {l1}
  Group = {g}
  None = None
  Identities <- MCSelf
  GroupOf <- MCGroupOf
  MaxStalls = 1
  MaxRelays = 0
  SentType = {"connect-request"}
  Nameless = {}
INVARIANTS LocalTypeOK AllSeeEachOther
PROPERTIES BrowsersMeet
CHECK_DEADLOCK FALSE
