SPECIFICATION LocalSpec
CONSTANTS
  c1 = c1
  c2 = c2
  c3 = c3
  p1 = p1
  p2 = p2
  g = g
  Conn = {c1, c2, c3}
  Peer = {p1, p2}
  Label = {l1}
  Group = {g}
  None = None
  Identities <- MCReturn
  GroupOf <- MCGroupOf
  MaxStalls = 0
  MaxRelays = 0
  SentType = {"connect-request"}
  Nameless = {}
INVARIANTS NoGhosts
CHECK_DEADLOCK FALSE
