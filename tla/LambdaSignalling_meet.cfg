SPECIFICATION LambdaSpec
CONSTANTS
  c1 = c1
  Conn = {c1, c2, c3}
  Peer = {c1, c2, c3}
  Group = {g1, g2}
  None = None
  PeerOf <- MCPeerOf
  Leaving = {c1}
  Nameless = {}
  MaxRunning = 9
  MaxRelays = 1
  MaxTrouble = 1
INVARIANTS LambdaTypeOK OneSeesTheOther NotFoundIsTrue GroupsApart
SYMMETRY MCSymmetry
CHECK_DEADLOCK FALSE
