SPECIFICATION LambdaSpec
CONSTANTS
  c1 = c1
  Conn = {c1, c2}
  Peer = {c1, c2}
  Group = {g1}
  None = None
  PeerOf <- MCPeerOf
  Leaving = {}
  Nameless = {}
  MaxRunning = 2
  MaxRelays = 0
  MaxTrouble = 0
INVARIANTS EachSeesTheOther
CHECK_DEADLOCK FALSE
