SPECIFICATION FairLambda
CONSTANTS
  c1 = c1
  Conn = {c1, c2, c3}
  Peer = {c1, c2, c3}
  Group = {g1}
  None = None
  PeerOf <- MCPeerOf
  Leaving = {c1, c2}
  Nameless = {c1}
  MaxRunning = 2
  MaxRelays = 0
  MaxTrouble = 1
PROPERTIES DepartureHeard StaleItemsHeal
CHECK_DEADLOCK FALSE
