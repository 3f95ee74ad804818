SPECIFICATION Spec
CONSTANTS
  c1 = c1
  c2 = c2
  c3 = c3
  p1 = p1
  p2 = p2
  g1 = g1
  g2 = g2
  l1 = l1
  l2 = l2
  Conn <- MCConn
  Peer <- MCPeer
  Label = {l1, l2}
  Group = {g1}
  None = None
  Identities <- MCSingle
  GroupOf <- MCOneGroup
INVARIANTS TypeOK RegisteredIsReachable NoStaleLookup DeparturesAreReal
PROPERTIES DeparturesAnnounced RelayReachesAddressee ImplementsDirectory
