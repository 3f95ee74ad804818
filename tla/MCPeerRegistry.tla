--------------------------- MODULE MCPeerRegistry ---------------------------
(***************************************************************************)
(* PeerRegistry for TLC: three connections, two peers, one of which comes  *)
(* back on a second connection before its first one is closed.             *)
(***************************************************************************)
EXTENDS PeerRegistry

CONSTANTS c1, c2, c3, p1, p2, g1, g2, l1, l2

MCConn == {c1, c2, c3}
MCPeer == {p1, p2}

\* The app: one identity per connection, p1 twice.
MCSingle == [c \in MCConn |-> IF c = c2 THEN {p2} ELSE {p1}]

\* A client that may register any id on any connection.
MCAny == [c \in MCConn |-> MCPeer]

\* All clients of the local server share a group.
MCOneGroup == [c \in MCConn |-> g1]
=============================================================================
