------------------------------ MODULE Directory ------------------------------
(***************************************************************************)
(* What the signalling server promises about who is reachable where: a     *)
(* directory in which a peer is bound to the connection it registered on   *)
(* last, a connection is bound to the one peer it speaks for, and a        *)
(* connection that goes away takes its binding with it.                    *)
(***************************************************************************)
CONSTANTS
  Conn,        \* connection ids
  Peer,        \* peer ids
  None,        \* not bound
  Identities   \* the peer ids a connection may register under

VARIABLES
  dir,         \* the connection each peer is bound to
  online       \* the connections that are bound

\* The directory without what is bound to c.
Forget(c) == [p \in Peer |-> IF dir[p] = c THEN None ELSE dir[p]]

Bind(c, p) ==
  /\ p \in Identities[c]
  /\ dir' = [Forget(c) EXCEPT ![p] = c]
  /\ online' = (online \ {dir[p]}) \cup {c}

Unbind(c) ==
  /\ c \in online
  /\ dir' = Forget(c)
  /\ online' = online \ {c}

Init == dir = [p \in Peer |-> None] /\ online = {}

Next == \E c \in Conn : Unbind(c) \/ \E p \in Peer : Bind(c, p)

Spec == Init /\ [][Next]_<<dir, online>>
=============================================================================
