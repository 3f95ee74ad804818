------------------------- MODULE MCLambdaSignalling -------------------------
(***************************************************************************)
(* LambdaSignalling for TLC: every browser connects once, under the name   *)
(* of its connection.  In safety runs the connections but c1, and the      *)
(* groups, may be exchanged.                                               *)
(***************************************************************************)
EXTENDS LambdaSignalling, TLC

CONSTANT c1

MCPeerOf == [c \in Conn |-> c]

MCSymmetry == Permutations(Conn \ {c1}) \cup Permutations(Group)
=============================================================================
