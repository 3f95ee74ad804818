---------------------------- MODULE MCLocalServer ----------------------------
(***************************************************************************)
(* LocalServer for TLC.  In MCSelf every peer connects once, under the     *)
(* name of its connection; in MCReturn the first peer comes back on a      *)
(* second connection.                                                      *)
(***************************************************************************)
EXTENDS LocalServer

CONSTANTS c1, c2, c3, p1, p2, g

MCSelf == [c \in Conn |-> {c}]
MCReturn == (c1 :> {p1}) @@ (c2 :> {p2}) @@ (c3 :> {p1})

MCGroupOf == [c \in Conn |-> g]
=============================================================================
