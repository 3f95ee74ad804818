-------------------------- MODULE MCConnectionFlow --------------------------
(***************************************************************************)
(* ConnectionFlow for TLC: every browser trusts the others from earlier    *)
(* sessions.                                                               *)
(***************************************************************************)
EXTENDS ConnectionFlow

MCKnown == [d \in Device |-> Device \ {d}]
=============================================================================
