-------------------------- MODULE MCManualPairing --------------------------
(***************************************************************************)
(* ManualPairing for TLC.                                                  *)
(***************************************************************************)
EXTENDS ManualPairing
=============================================================================
