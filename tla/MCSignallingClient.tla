------------------------- MODULE MCSignallingClient -------------------------
(***************************************************************************)
(* SignallingClient for TLC.  Sockets are interchangeable names.           *)
(***************************************************************************)
EXTENDS SignallingClient
=============================================================================
