--------------------------- MODULE MCTunnelSession ---------------------------
(***************************************************************************)
(* Instances of TunnelSession for TLC.                                     *)
(***************************************************************************)
EXTENDS TunnelSession
=============================================================================
