---------------------------- MODULE MCRelayTunnel ----------------------------
(***************************************************************************)
(* Instances of RelayTunnel for TLC: the relay with arbitrary endpoints.   *)
(***************************************************************************)
EXTENDS RelayTunnel
=============================================================================
