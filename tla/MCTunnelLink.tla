---------------------------- MODULE MCTunnelLink ----------------------------
(* TunnelLink on small streams; a run carries frames one way or the other. *)
EXTENDS TunnelLink

MCLoads == {[in |-> 4, out |-> 0], [in |-> 0, out |-> 3], [in |-> 1, out |-> 1]}
=============================================================================
