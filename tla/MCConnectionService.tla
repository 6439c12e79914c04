------------------------ MODULE MCConnectionService ------------------------
(* Three commands, two runs, one restart; one answer is remembered, so that   *)
(* a repeated command may meet a forgotten one.                              *)
EXTENDS ConnectionService
=============================================================================
