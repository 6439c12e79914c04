-------------------------- MODULE MCConnectionRun --------------------------
(* One run of each program, with two recovering processes and one unplugged  *)
(* adapter.                                                                  *)
EXTENDS ConnectionRun
=============================================================================
