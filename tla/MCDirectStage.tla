---------------------------- MODULE MCDirectStage ----------------------------
(* Both roles under both programs; every environment step may happen once per *)
(* position, and nothing else needs a bound.                                  *)
EXTENDS DirectStage
=============================================================================
