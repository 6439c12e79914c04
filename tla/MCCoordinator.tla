--------------------------- MODULE MCCoordinator ---------------------------
(* Instances of Coordinator for TLC.                                        *)
EXTENDS Coordinator, TLC

RunSymmetry == Permutations(Runs)
ValueSymmetry == Permutations(Values)
=============================================================================
