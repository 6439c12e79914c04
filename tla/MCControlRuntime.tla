--------------------------- MODULE MCControlRuntime ---------------------------
EXTENDS ControlRuntime, TLC
ThreadSymmetry == Permutations(Threads)
=============================================================================
