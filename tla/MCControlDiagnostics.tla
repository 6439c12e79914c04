------------------------- MODULE MCControlDiagnostics -------------------------
EXTENDS ControlDiagnostics
=============================================================================
