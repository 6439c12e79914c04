SPECIFICATION Spec
CONSTANTS
    Roles = {"a", "b"}
    Programs = {"direct", "distributed"}
    Plane = "injected"
CHECK_DEADLOCK FALSE
INVARIANTS  PassedMeansHeld 
