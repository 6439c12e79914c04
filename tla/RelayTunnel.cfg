SPECIFICATION AnyEndpointSpec
CONSTANTS
  MaxSequence = 3
  MaxLosses = 2
  ReplayMayFail = TRUE
  RetainedFrames = 2
CHECK_DEADLOCK FALSE
INVARIANTS RelayIsConsistent
 
