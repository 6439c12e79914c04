SPECIFICATION SessionSpec
CONSTANTS
  MaxSequence = 0
  MaxLosses = 1
  ReplayMayFail = TRUE
  RetainedFrames = 32
  Capacity = 2
  MaxEpochs = 3
  RfuOfA = 2
  RfuOfB = 0
CHECK_DEADLOCK FALSE
INVARIANTS SessionIsConsistent ProofIsMutual 
