SPECIFICATION LiveSession
CONSTANTS
  MaxSequence = 0
  MaxLosses = 1
  ReplayMayFail = FALSE
  RetainedFrames = 32
  Capacity = 3
  MaxEpochs = 3
  RfuOfA = 0
  RfuOfB = 0
CHECK_DEADLOCK FALSE
INVARIANT ResetIsNotFatal
PROPERTY AlwaysReproven
