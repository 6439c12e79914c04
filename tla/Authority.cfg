CONSTANTS
  o = o
  g1 = g1
  g2 = g2
  Members = {o, g1, g2}
  Owner = o
  NoMember = NoMember
  FailCodes = {"radio.failed"}
  MaxAttempts = 2
SPECIFICATION LiveSpec
CHECK_DEADLOCK FALSE
INVARIANTS RoomIsConsistent ReadinessIsConsistent VerifiedNeedsBothClean
PROPERTIES FrozenIntent AttemptKeepsItsCourse DeadlinesAreKept
