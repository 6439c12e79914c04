CONSTANTS
  o = o
  g1 = g1
  g2 = g2
  Members = {o, g1, g2}
  Owner = o
  NoMember = NoMember
  FailCodes = {"radio.failed"}
  MaxAttempts = 2
  SlowClose = TRUE
SPECIFICATION AdmissionSpec
CHECK_DEADLOCK FALSE
SYMMETRY GuestSymmetry
VIEW AdmissionView
INVARIANTS AdmissionIsProved
 
