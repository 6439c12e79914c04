SPECIFICATION FairLink
CONSTANTS
  MaxLosses = 1
  EarlyRtt = FALSE
  SeqSpace = 16
  Start = 14
  MaskBits = 4
  DedupLimit = 3
  Window = 2
  SwitchWindow = 2
  ChildDupNacks = 2
  ChildLimit = 1
  ParentDupNacks = 1
  ParentLimit = 2
  MaxPending = 1
  PollLimit = 2
  InboxLimit = 2
  MaxResets = 1
  Lifetime = 2
  Loads <- MCLoads
CHECK_DEADLOCK FALSE
INVARIANTS LinkIsConsistent
PROPERTIES OnceToBridge InOrderToSwitch StaleFramesDropped EveryFrameArrives
