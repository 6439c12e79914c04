SPECIFICATION FairSpec
CONSTANTS
    MaxCommands = 3
    MaxRuns = 2
    MaxQueue = 1
    MaxRepeats = 1
    MaxKnown = 1
    MaxBoots = 1
CHECK_DEADLOCK FALSE
INVARIANTS CommandsAreConsistent
PROPERTIES RunsAreSeparate StopEndsRun
