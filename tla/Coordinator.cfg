SPECIFICATION Spec
CONSTANTS
    Runs = {r1, r2}
    NoRun = NoRun
    NoRecord = NoRecord
    Values = {v1}
    Unbound = Unbound
    Modes = {"direct", "c_harness"}
    Reported = {"passed"}
    MaxFaults = 1
SYMMETRY RunSymmetry
INVARIANTS RecordsAreDurable UnresolvedIsGuarded LaunchIsAuthorised
PROPERTIES OneOwner HistoryIsFinal
