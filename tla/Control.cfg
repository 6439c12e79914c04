SPECIFICATION Spec
CONSTANTS
    NoThread = NoThread
    Threads = {t1, t2}
    Keys = {1}
    MaxLaunches = 2
    MaxRequests = 2
    MaxFaults = 1
    Commands = {"connect", "join", "leave", "stop", "poll", "retry", "repair", "publish"}
SYMMETRY ThreadSymmetry
 
PROPERTIES AdapterHasItsOwner 
