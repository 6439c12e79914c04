SPECIFICATION FairSpec
CONSTANTS
    NoThread = NoThread
    Worker = worker
    Threads = {worker, t1}
    Keys = {1, 2}
    MaxLaunches = 2
    MaxRuns = 1
    MaxRequests = 1
    MaxFaults = 1
 
PROPERTIES DiagnosticEnds
