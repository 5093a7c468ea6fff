SPECIFICATION Spec
CONSTANTS
    MaxGames = 2
    Nobody = "nobody"
    Callers <- MCCallers
    Requests <- MCRequests
    StopForces = {FALSE}
    MaxJobs = 2
    MaxStale = 1
    SharedRemote = FALSE
INVARIANTS HandsOff
CHECK_DEADLOCK FALSE
