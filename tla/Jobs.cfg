SPECIFICATION FairSpec
CONSTANTS
    e1 = e1  e2 = e2  e3 = e3
    Events = {e1, e2, e3}
    BatchSize = 2
    MaxItems = 3
    MaxFails = 2
    MaxReturns = 1
    Modes <- BothJobs
CHECK_DEADLOCK FALSE
INVARIANTS TypeOK DrainedMeansAllTried
PROPERTIES ExecutionEnds StopsAfterShutdown PendingDispatched
