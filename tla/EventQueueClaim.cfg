SPECIFICATION Spec
CONSTANTS
    w1 = w1
    w2 = w2
    Worker <- TwoWorkers
    MaxEvents = 1
    Priority <- Priorities
    Orphan <- NoOrphan
    MaxRetries = 3
    BackoffUnit = 1
    StuckAfter = 1
    CountCap = 3
    MaxPause = 1
    MaxFaults = 1
    MaxRequeues = 1
INVARIANT ExclusiveClaim
