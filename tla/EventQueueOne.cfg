SPECIFICATION FairSpec
CONSTANTS
    w1 = w1
    w2 = w2
    Worker <- OneWorker
    MaxEvents = 2
    Priority <- Priorities
    Orphan <- LastIsOrphan
    MaxRetries = 3
    BackoffUnit = 1
    StuckAfter = 1
    CountCap = 3
    MaxPause = 2
    MaxFaults = 2
    MaxRequeues = 1
INVARIANTS TypeOK HeldIsProcessing OpenHasBudget
PROPERTIES DoneIsFinal RetryWaits LedgerSpec
