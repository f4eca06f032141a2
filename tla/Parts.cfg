SPECIFICATION PartsSpec
CONSTANTS
    w = w
    q = q
    u = u
    c1 = c1
    c2 = c2
    o1 = o1
    o2 = o2
    f1 = f1
    f2 = f2
    d = d
    c = c
    Healer <- Healers
    Watcher = w
    Human <- Humans
    MaxPods = 2
    MaxFixes = 2
    Cooldown = 1
    MaxIncidents = 3
    MaxDeaths = 1
    Client <- Clients
    MaxSessions = 2
    MaxTools = 2
    Operator <- Operators
    File <- Files
    DaysPerWeek = 2
    KeepDaily = 1
    KeepWeekly = 2
    MaxDay = 5
    MaxVersion = 3
    MaxStamp = 5
    Process <- Processes
    Policies <- EveryOrder
    LastHour = 2
    MaxDays = 2
    MaxCrashes = 1
INVARIANTS RestartsBounded OpenIncidentsBounded EscalationIsEarned ResolutionIsComplete
    ConfirmedRunsOnce NothingChangedIsTrue CallsAreAnswered
    RestoreCanBeUndone RetentionKept WinnersBounded OneCallIsEnough
PROPERTIES CrashingIsHandled DecisionSpec
CHECK_DEADLOCK FALSE
