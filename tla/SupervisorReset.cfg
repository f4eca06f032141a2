SPECIFICATION Spec
CONSTANTS
    NumServices = 2
    Probed <- NgrokAndMcp
    DependsOn <- McpNeedsNgrok
    Optional <- Tunnel
    Host <- OneHost
    NoHost = "none"
    HealthInterval = 2
    FirstInterval = 1
    HealthFailures = 2
    Grace = 1
    BackoffBase = 1
    BackoffMax = 2
    StableAfter = 3
    DepWait = 1
    MaxFaults = 1
    MaxGlitches = 2
    MaxKills = 0
    MaxMishaps = 3
PROPERTY ResetIsEarned
