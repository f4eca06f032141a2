SPECIFICATION LoopSpec
CONSTANTS
    NumServices = 2
    Probed <- NgrokAndMcp
    DependsOn <- McpNeedsNgrok
    Optional <- Tunnel
    Host <- TwoHosts
    NoHost = "none"
    HealthInterval = 2
    FirstInterval = 1
    HealthFailures = 2
    Grace = 2
    BackoffBase = 2
    BackoffMax = 3
    StableAfter = 2
    DepWait = 1
    MaxFaults = 1
    MaxGlitches = 1
    MaxKills = 1
    MaxMishaps = 1
INVARIANTS TypeOK OffMeansDown
PROPERTIES StartsAfterDependency StopsInOrder StraysAreUnrecorded HungIsRestarted ExitedIsRestarted ConfigurationFollows
