SPECIFICATION FairSpec
CONSTANTS
    o1 = o1
    Operator <- OneOperator
    MaxDeploys = 2
    Image <- Images
    Base = "v0"
    MaxCrashes = 3
INVARIANTS AppliedBounded LiveIsDecided
PROPERTIES DecisionSpec DeployedIsLive ApprovedEnds
CHECK_DEADLOCK FALSE
