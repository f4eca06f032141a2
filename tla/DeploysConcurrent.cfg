SPECIFICATION Spec
CONSTANTS
    o1 = o1
    Operator <- OneOperator
    MaxDeploys = 2
    Image <- Images
    Base = "v0"
    MaxCrashes = 0
PROPERTY NeverConcurrent
CHECK_DEADLOCK FALSE
