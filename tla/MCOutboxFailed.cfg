CONSTANTS
    p1 = p1
    p2 = p2
    c1 = c1
    c2 = c2
    none = none
    Rows = {1}
    Instances <- TwoInstances
    Operators <- NoOperators
    BatchSize = 1
    MaxAttempts = 1
    LockTimeout = 1
    BaseRetryDelay = 1
    MaxRetryDelay = 1
    NoOwner = none
    MaxReplicas = 2
    MaxSkew = 0
    CommitLag = 0
    MaxFaults = 0
    MaxClock = 2
SPECIFICATION Spec
CHECK_DEADLOCK FALSE
PROPERTIES
    FailedNeverPublished
