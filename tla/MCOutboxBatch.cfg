CONSTANTS
    p1 = p1
    p2 = p2
    c1 = c1
    c2 = c2
    none = none
    Rows = {1, 2}
    Instances <- TwoInstances
    Operators <- NoOperators
    BatchSize = 2
    MaxAttempts = 2
    LockTimeout = 1
    BaseRetryDelay = 1
    MaxRetryDelay = 1
    NoOwner = none
    MaxReplicas = 1
    MaxSkew = 0
    CommitLag = 0
    MaxFaults = 1
    MaxClock = 12
SPECIFICATION LiveSpec
CHECK_DEADLOCK FALSE
INVARIANTS
    PublishedImpliesDelivered
    NoLostEvent
    AttemptsWithinBudget
    StrandedOnlyByFault
PROPERTIES
    EventuallySettled
