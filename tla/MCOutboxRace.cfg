CONSTANTS
    p1 = p1
    p2 = p2
    c1 = c1
    c2 = c2
    none = none
    Rows = {1}
    Instances <- TwoInstances
    Operators <- TwoOperators
    BatchSize = 2
    MaxAttempts = 2
    LockTimeout = 1
    BaseRetryDelay = 1
    MaxRetryDelay = 1
    NoOwner = none
    MaxReplicas = 2
    MaxSkew = 1
    CommitLag = 1
    MaxFaults = 1
    MaxClock = 1
SYMMETRY AllSymmetry
SPECIFICATION Spec
CHECK_DEADLOCK FALSE
INVARIANTS
    InductiveInvariant
    OwnedCopyIsFresh
PROPERTIES
    NoEarlyTakeover
    ImplementsContract
    FailedLeavesOnlyByRedrive
    PublishedIsFinal
