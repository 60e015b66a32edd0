CONSTANTS
    good = good
    newer = newer
    s1 = s1
    none = none
    Messages = {good, newer}
    Kind <- PipelineKind
    Consumers = {s1}
    NoOwner = none
    MaxIndexAttempts = 2
    Limit = 1
    MaxProduced = 2
    MaxFaults = 1
    MaxRedrives = 1
SPECIFICATION PipelineFairSpec
CHECK_DEADLOCK FALSE
INVARIANTS
    PipelineInv
PROPERTIES
    KeepsPromise
    ComesToRest
