CONSTANTS
    good = good
    garbled = garbled
    poison = poison
    s1 = s1
    s2 = s2
    none = none
    Messages = {good, garbled, poison}
    Kind <- MixedKind
    Consumers = {s1, s2}
    NoOwner = none
    MaxIndexAttempts = 1
    Limit = 1
    MaxProduced = 2
    MaxFaults = 2
    MaxRedrives = 1
SYMMETRY ConsumerSymmetry
SPECIFICATION Spec
CHECK_DEADLOCK FALSE
INVARIANTS
    IndexerInv
    NoEventLost
    LimitRespected
    OnlyHandledPassed
