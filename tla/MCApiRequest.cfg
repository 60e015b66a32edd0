CONSTANTS
    r1 = r1
    r2 = r2
    sent = sent
    none = none
    Requests = {r1, r2}
    Headers = {sent}
    NoId = none
    MaxFaults = 2
SPECIFICATION FairSpec
CHECK_DEADLOCK FALSE
INVARIANTS
    ApiInv
    StoredTogether
    CreatedIsStored
    OnePerRequest
    OwnCorrelationId
PROPERTIES
    EveryRequestAnswered
