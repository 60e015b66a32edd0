CONSTANTS
    a1 = a1
    Messages = {1, 2, 3}
    Clients = {a1}
    Limits = {1, 2}
    MaxClock = 2
    Scores = {1, 2}
    MaxPage = 2
SPECIFICATION ReadSpec
CHECK_DEADLOCK FALSE
INVARIANTS
    ListingInv
    NothingTwice
    WalkComplete
    QuietSearchComplete
PROPERTIES
    WalkEnds
