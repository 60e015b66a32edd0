CONSTANTS
    a1 = a1
    p1 = p1
    s1 = s1
    Apis = {a1}
    Publishers = {p1}
    Indexers = {s1}
SPECIFICATION FairSpec
INVARIANTS
    LifecycleInv
    WorkHasProducer
    TopicsBeforeWork
    ReadyMeansAble
PROPERTIES
    ShutdownCompletes
    BecomeReady
