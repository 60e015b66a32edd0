CONSTANTS
    a1 = a1
    p1 = p1
    s1 = s1
    Apis = {}
    Publishers = {}
    Indexers = {s1}
SPECIFICATION Spec
INVARIANTS
    RestartKeepsReady
