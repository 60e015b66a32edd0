CONSTANTS
    d1 = d1
    d2 = d2
    api = api
    indexer = indexer
    x1 = x1
    x2 = x2
    Docs = {d1, d2}
    Apis = {}
    Workers = {indexer}
    Reindexers = {x1, x2}
    MaxVersion = 3
SYMMETRY Symmetric
SPECIFICATION Spec
INVARIANTS
    AliasInv
    WorkerHasAliases
    WritesAreSearchable
PROPERTIES
    SearchUninterrupted
    SwapKeepsCounted
