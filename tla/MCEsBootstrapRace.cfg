CONSTANTS
    d1 = d1
    d2 = d2
    api = api
    indexer = indexer
    x1 = x1
    x2 = x2
    Docs = {d1}
    Apis = {api}
    Workers = {indexer}
    Reindexers = {x1}
    MaxVersion = 2
SPECIFICATION Spec
PROPERTIES
    BootstrapKeepsAliases
