SPECIFICATION Spec
CONSTANTS
    k1 = k1
    k2 = k2
    i1 = i1
    i2 = i2
    i3 = i3
    h1 = h1
    h2 = h2
    d1 = d1
    d2 = d2
    r1 = r1
    r2 = r2
    NoId = NoId
    Keys <- MCKeys
    Ids <- MCIds
    KeyOf <- MCKeyOf
    Tables <- MCTables
    RawTables <- MCRawTables
    FanoutTables <- MCFanoutTables
    MaxRows <- MCMaxRows
    RawRows <- MCRawRows
    AddedRows <- MCAddedRows
    Handlers = {h1, h2}
    Drainers = {d1}
    Replicas = {r1}
    ReplicaOf <- MCOneReplica
    SlowHandlers = FALSE
    MaxCrashes = 0
    MaxFailures = 2
INVARIANT ReplayFlushesExactRows
CHECK_DEADLOCK FALSE
