SPECIFICATION FairSpec
CONSTANTS
    a2 = a2
    c1 = c1
    d3 = d3
    e2 = e2
    k1 = k1
    k2 = k2
    events = events
    alerts = alerts
    Calls = {a2, c1, d3, e2}
    TableOf <- MCTableOf
    RowsOf <- MCRowsOf
    Blocking = {a2, d3, e2}
    Closers = {k1, k2}
    Tables = {events, alerts}
    MaxBatchRows = 4
    MaxPendingRows = 2
INVARIANTS
    TypeOK
    RowsInOnePlace
    NoLostWakeup
    CloseFlushesAll
PROPERTIES
    WaitersReturn
    CloseReturns
CHECK_DEADLOCK FALSE
