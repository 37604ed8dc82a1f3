\* The lease, the script, its verification and its rollback, on the worker manager.
CONSTANTS
    ra = ra
    rm = rm
    xa = xa
    va = va
    ba = ba
    ca = ca
    xm = xm
    vm = vm
    bm = bm
    cm = cm
    w1 = w1
    w2 = w2
    n1 = n1
    n2 = n2
    Tasks = {xa, va, ba, ca, xm, vm, bm, cm}
    Delayed = {xa}
    Workers = {w1, w2}
    QueueSize = 1
    MaxAttempts = 2
    MaxStops = 1
    Requests = {ra, rm}
    Automatic = {ra}
    Reversible = {ra}
    Nodes = {n1, n2}
    Execute <- MCExecute
    Verify <- MCVerify
    Rollbacks <- MCRollbacks
    Cap = 1
    MaxFaults = 1
SPECIFICATION RemediationSpec
ACTION_CONSTRAINT StopsBetweenRequests
SYMMETRY MCSymmetry
INVARIANTS
    RemediationTypeOK
    OnePlacePerTask
    StopSettles
    SerialPerNode
    LeaseEndsWithJob
    EndedIsRecorded
PROPERTY OnlyLateReleaseRobs
CHECK_DEADLOCK FALSE
