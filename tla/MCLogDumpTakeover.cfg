\* Takeover, time-out, cancellation, expiry and restart of one dump.
CONSTANTS
    a1 = a1
    a2 = a2
    Captures = {a1, a2}
    Chunks = 2
    MaxCrashes = 1
    MaxFaults = 2
SPECIFICATION FairSpec
INVARIANTS
    TypeOK
    CapturedIsIntact
    JobTellsOfArtifact
    NothingLeftBehind
PROPERTIES
    JobSettles
    EveryDumpIsDeleted
CHECK_DEADLOCK FALSE
