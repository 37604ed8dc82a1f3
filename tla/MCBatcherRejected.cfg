SPECIFICATION Spec
CONSTANTS
    MaxEvents = 4
    BufferSize = 2
    MaxRows = 3
    SpoolMax = 2
    MaxAttempts = 2
    Poison <- MCPoison
    MaxStops = 2
    MaxFailures = 2
PROPERTY RejectedIsNotRetried
