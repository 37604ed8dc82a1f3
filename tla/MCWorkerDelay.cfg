\* Is a delayed task called before it is given up?
CONSTANTS
    t1 = t1
    t2 = t2
    w1 = w1
    Tasks = {t1, t2}
    Delayed = {t2}
    Workers = {w1}
    QueueSize = 2
    MaxAttempts = 2
    MaxStops = 0
SPECIFICATION Spec
CHECK_DEADLOCK FALSE
PROPERTY FailedWasCalled
