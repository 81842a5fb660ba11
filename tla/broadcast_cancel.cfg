SPECIFICATION Spec
CONSTANTS
    w1 = w1
    w2 = w2
    Worker = {w1, w2}
    NoOne = NoOne
    Totals <- MCTotal
    FlushEvery = 2
    MaxFaults = 1
PROPERTY CancelSticks
CHECK_DEADLOCK FALSE
