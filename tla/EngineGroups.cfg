CONSTANTS
    Runs = {1, 2}
    Plans <- SharedGroup
    Workers = {w1, w2}
    NoWorker = NoWorker
    ScanLimit = 100
    MaxTime = 0
    MaxCancels = 1
    MaxSteps = 2
    MaxItems = 1
    MaxCrashes = 1
    MaxLapses = 0
SPECIFICATION FairSpec
CHECK_DEADLOCK FALSE
PROPERTY RunsEnd
