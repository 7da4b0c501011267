CONSTANTS
    Runs = {1, 2}
    Plans <- QueueThenReplace
    Workers = {w1, w2}
    NoWorker = NoWorker
    ScanLimit = 100
    MaxTime = 0
    MaxCancels = 1
    Events = {1, 2}
    Planned <- TwoEvents
    MaxSteps = 1
    MaxItems = 1
    MaxCrashes = 0
    MaxLapses = 1
SPECIFICATION RuntimeFairSpec
CHECK_DEADLOCK FALSE
INVARIANT ReplacementsNeverOverlap
INVARIANT ReplacedRunsKnow
PROPERTY AdmittedRunsEnd
