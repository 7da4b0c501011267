CONSTANTS
    Runs = {1}
    Plans <- ShortPlan
    Workers = {w1, w2}
    NoWorker = NoWorker
    ScanLimit = 100
    MaxTime = 0
    MaxCancels = 0
    MaxSteps = 2
    MaxItems = 1
    MaxCrashes = 1
    MaxLapses = 0
SYMMETRY WorkerSymmetry
SPECIFICATION Spec
CHECK_DEADLOCK FALSE
INVARIANT UnsafeIsNeverReplayed
