CONSTANTS
    Runs = {1}
    Plans <- UnsafeThenIdempotent
    Workers = {w1, w2}
    NoWorker = NoWorker
    ScanLimit = 100
    MaxTime = 0
    MaxCancels = 1
    MaxSteps = 2
    MaxItems = 2
    MaxCrashes = 0
    MaxLapses = 1
SYMMETRY WorkerSymmetry
SPECIFICATION Spec
CHECK_DEADLOCK FALSE
INVARIANT CommitsOverwriteNothing
INVARIANT SuccessIsWitnessed
INVARIANT DoubtIsReported
PROPERTY AmbiguityIsNeverReplayed
PROPERTY ImplementsContract
