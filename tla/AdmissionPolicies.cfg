CONSTANTS
    Runs = {1, 2, 3, 4, 5}
    Plans <- Mixed
    Workers = {w1, w2}
    NoWorker = NoWorker
    ScanLimit = 100
    MaxTime = 3
    MaxCancels = 1
    Events = {1, 2, 3}
    Planned <- MixedEvents
SYMMETRY WorkerSymmetry
SPECIFICATION AdmissionSpec
CHECK_DEADLOCK FALSE
INVARIANT IntervalsAreKept
INVARIANT GroupsAreExclusive
INVARIANT QueueOrderIsKept
INVARIANT KeysRunOnce
INVARIANT DebounceKeepsOne
