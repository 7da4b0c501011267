SPECIFICATION FairSpec
CONSTANTS
    HostEvents = {h}
    Readers = {r}
    TimerIds = {1}
    Prefixes <- OnePrefix
    early = early
    late = late
    Specs = {early, late}
    FireAt <- FireTimes
    NoSpec = NoSpec
    Workers = {w1, w2}
    NoWorker = NoWorker
    MaxGeneration = 2
    MaxTime = 1
    MaxFailures = 1
    MaxLapses = 1
CHECK_DEADLOCK FALSE
INVARIANT EveryEventOnce
PROPERTY OutcomesAreFinal
PROPERTY OnlyDueTimersFire
PROPERTY DueTimersFire
