SPECIFICATION FairSpec
CONSTANTS
    t1 = t1
    t2 = t2
    c1 = c1
    c2 = c2
    NoOne = NoOne
    Worker = Worker
    None = None
    Threads = {t1, t2}
    Roles <- HostRoles
    Commits = {c1, c2}
    Observations = {o1}
    InternalDeadline = TRUE
    MaxCrashes = 1
CHECK_DEADLOCK FALSE
INVARIANT FeedStaysUsable
INVARIANT FeedAgrees
INVARIANT ReportedIsDurable
PROPERTY CallsReturn
