CONSTANTS
    p1 = p1
    p2 = p2
    v1 = v1
    Absent = Absent
    Bad = Bad
    All = All
    None = None
    Sync = Sync
    Commit = Commit
    Paths = {p1, p2}
    Extra = {p2}
    Versions = {v1}
    Initially = {Bad}
    MaxRevision = 4
    MaxRescanId = 3
    MaxPendingRescans = 2
    MaxPendingPaths = 1
    MaxStaleRetries = 2
    Disturbances = {"edit", "settings", "commit", "noise", "failure", "timeout", "echo"}
    MaxWrites = 1
    MaxFaults = 1
SPECIFICATION FairSpec
CHECK_DEADLOCK FALSE
INVARIANT AnswersAreFresh
PROPERTY AcknowledgedIsCurrent
PROPERTY AcknowledgedIsCached
PROPERTY Converges
PROPERTY CallsEnd
