\* One process, crashes at every step, no other disturbance.
SPECIFICATION FairSpec
CONSTANTS
    x = x
    y = y
    p1 = p1
    p2 = p2
    t1 = t1
    t2 = t2
    Absent = Absent
    Keep = Keep
    NoProc = NoProc
    NoTx = NoTx
    Files <- TwoFiles
    Contents <- TwoContents
    Changes <- PairChanges
    Procs = {p1}
    Txs = {t1, t2}
    MaxCrashes = 2
    MaxFaults = 0
    MaxEdits = 0
PROPERTY ImplementsAtomic
PROPERTY InterruptedCommitsEnd
CHECK_DEADLOCK FALSE
