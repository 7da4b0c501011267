\* Commits settle: crashes where every journal stays readable.
SPECIFICATION FairSpec
CONSTANTS
    x = x
    y = y
    p1 = p1
    p2 = p2
    t1 = t1
    t2 = t2
    t3 = t3
    c1 = c1
    c2 = c2
    Absent = Absent
    Keep = Keep
    NoProc = NoProc
    NoTx = NoTx
    NoClaim = NoClaim
    Files <- TwoFiles
    Contents <- TwoContents
    Mutations <- MoveMutations
    Initial <- OneFile
    Claims = {c1}
    Procs = {p1, p2}
    Txs = {t1}
    MaxActive = 2
    ShadowWriters = {p1}
    CrashPoints <- SafePoints
    MaxCrashes = 2
    MaxFaults = 0
    MaxEdits = 0
    MaxDisturbances = 2
CHECK_DEADLOCK FALSE
PROPERTY CommitsSettle
