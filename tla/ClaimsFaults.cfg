\* Two processes, a crash at any step, an I/O error, an edit.
SPECIFICATION Spec
CONSTANTS
    x = x
    y = y
    p1 = p1
    p2 = p2
    t1 = t1
    t2 = t2
    t3 = t3
    c1 = c1
    c2 = c2
    Absent = Absent
    Keep = Keep
    NoProc = NoProc
    NoTx = NoTx
    NoClaim = NoClaim
    Files <- TwoFiles
    Contents <- TwoContents
    Mutations <- MoveMutations
    Initial <- OneFile
    Claims = {c1, c2}
    Procs = {p1, p2}
    Txs = {t1, t2}
    MaxActive = 2
    ShadowWriters = {}
    CrashPoints <- Holding
    MaxCrashes = 1
    MaxFaults = 1
    MaxEdits = 1
    MaxDisturbances = 2
CHECK_DEADLOCK FALSE
SYMMETRY Symmetry
INVARIANT UnreadableHasACause
INVARIANT ClaimsAreUnique
INVARIANT OutcomeMatchesFiles
PROPERTY OutcomesAreKept
PROPERTY OnlyPlannedIsReplaced
INVARIANT ManualHasACause
PROPERTY ImplementsClaims
