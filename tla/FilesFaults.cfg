\* Two processes, with a crash, an I/O error and an edit.
SPECIFICATION Spec
CONSTANTS
    x = x
    y = y
    p1 = p1
    p2 = p2
    t1 = t1
    t2 = t2
    Absent = Absent
    Keep = Keep
    NoProc = NoProc
    NoTx = NoTx
    Files <- TwoFiles
    Contents <- TwoContents
    Changes <- MoveChanges
    Procs = {p1, p2}
    Txs = {t1, t2}
    MaxCrashes = 1
    MaxFaults = 1
    MaxEdits = 1
CHECK_DEADLOCK FALSE
SYMMETRY Symmetry
INVARIANT AllOrNothing
INVARIANT SuccessIsFinal
PROPERTY OnlyPlannedIsReplaced
