SPECIFICATION Spec
SYMMETRY CallSymmetry
CONSTANTS
    w1 = w1
    w2 = w2
    a1 = a1
    a2 = a2
    b1 = b1
    Windows = {w1, w2}
    Runs = {a1, a2, b1}
    WindowOf <- TwoAndOne
    NoRun = NoRun
    Heartbeat = 1
    MaxLag = 1
    Stale = 2
    MaxDirs = 2
    MaxCrashes = 1
    DbMayFail = FALSE
INVARIANTS
    TypeOK
    OnlyCurrentUnaborted
    BusyMeansRunning
    RowsHaveOwners
    OnlyDeadLocksLookStale
    BoundedWorkAfterAbort
PROPERTIES
    FilesNeverCancel
