SPECIFICATION Spec
CONSTANTS
    w1 = w1
    w2 = w2
    a1 = a1
    a2 = a2
    b1 = b1
    Windows = {w1, w2}
    Runs = {a1, b1}
    WindowOf <- OneEach
    NoRun = NoRun
    Heartbeat = 1
    MaxLag = 1
    Stale = 2
    MaxDirs = 1
    MaxCrashes = 0
    DbMayFail = FALSE
INVARIANTS
    OneWindowIndexes
