SPECIFICATION Spec
SYMMETRY BranchSymmetry
CONSTANTS
    main = main
    dev = dev
    NoTag = NoTag
    f1 = f1
    f2 = f2
    a = a
    b = b
    c = c
    Paths = {f1, f2}
    Branches = {main, dev}
    ContentsOf <- DistinctContents
    Absent = Absent
    Parts = {1, 2}
    MaxCopies = 4
    FilesPerBatch = 1
    RacingEdits = FALSE
    MaxEdits = 2
    MaxStops = 0
INVARIANTS
    DeletedChunksAreGone
