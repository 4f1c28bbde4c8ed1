SPECIFICATION FairSpec
CONSTANTS
    main = main
    dev = dev
    NoTag = NoTag
    f1 = f1
    f2 = f2
    a = a
    b = b
    c = c
    Paths = {f1}
    Branches = {main, dev}
    ContentsOf <- OneFile
    Absent = Absent
    Parts = {1}
    MaxCopies = 4
    FilesPerBatch = 1
    RacingEdits = TRUE
    MaxEdits = 2
    MaxStops = 2
PROPERTIES
    Converges
