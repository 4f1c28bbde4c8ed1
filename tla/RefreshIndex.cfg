SPECIFICATION Spec
SYMMETRY VersionSymmetry
CONSTANTS
    main = main
    dev = dev
    NoTag = NoTag
    f1 = f1
    f2 = f2
    a = a
    b = b
    c = c
    Paths = {f1, f2}
    Branches = {main, dev}
    ContentsOf <- DistinctContents
    Absent = Absent
    Parts = {1}
    MaxCopies = 4
    FilesPerBatch = 2
    RacingEdits = FALSE
    MaxEdits = 2
    MaxStops = 1
INVARIANTS
    TypeOK
    RecordedIsTagged
    CacheMirrorsCatalog
    FreshIsExact
PROPERTIES
    OtherTagsUntouched
