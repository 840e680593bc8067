SPECIFICATION Spec
CONSTANTS
    f1 = f1
    f2 = f2
    f3 = f3
    f4 = f4
    c1 = c1
    c2 = c2
    Files <- MCFiles
    Contents <- MCContents
    Parts = 2
    Actors = {a1}
    Deduplicate = TRUE
    None = None
    MaxUploads = 3
    MaxFaults = 1
SYMMETRY Symmetry
INVARIANTS
    TypeOK
    FilesReadable
    EveryDocumentReferenced
    NoRowsWithoutFile
