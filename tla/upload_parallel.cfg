SPECIFICATION Spec
CONSTANTS
    Total = 7
    ChunkSize = 2
    Parallel = 3
    Buffering = "disk"
    PartSize = 1
    MaxBlock = 2
    MaxFaults = 2
    DbFaults = {"entry", "row"}
INVARIANTS
    TypeOK
    SavedFileIsWhole
    ResumePointIsSound
    EveryDocumentAccounted
    OtherFilesUntouched
    BuffersBounded
    CancelledLeavesNothing
PROPERTIES
    CommittedNeverShrinks
    KeepsPromise
