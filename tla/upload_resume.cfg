SPECIFICATION Spec
CONSTANTS
    Total = 5
    ChunkSize = 3
    Parallel = 1
    Buffering = "stream"
    PartSize = 2
    MaxBlock = 2
    MaxFaults = 2
    DbFaults = {"list", "entry", "row"}
INVARIANT SavedFileIsWhole
