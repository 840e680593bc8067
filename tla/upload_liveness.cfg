SPECIFICATION FairSpec
CONSTANTS
    Total = 4
    ChunkSize = 2
    Parallel = 2
    Buffering = "memory"
    PartSize = 1
    MaxBlock = 3
    MaxFaults = 1
    DbFaults = {"entry", "row"}
PROPERTIES
    EveryCallReturns
    CancelTakesEffect
