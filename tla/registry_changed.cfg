SPECIFICATION RegSpec
CONSTANTS
    tab = tab
    put = put
    s1 = s1
    s2 = s2
    v1 = v1
    v2 = v2
    Clients = {tab}
    Casts <- ChangedFile
    Web = {tab}
    Versions = {v1, v2}
    Sessions = {s1, s2}
    Blocks = 3
    Slice = 2
    Policies = {"link", "replace", "keep"}
    None = None
    MaxFaults = 1
    MaxCrashes = 1
INVARIANT ListedFileReadable
