SPECIFICATION Spec
CONSTANTS
    MaxEntries = 5
    MemoryEntries = 3
    FileEntries = 2
    BatchSize = 2
    MaxRecords = 5
    OldRecords = 2
    MaxHistory = 2
    Seeds <- MCSeeds
    Legacy = {1}
    FirstHistories <- MCFirstHistories
    etc = etc
    db = db
    d1 = d1
    Keys = {etc, db}
    DestIds = {d1}
    Settings = {0, 1}
    FirstConfig <- MCFirstConfig
    MaxEdits = 3
    DiskFails = FALSE
    None = None
PROPERTIES
    ReadsOnlyTrim
CHECK_DEADLOCK FALSE
