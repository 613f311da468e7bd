SPECIFICATION Spec
CONSTANTS
    Paths = {"file"}
    Dumps = {}
    Versions = {"v1", "v2"}
    Contents = {"c1", "c2"}
    ContentOf <- MCContentOf
    SizeOf <- MCSizeOf
    MtimeOf <- MCMtimeOf
    LastPeriod = 1
    Retention = 1
    Mode = "months"
    Excludable = {"file"}
    Sftp = TRUE
    Faults = {"tear"}
    Absent = Absent
    Torn = Torn
    NoEntry = NoEntry
    NoDigest = NoDigest
INVARIANTS
    SkippedMeansLatest
