SPECIFICATION FairSpec
CONSTANTS
    Paths = {"file", "dump"}
    Dumps = {"dump"}
    Versions = {"v1", "v2"}
    Contents = {"c1", "c2"}
    ContentOf <- MCContentOf
    SizeOf <- MCSizeOf
    MtimeOf <- MCMtimeOf
    LastPeriod = 1
    Retention = 1
    Mode = "months"
    Excludable = {"file"}
    Sftp = TRUE
    Faults = {"dump", "open", "copy", "tear", "delete", "close", "persist", "crash"}
    Absent = Absent
    Torn = Torn
    NoEntry = NoEntry
    NoDigest = NoDigest
PROPERTIES
    OnlyUnlistedCopiesGo
    Converges
