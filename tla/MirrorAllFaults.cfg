SPECIFICATION Spec
CONSTANTS
    Paths = {"file"}
    Dumps = {}
    Versions = {"v1", "v2"}
    Contents = {"c1", "c2"}
    ContentOf <- MCContentOf
    SizeOf <- MCSizeOf
    MtimeOf <- MCMtimeOf
    LastPeriod = 2
    Retention = 1
    Mode = "months"
    Excludable = {"file"}
    Sftp = TRUE
    Faults = {"race", "dump", "digest", "open", "copy", "tear", "delete", "close", "retention", "persist", "crash"}
    Absent = Absent
    Torn = Torn
    NoEntry = NoEntry
    NoDigest = NoDigest
INVARIANTS
    TypeOK
    ManifestSound
    ReportedMeansStored
    NeverInADroppedPeriod
