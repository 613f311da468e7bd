SPECIFICATION FairSpec
CONSTANTS
    RunIds = {"m"}
    Manual = {"m"}
    Dests = {"d1", "d2", "d3", "d4"}
    Place <- FourPlaces
    Parallel = {"d3", "d4"}
    Name <- TwoNamed
    Path <- SharedPath
    NoName = ""
    Editable = {"d3"}
    MaxRecentRuns = 1
    MaxHistory = 1
    Faults = {"source", "empty", "store", "retention", "throw", "history", "read", "crash"}
    NoSnapshot = NoSnapshot
    NoOne = NoOne
INVARIANTS
    SettledRunTellsWhatHappened
    OneAfterTheOther
PROPERTIES
    LifecycleHolds
    RunsSettle
CHECK_DEADLOCK FALSE
