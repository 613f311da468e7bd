SPECIFICATION FairSpec
CONSTANTS
    RunIds = {"m", "s"}
    Manual = {"m"}
    Dests = {"d1", "d2"}
    Place <- TwoPlaces
    Parallel = {"d2"}
    Name <- SameName
    Path <- OwnPath
    NoName = ""
    Editable = {"d1"}
    MaxRecentRuns = 1
    MaxHistory = 2
    Faults = {"store", "history", "read", "crash"}
    NoSnapshot = NoSnapshot
    NoOne = NoOne
INVARIANTS
    SettledRunTellsWhatHappened
    ActiveRunShown
    HistoryAgrees
    DumpsStay
PROPERTIES
    ScheduleGoesOn
CHECK_DEADLOCK FALSE
