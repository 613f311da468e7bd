SPECIFICATION Spec
CONSTANTS
    RunIds = {"m"}
    Manual = {"m"}
    Dests = {"d1", "d2", "d3"}
    Place <- ThreePlaces
    Parallel = {"d2", "d3"}
    Name <- OwnName
    Path <- OwnPath
    NoName = ""
    Editable = {}
    MaxRecentRuns = 2
    MaxHistory = 1
    Faults = {"throw"}
    NoSnapshot = NoSnapshot
    NoOne = NoOne
INVARIANTS
    ActiveRunIsWorking
CHECK_DEADLOCK FALSE
