SPECIFICATION Spec
CONSTANTS
    Runs = {"manual", "scheduled"}
    app = app
    web = web
    inApp = inApp
    beside = beside
    Containers = {app, web}
    Databases = {inApp, beside}
    Kind <- MCKind
    Holder <- MCHolder
    DumpName <- MCDumpName
    Swept = {"app-data.db"}
    Plans <- MCPlans
    Configs <- MCConfigs
    Switched = {app}
    MaxDelay = 2
    Cycle = 4
    Faults = {"stop", "scan", "dump", "start", "unlink", "crash"}
    None = None
INVARIANTS
    ContainersComeBack
    DumpsAreTheirs
    NothingIsLeft
PROPERTIES
    ScheduleIsKept
