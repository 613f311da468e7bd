SPECIFICATION FairSpec
CONSTANTS
    JobIds = {j1, j2, j3}
    j1 = j1
    j2 = j2
    j3 = j3
    local = local
    remote = remote
    week = week
    etc = etc
    db = db
    Dests = {local, remote}
    SftpDests = {remote}
    Periods = {week}
    Files = {etc, db}
    Holds <- MCHolds
    Existing = {db}
    Blocked = {}
    MaxJobs = 2
    Asked <- MCAsked
    None = None
    StartedAt <- MCStartedAt
    PageJobs = {j1}
    Preselected = local
    PreselectedPeriod = None
    RunIds = {r1, r2}
    MaxWire = 2
    Ends = {"failed"}
    schedule = schedule
    enabled = enabled
    Fields = {schedule, enabled}
    Values = {0, 1}
    Fixed = {enabled}
    Optional = {schedule}
    Empty = 0
    Default <- MCDefault
    FirstSaved <- MCFirstSaved
    MaxNews = 1
    localhost = localhost
    app = app
    d1 = d1
    d2 = d2
    v1 = v1
    Types = {"path", "postgres", "postgres-container", "container-volume"}
    Hosts = {localhost}
    LocalHost = localhost
    Containers = {app}
    Databases <- MCDatabases
    VolumesOf <- MCVolumesOf
    Texts = {text}
    Faults = {"listing", "slow", "connect", "file", "crash"}
INVARIANTS
    RunningIsActive
    StatusTellsOutcome
    RestoredFilesAreWhole
    AsksForWhatIsListed
    StreamIsTrue
    SentAsChosen
PROPERTIES
    KeepsItsPromise
    WorkersEnd
    PageFollows
    SavesWhatItShows
CHECK_DEADLOCK FALSE
