CONSTANTS
    Procs = {p1, p2}
    Bundles = {b1, b2}
    None = None
    Torn = Torn
    Percents = {0, 150}
    Splits <- MCSplits
    Reports <- MCReports
    Window = 2
    Recent = 3
    Kept = 3
    MaxRevs = 3
    MaxCalls = 5
    MaxReplicas = 3
    MaxCrash = 1
    Own = "app"
    OwnReleases <- MCOwn
    Releases <- MCReleases
    Published <- MCPublished
    Rank <- MCRank
    MaxCommands = 4
    MaxKills = 1
    Callers = {p1, p2}
    Tools <- MCTools
    Registered = {"search.docs", "time.now"}
    Policies <- MCPolicies
    Retries = 1
    Cut = Cut
    MaxJobs = 3
    Weight = 3
    SlowSteps = {3}
    MaxFull = 1
    MaxWipes = 1
SYMMETRY Symmetry
SPECIFICATION PlatformSpec
CHECK_DEADLOCK FALSE
INVARIANTS
    TrafficGoesToLive
    AckedRevisionKept
    DerivedFollowsReports
    ReportedIsInstalled
    InstallClosesDependencies
    EndedRunsAreRemembered
    AttemptsAreReported
    EventsNumberedInOrder
