CONSTANTS
    Procs = {p1, p2}
    Ops = {"submit", "drain", "retry"}
    Workers = 1
    Limit = 2
    MaxAtt = 2
    Torn = Torn
    MaxJobs = 2
    MaxRevived = 1
    MaxRuns = 4
    MaxOverlap = 1
    MaxFaults = 1
SPECIFICATION FairSpec
INVARIANTS
    ExactlyOnePlace
    RunsBounded
    OnlySettledItemsAreSaved
    CrashKeepsJobs
PROPERTIES
    JobsSettle
