CONSTANTS
    Procs = {p1, p2}
    Ops = {"submit", "drain"}
    Workers = 1
    Limit = 2
    MaxAtt = 2
    Torn = Torn
    MaxJobs = 2
    MaxRevived = 0
    MaxRuns = 3
    MaxOverlap = 1
    MaxFaults = 1
SPECIFICATION Spec
INVARIANTS
    AcceptedIsFetchable
