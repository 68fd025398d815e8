CONSTANTS
    Publishers = {p1, p2}
    Client = client
    Versions = {v1, v2}
    Archives = {a, b}
    Absent = Absent
    Torn = Torn
    Unknown = Unknown
    MaxPublish = 2
    MaxLogin = 1
    MaxFetch = 2
    MaxCrash = 1
SPECIFICATION Spec
SYMMETRY Symmetry
INVARIANTS AckedIsFetchable InstalledAsDescribed
PROPERTY CatalogSpec
CHECK_DEADLOCK FALSE
