CONSTANTS
    Names <- MCNames
    Releases <- MCReleases
    Deps <- MCDeps
    Starter <- MCStarter
    MaxOps = 2
    MaxFault = 1
SPECIFICATION FairSpec
INVARIANTS ClosesDependencies OneSlipOnePackage SyncDelivers
PROPERTY CommandsEnd
CHECK_DEADLOCK FALSE
