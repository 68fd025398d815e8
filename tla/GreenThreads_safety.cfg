CONSTANTS
    Addr = {a1, a2}
    Null = Null
    Payload = {p}
    MaxTasks = 3
    MaxQueue = 1
SPECIFICATION FairSpec
INVARIANTS
    TypeOK
    CurrentIsReady
    NoLostWakeup
    HaltIsQuiescent
    SoleTaskSafe
PROPERTIES
    ReadyRuns
