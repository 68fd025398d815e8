CONSTANTS
    Addr = {a1, a2}
    Null = Null
    Payload = {p}
    MaxTasks = 2
    MaxQueue = 1
SPECIFICATION Spec
INVARIANTS
    NoDanglingHandle
