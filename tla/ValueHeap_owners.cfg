CONSTANTS
    Block = {b1, b2, b3, b4}
    Null = Null
    Chan = {c1}
    MaxTasks = 2
    MaxQueue = 1
SYMMETRY Symmetry
SPECIFICATION Spec
INVARIANTS
    HeldBySoleOwner
    FreedOnce
