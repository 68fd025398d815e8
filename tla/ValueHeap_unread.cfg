CONSTANTS
    Block = {b1, b2, b3}
    Null = Null
    Chan = {c1}
    MaxTasks = 1
    MaxQueue = 1
SYMMETRY Symmetry
SPECIFICATION Spec
INVARIANTS
    NothingFreedTwice
