\* Games that run out of calls stop.
CHECK_DEADLOCK FALSE
SPECIFICATION Spec
CONSTANTS
    Games = {"g1", "g2"}
    FileNames <- MCFileNames
    File <- MCFile
    MaxSlots = 1
    Transactions <- MCTransactions
    Script <- MCScript
    MaxFaults = 1
    None = None
    Torn = Torn
INVARIANTS
    AckedLoads
    QuotaBound
    BooksBalance
    EditsOnlyShorten
PROPERTIES
    LoadsAreCommits
