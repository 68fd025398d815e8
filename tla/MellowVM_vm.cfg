CONSTANTS
    None = None
    MaxSteps = 1000
    Programs <- MCPrograms
    Debugged <- MCDebugged
    Breakpoints <- MCBreakpoints
    MaxCommands = 3
SPECIFICATION DebugSpec
INVARIANTS
    EnginesAgree
    FlowIsKnown
PROPERTIES
    SourceSpec
CHECK_DEADLOCK FALSE
