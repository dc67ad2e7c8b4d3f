SPECIFICATION Spec
CONSTANTS
    MaxCmds = 3
    MaxBreaks = 3
    MaxEvents = 1
    MaxMs = 1
INVARIANTS NoOrphanKd
PROPERTIES OutputIsItsOwn ToolReturns
