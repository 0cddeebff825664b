SPECIFICATION Spec
CONSTANTS
    AddrSpace = 36
    TextAddrs <- MCTextAddrs
    TextBot = 4
    ExceptionAddr = 24
    Values <- MCValues
    NoAddr = NoAddr
    NoLoad = NoLoad
    Programs <- DelayedPrograms
    Levels = {5}
    StatusWrites <- AnyStatus
    CauseWrites <- OnlyClear
    FailModes = {FALSE}
    DelayedBranches = TRUE
    DelayedLoads = TRUE
    SyscallsEnabled = FALSE
    DisplayAddrs = {}
    MaxDepth = 3
INVARIANT NestedCallRunsDelaySlot
CHECK_DEADLOCK FALSE
