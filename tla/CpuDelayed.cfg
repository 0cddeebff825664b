SPECIFICATION Spec
CONSTANTS
    AddrSpace = 36
    TextAddrs <- MCTextAddrs
    TextBot = 4
    ExceptionAddr = 24
    Values <- MCValues
    NoAddr = NoAddr
    NoLoad = NoLoad
    Programs <- DelayedPrograms
    Levels = {}
    StatusWrites <- AnyStatus
    CauseWrites <- OnlyClear
    FailModes = {FALSE}
    DelayedBranches = TRUE
    DelayedLoads = TRUE
    SyscallsEnabled = FALSE
    DisplayAddrs = {0}
    MaxDepth = 3
INVARIANTS TypeOK ResumeAddressKept
CHECK_DEADLOCK FALSE
