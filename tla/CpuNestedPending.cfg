SPECIFICATION Spec
CONSTANTS
    AddrSpace = 36
    TextAddrs <- MCTextAddrs
    TextBot = 4
    ExceptionAddr = 24
    Values <- MCValues
    NoAddr = NoAddr
    NoLoad = NoLoad
    Programs <- AnyProgram
    Levels = {5}
    StatusWrites <- AnyStatus
    CauseWrites <- OnlyClear
    FailModes = {FALSE}
    DelayedBranches = FALSE
    DelayedLoads = FALSE
    SyscallsEnabled = FALSE
    DisplayAddrs = {}
    MaxDepth = 0
INVARIANT ResumeAddressKept
CHECK_DEADLOCK FALSE
