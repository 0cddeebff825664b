SPECIFICATION FairSpec
CONSTANTS
    AddrSpace = 36
    TextAddrs <- MCTextAddrs
    TextBot = 4
    ExceptionAddr = 24
    Values <- MCValues
    NoAddr = NoAddr
    NoLoad = NoLoad
    Programs <- TransparentPrograms
    Levels = {5, 7}
    StatusWrites <- UserStatus
    CauseWrites <- OnlyClear
    FailModes = {FALSE}
    DelayedBranches = FALSE
    DelayedLoads = FALSE
    SyscallsEnabled = TRUE
    DisplayAddrs = {}
    MaxDepth = 0
PROPERTIES ImplementsUserProgram ExceptionReachesHandler
CHECK_DEADLOCK FALSE
