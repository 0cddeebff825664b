SPECIFICATION Spec
CONSTANTS
    AddrSpace = 36
    TextAddrs <- MCTextAddrs
    TextBot = 4
    ExceptionAddr = 24
    Values <- MCValues
    NoAddr = NoAddr
    NoLoad = NoLoad
    Programs <- AnyProgram
    Levels = {5, 7}
    StatusWrites <- AnyStatus
    CauseWrites <- OnlyClear
    FailModes = {TRUE, FALSE}
    DelayedBranches = FALSE
    DelayedLoads = FALSE
    SyscallsEnabled = TRUE
    DisplayAddrs = {0, 4}
    MaxDepth = 0
INVARIANTS PendingBlocksInterrupts TournamentOnlyInterrupts
PROPERTY DroppedOnlyByPrinting
CHECK_DEADLOCK FALSE
