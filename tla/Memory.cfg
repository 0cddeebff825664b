SPECIFICATION Spec
CONSTANTS
    TEXT_BOT = 4
    TextSize = 8
    DATA_BOT = 16
    DataSize = 4
    DataLimit = 8
    STACK_TOP = 56
    StackSize = 4
    StackLimit = 24
    K_DATA_BOT = 60
    KDataSize = 8
    KDataLimit = 12
    SPECIAL_BOT = 76
    SPECIAL_TOP = 80
    DeviceAddrs <- MCDevices
    StackWindow = 20
    NullInst = NullInst
    Byte <- MCByte
    Loads <- MCLoads
    Stores <- OutsideCleared
    Words <- MCWords
    Sbrks <- MCSbrks
    KGrowths <- MCKGrowths
INVARIANTS TypeOK SegmentsDisjoint
PROPERTIES GrowthReachesAddress ImplementsFlatMemory
CHECK_DEADLOCK FALSE
