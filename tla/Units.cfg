SPECIFICATION MCSpec
CONSTANTS
    CPUs = {c1, c2}
    Delayed = {c1}
    NoLoad = NoLoad
    Regs = {0, 1, 2, 3}
    Values <- Singles
    Zero <- ZeroSingle
    HalfBits = 2
    Rt = 0
    Memory <- EightBytes
    Register <- RegisterBytes
    Addresses <- AllAddresses
    MaxPairs = 2
    MaxWait = 1
    Doubles <- TwoDoubles
    Words = {0, 1, 2}
    MaxSteps = 4
    Codes = {0, 1, 7}
    Conditions <- SomeConditions
    Numbers = {0, 10, 21}
    CodesNamed = {0, 1, 5}
    Distances <- SomeDistances
    Images <- SomeImages
    Room = 16
    DataBot = 0
    KDataBot = 1024
    DataLimit = 1024
    Data <- SomeData
    SpaceSizes = {1}
    Alignments = {0, 1, 4}
    CommSizes = {3}
    DataPoints = {29, 40}
    MaxLines = 4
    Dests = {2, 3, 4}
    Sources1 = {0, 2}
    Sources2 = {0, 2, 3}
INVARIANTS
    ArithmeticTypeOK
    ShiftsMoveBits
    TestsOrderWords
    UnalignedWordsMove
    BytesKeepTheirPlace
    DoublesStayWhole
    CodesLinked
    CodeZeroKept
    CopyKeepsMeaning
    ClassesMatchFormats
    BranchReachesLabel
    PseudoMeansItsName
    DataReadBack
    LabelsReachData
    ListMeansItsItems
PROPERTIES
    EachLoadDelayed
    ImplementsAccumulator
    SavedStatusRestored
CHECK_DEADLOCK FALSE
