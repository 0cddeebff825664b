SPECIFICATION Spec
CONSTANTS
    Names = {x, y}
    NoSym = NoSym
    TextBase <- MCTextBase
    DataBase <- MCDataBase
    DataPoints <- MCDataPoints
    DataTop <- MCDataTop
    GpBase <- MCGpBase
    GpTop <- MCGpTop
    ExternSizes = {4}
    LcommSizes = {4, 12}
    CommSizes = {4}
    Offsets = {4}
    GpNamesReused = TRUE
    DelayedBranches = TRUE
    MaxText = 2
    MaxWords = 1
    MaxFiles = 2
PROPERTY AddressesNeverMove
CHECK_DEADLOCK FALSE
