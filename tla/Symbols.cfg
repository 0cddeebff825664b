SPECIFICATION Spec
CONSTANTS
    Names = {x}
    NoSym = NoSym
    TextBase <- MCTextBase
    DataBase <- MCDataBase
    DataPoints <- MCDataPoints
    DataTop <- MCDataTop
    GpBase <- MCGpBase
    GpTop <- MCGpTop
    ExternSizes = {4}
    LcommSizes = {4, 12}
    CommSizes = {4}
    Offsets = {4, 32768}
    GpNamesReused = FALSE
    DelayedBranches = TRUE
    MaxText = 3
    MaxWords = 1
    MaxFiles = 2
INVARIANTS TypeOK ReferencesReachLabels DefinedLabelsAreResolved LocalsListedOnce
PROPERTY AddressesNeverMove
CHECK_DEADLOCK FALSE
