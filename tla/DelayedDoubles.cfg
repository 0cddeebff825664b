SPECIFICATION FloatSpec
CONSTANTS
    CPUs = {c1}
    Delayed = {c1}
    NoLoad = NoLoad
    Regs = {0, 1, 2, 3}
    Doubles = {a, b}
    Values <- MCValues
    Zero <- MCZero
    Words = {0, 1, 2}
    MaxSteps = 4
INVARIANT DoublesArrive
CHECK_DEADLOCK FALSE
