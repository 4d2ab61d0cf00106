SPECIFICATION Spec
CONSTANTS
    BlockSize = 3
    HashBlockSize = 4
    CounterMod = 4
    OkmLens = {0, 1, 3, 4, 8, 9, 10}
    InfoLens = {0, 1, 2, 4}
    MaxMessage = 7
    MaxMacs = 2
    MaxFault = 2
INVARIANTS
    TypeOK
    ExpandIsReference
    OneMacPerBlock
PROPERTIES
    MacIsReference
CHECK_DEADLOCK FALSE
