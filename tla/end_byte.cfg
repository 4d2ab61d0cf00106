SPECIFICATION Spec
CONSTANTS
    ROWS = 2
    INACTIVE = 1
    KeyStates <- MCKeyStates
    RxCap = 3
    StaleReads = TRUE
    MaxLost = 1
    MaxLate = 0
    MaxError = 0
PROPERTIES
    EndByteProvesAnswer
