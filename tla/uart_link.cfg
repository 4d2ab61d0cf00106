SPECIFICATION FairSpec
CONSTANTS
    ROWS = 2
    INACTIVE = 1
    KeyStates <- MCKeyStates
    RxCap = 3
    StaleReads = FALSE
    MaxLost = 1
    MaxLate = 1
    MaxError = 1
CONSTRAINT OneFault
INVARIANTS
    TypeOK
    ScansStayAligned
PROPERTIES
    MatrixFollowsPackets
    SilentHalfReleased
