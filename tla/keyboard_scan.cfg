SPECIFICATION FairSpec
CONSTANTS
    ROWS = 2
    DEBOUNCE = 3
    ACTIVITY = 7
    MaintPeriod = 2
    TxCap = 1
INVARIANTS
    TypeOK
    NeverDeaf
    ReleasedBeforeSleep
PROPERTIES
    OnlyStableKeys
    RestingKeysAreSent
