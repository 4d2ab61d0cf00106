SPECIFICATION FairSpec
CONSTANTS
    left = left
    Halves = {left}
    KeyIdMod = 4
    RekeyInterval = 0
    SeedLen = 1
    FifoCap = 1
    StoresZero = FALSE
    RxCap = 1
    MaxSeed = 2
    MaxCounter = 1
    MaxLoss = 2
    MaxKbReset = 1
    MaxRcvReset = 1
    MaxRekeyFault = 1
    MaxSealFault = 0
    MaxPacketFault = 1
INVARIANTS
    InductiveInv
    KeysCurrent
PROPERTIES
    PacketsKeepArriving
    LeavesInitialKey
    ImplementsKeyAgreement
CONSTRAINTS
    TwoDisturbances
    FaultsAlone
