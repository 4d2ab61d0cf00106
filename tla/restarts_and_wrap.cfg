SPECIFICATION Spec
CONSTANTS
    left = left
    Halves = {left}
    KeyIdMod = 4
    RekeyInterval = 0
    SeedLen = 2
    FifoCap = 1
    StoresZero = TRUE
    RxCap = 1
    MaxSeed = 4
    MaxCounter = 1
    MaxLoss = 1
    MaxKbReset = 1
    MaxRcvReset = 1
    MaxRekeyFault = 1
    MaxSealFault = 1
    MaxPacketFault = 2
CONSTRAINTS
    TwoDisturbances
    FaultsAlone
    TwoFaultsEarly
INVARIANTS
    TypeOK
    OfferWellFormed
    KeyOrder
PROPERTIES
    AcceptedPacketsDecrypt
    ConfirmOnlyOffered
