SPECIFICATION Spec
CONSTANTS
    left = left
    Halves = {left}
    KeyIdMod = 4
    RekeyInterval = 0
    SeedLen = 1
    FifoCap = 2
    StoresZero = FALSE
    RxCap = 2
    MaxSeed = 3
    MaxCounter = 1
    MaxLoss = 1
    MaxKbReset = 1
    MaxRcvReset = 0
    MaxRekeyFault = 0
    MaxSealFault = 0
    MaxPacketFault = 0
CONSTRAINTS
    OneDisturbance
    FewInTransit
INVARIANTS
    QueuedOffersCurrent
    KeyboardInStep
PROPERTIES
    AcceptedPacketsDecrypt
