SPECIFICATION Spec
CONSTANTS
    left = left
    right = right
    Halves = {left, right}
    KeyIdMod = 4
    RekeyInterval = 0
    SeedLen = 1
    FifoCap = 1
    StoresZero = FALSE
    RxCap = 1
    MaxSeed = 2
    MaxCounter = 1
    MaxLoss = 0
    MaxKbReset = 0
    MaxRcvReset = 0
    MaxRekeyFault = 0
    MaxSealFault = 0
    MaxPacketFault = 0
INVARIANTS
    ContextsWhole
CONSTRAINT HalvesSendInTurn
