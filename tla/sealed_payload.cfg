SPECIFICATION Spec
CONSTANTS
    left = left
    Halves = {left}
    KeyIdMod = 4
    RekeyInterval = 1
    SeedLen = 1
    FifoCap = 1
    StoresZero = FALSE
    RxCap = 1
    MaxSeed = 2
    MaxCounter = 2
    MaxLoss = 0
    MaxKbReset = 0
    MaxRcvReset = 0
    MaxRekeyFault = 0
    MaxSealFault = 1
    MaxPacketFault = 0
INVARIANTS
    ReadyPayloadSealed
