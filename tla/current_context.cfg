SPECIFICATION Spec
CONSTANTS
    left = left
    Halves = {left}
    KeyIdMod = 4
    RekeyInterval = 1
    SeedLen = 1
    FifoCap = 1
    StoresZero = TRUE
    RxCap = 1
    MaxSeed = 4
    MaxCounter = 2
    MaxLoss = 0
    MaxKbReset = 0
    MaxRcvReset = 0
    MaxRekeyFault = 0
    MaxSealFault = 0
    MaxPacketFault = 0
INVARIANTS
    CurrentContextKept
