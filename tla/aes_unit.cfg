SPECIFICATION FairSpec
CONSTANTS
    a = a
    b = b
    Contexts = {a, b}
    MaxWait = 2
INVARIANTS
    TypeOK
PROPERTIES
    OwnCiphertext
    CallsReturn
