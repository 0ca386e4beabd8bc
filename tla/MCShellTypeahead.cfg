SPECIFICATION FairSpec
CONSTANTS
    a = a
    b = b
    nul = nul
    none = none
    Bytes = {a, b}
    BufLen = 4
    MaxOut = 1
    MaxIn = 2
    WriteMayBlock = FALSE
    MayDisconnect = FALSE
    Nul = nul
    None = none
PROPERTIES InputSent
CHECK_DEADLOCK FALSE
