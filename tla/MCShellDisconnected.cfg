SPECIFICATION FairSpec
CONSTANTS
    a = a
    b = b
    nul = nul
    none = none
    Bytes = {a, b}
    BufLen = 4
    MaxOut = 1
    MaxIn = 1
    WriteMayBlock = TRUE
    MayDisconnect = TRUE
    Nul = nul
    None = none
PROPERTIES EndsWhenDisconnected
CHECK_DEADLOCK FALSE
