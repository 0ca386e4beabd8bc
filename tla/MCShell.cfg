SPECIFICATION FairSpec
CONSTANTS
    a = a
    b = b
    nul = nul
    none = none
    Bytes = {a, b}
    BufLen = 2
    MaxOut = 3
    MaxIn = 3
    WriteMayBlock = TRUE
    MayDisconnect = TRUE
    Nul = nul
    None = none
INVARIANTS TypeOK OutputConserved InputInOrder LeavesWhenShown
PROPERTIES KeysKept EndsAtEof
CHECK_DEADLOCK FALSE
