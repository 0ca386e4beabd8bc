SPECIFICATION RelaysFairSpec
CONSTANTS
    a = a
    b = b
    Data = {a, b}
    BufLen = 2
    Window = 2
    MaxUp = 3
    MaxDn = 3
INVARIANTS RelaysTypeOK DrainedByRelay
PROPERTIES DirectUpIsPipe DownIsPipe CloseEndsRelay DirectForwardsAll
CHECK_DEADLOCK FALSE
