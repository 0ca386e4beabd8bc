SPECIFICATION ForwardSpec
CONSTANTS
    a = a
    b = b
    Data = {a, b}
    BufLen = 2
    Window = 2
    MaxUp = 2
    MaxDn = 3
INVARIANTS ForwardsWhatWasWritten
CHECK_DEADLOCK FALSE
