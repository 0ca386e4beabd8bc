SPECIFICATION FairSpec
CONSTANTS
    a = a
    b = b
    status = status
    Data = {a, b}
    Status = status
    BufLen = 3
    MaxLen = 5
INVARIANTS TypeOK
PROPERTIES IsCopy TransferEnds
CHECK_DEADLOCK FALSE
