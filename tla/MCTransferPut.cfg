SPECIFICATION PutSpec
CONSTANTS
    a = a
    b = b
    status = status
    Data = {a, b}
    Status = status
    BufLen = 2
    MaxLen = 4
INVARIANTS UploadsStoredData
CHECK_DEADLOCK FALSE
