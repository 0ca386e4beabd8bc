SPECIFICATION ExamplesFairSpec
CONSTANTS
    MaxIdentities = 2
    Total = 5
    BufSize = 2
    Window = 2
    BufLen = 6
    ReqLen = 2
INVARIANTS ExamplesTypeOK UsesWhatItHolds LeavesNothing RetriesEagain EchoComplete ReplyWhole
PROPERTIES ReleasesInOrder Authenticates Ends
CHECK_DEADLOCK FALSE
