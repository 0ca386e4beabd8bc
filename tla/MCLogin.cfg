SPECIFICATION LFairSpec
CONSTANTS
    lib = lib
    k1 = k1
    s1 = s1
    c1 = c1
    f1 = f1
    f2 = f2
    none = none
    Lib = lib
    Sockets = {k1}
    Sessions = {s1}
    Channels = {c1}
    Listeners = {}
    Fds = {f1, f2}
    None = none
    socket = k1
    session = s1
    channel = c1
INVARIANTS LTypeOK ChannelKeepsConnection FailedLoginLeavesNothing
PROPERTIES NoCallRefused LoginUnwinds
CHECK_DEADLOCK FALSE
