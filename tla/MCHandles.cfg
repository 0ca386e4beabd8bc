SPECIFICATION Spec
CONSTANTS
    lib = lib
    k1 = k1
    k2 = k2
    s1 = s1
    s2 = s2
    c1 = c1
    c2 = c2
    l1 = l1
    f1 = f1
    f2 = f2
    none = none
    Lib = lib
    Sockets = {k1, k2}
    Sessions = {s1, s2}
    Channels = {c1}
    Listeners = {l1}
    Fds = {f1, f2}
    None = none
SYMMETRY Symmetric
INVARIANTS TypeOK StandsOnLive WritesOwnSocket FdsAccounted CleanExit IInv
PROPERTIES ReverseOrder
CHECK_DEADLOCK FALSE
