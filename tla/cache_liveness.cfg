CONSTANTS
    Calls = {c1, c2, c3}
    Contexts = {k1, k2}
    Aliases = {a1}
    URLs = {u1}
    None = None
    k1 = k1
    k2 = k2
    NoCall = NoCall
    MaxDBFaults = 0
    MaxRedisFaults = 1
    CtxOf <- MCSharedCtx
SPECIFICATION FairSpec
CHECK_DEADLOCK FALSE
PROPERTIES
    CallsTerminate
