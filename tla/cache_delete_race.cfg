CONSTANTS
    Calls = {c1, c2, c3}
    Contexts = {c1, c2, c3}
    Aliases = {a1}
    URLs = {u1}
    None = None
    k1 = k1
    k2 = k2
    NoCall = NoCall
    MaxDBFaults = 0
    MaxRedisFaults = 0
    CtxOf <- MCCtxOf
SPECIFICATION Spec
CHECK_DEADLOCK FALSE
INVARIANT
    DeletedFromCache
