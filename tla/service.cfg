CONSTANTS
    Clients = {k1, k2, k3}
    Contexts = {k1, k2, k3}
    Calls <- MCCalls
    CtxOf <- MCCtxOf
    Aliases = {a1}
    URLs = {u1}
    None = None
    Blank = Blank
    NoCall = NoCall
    MaxRetries = 2
    MaxDBFaults = 1
    MaxRedisFaults = 0
    MaxGenFaults = 0
SPECIFICATION ServiceSpec
SYMMETRY Symmetry
CHECK_DEADLOCK FALSE
INVARIANTS
    ServiceTypeOK
    OneRowPerRequest
    ConflictIsForeign
    ExhaustedHonestly
    StatusHonest
