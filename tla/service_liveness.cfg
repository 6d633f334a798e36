CONSTANTS
    Clients = {k1, k2}
    Contexts = {k1, k2}
    Calls <- MCCalls
    CtxOf <- MCCtxOf
    Aliases = {a1}
    URLs = {u1}
    None = None
    Blank = Blank
    NoCall = NoCall
    MaxRetries = 2
    MaxDBFaults = 1
    MaxRedisFaults = 1
    MaxGenFaults = 1
SPECIFICATION ServiceFairSpec
CHECK_DEADLOCK FALSE
PROPERTIES
    RequestsAnswered
