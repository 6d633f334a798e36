CONSTANTS
    Emails = {e1}
    Slots = {s1}
    s1 = s1
    s2 = s2
    n1 = n1
    None = None
    AppID = 1
    AccessTTL = 1
    MaxPairs = 1
    MaxLate = 1
    MaxTime = 1
    Addrs = {k1}
    AuthRate = 1
    AuthBurst = 3
    WriteRate = 1
    WriteBurst = 1
    Names = {n1}
    Slugs <- MCSlugs
    Rolls = {n1}
SPECIFICATION GatewaySpec
INVARIANT
    EveryLinkServed
