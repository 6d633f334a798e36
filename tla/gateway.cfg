CONSTANTS
    Emails = {e1}
    Slots = {s1, s2}
    s1 = s1
    s2 = s2
    n1 = n1
    None = None
    AppID = 1
    AccessTTL = 1
    MaxPairs = 2
    MaxLate = 1
    MaxTime = 1
    Addrs = {k1}
    AuthRate = 2
    AuthBurst = 2
    WriteRate = 1
    WriteBurst = 1
    Names = {n1}
    Slugs <- MCSlugs
    Rolls = {n1}
SPECIFICATION GatewaySpec
SYMMETRY MCSymmetry
INVARIANTS
    AuthTypeOK
    ClosedIsDead
    SessionKept
    WriteWithinSession
    LinkServed
PROPERTIES
    PaidOnce
