CONSTANTS
    Calls = {c1, c2, c3}
    Contexts = {c1, c2, c3}
    Aliases = {a1, a2}
    URLs = {u1, u2}
    None = None
    NoCall = NoCall
    MaxDBFaults = 1
    MaxRedisFaults = 1
    CtxOf <- MCCtxOf
SPECIFICATION HistSpec
SYMMETRY Symmetry
CHECK_DEADLOCK FALSE
INVARIANTS
    TypeOK
    Provenance
    ExclusiveCreate
    CoherentUntilDeleted
    SingleFlight
    BreakerJustified
    ErrorsExplained
PROPERTIES
    ImplementsLinkStore
