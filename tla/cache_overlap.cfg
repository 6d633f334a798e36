CONSTANTS
    Calls = {c1, c2, c3, c4}
    Contexts = {k1}
    Aliases = {a1, a2}
    URLs = {u1}
    None = None
    NoCall = NoCall
    MaxDBFaults = 0
    MaxRedisFaults = 1
    CtxOf <- MCOneCtx
SPECIFICATION StaleSpec
SYMMETRY Symmetry
CHECK_DEADLOCK FALSE
INVARIANTS
    Provenance
    StaleExplained
