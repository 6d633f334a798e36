CONSTANTS
    Requests = {r1, r2}
SPECIFICATION FairSpec
CHECK_DEADLOCK FALSE
INVARIANTS
    TypeOK
    Released
    DrainedBeforeClose
    NoQueryCut
PROPERTIES
    SignalEndsProcess
