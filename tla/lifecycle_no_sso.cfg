CONSTANTS
    Requests = {r1}
SPECIFICATION Spec
CHECK_DEADLOCK FALSE
INVARIANTS
    PublicWithoutSSO
