CONSTANTS
    Keys = {k1, k2}
    Rate = 2
    Burst = 4
    Cost = 3
    TTL = 2
    Slack = 1
    Absent = Absent
    MaxTime = 8
SPECIFICATION Spec
INVARIANTS
    TypeOK
    WindowBound
    IdleBound
PROPERTIES
    ImplementsTokenBucket
