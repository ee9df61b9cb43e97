\* Two tokens that may share a stage, three requests, small quotas.
CONSTANTS
    Tokens = {t1, t2}
    Keys = {k1, k2}
    Requests = {r1, r2, r3}
    MaxRequests = 2
    MaxConcurrency = 1
    MaxBytes = 2
    MaxChunk = 2
SPECIFICATION Spec
INVARIANTS
    TypeOK
    UsageFollowsLeases
    InFlightExact
PROPERTIES
    UsageOnlyGrows
CHECK_DEADLOCK FALSE
