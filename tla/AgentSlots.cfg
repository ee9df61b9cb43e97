\* Three jobs, one slot, one retry, under fairness.
CONSTANTS
    Jobs = {j1, j2, j3}
    Limit = 1
    MaxRetries = 1
SPECIFICATION FairSpec
INVARIANTS
    SlotsConserved
    QueueIsWaiting
PROPERTIES
    EveryJobEnds
CHECK_DEADLOCK FALSE
