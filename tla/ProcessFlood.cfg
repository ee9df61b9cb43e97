\* An agent that writes more than its limit.
CONSTANTS
    Limit = 1
    PipeSize = 1
    MaxCancels = 0
SPECIFICATION FairSpec
PROPERTIES
    OutputLimitEndsRun
CHECK_DEADLOCK FALSE
