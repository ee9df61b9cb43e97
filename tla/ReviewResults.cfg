CONSTANTS
    MaxLine = 3
    MaxFiles = 2
    MaxChanges = 2
    MaxSplits = 1
    MaxFindings = 2
SPECIFICATION ResultSpec
INVARIANTS
    RangesAreChanges
    CommentIsFaithful
CHECK_DEADLOCK FALSE
