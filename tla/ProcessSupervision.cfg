\* Every supervisor with a group of two processes and a small output limit.
CONSTANTS
    Limit = 1
    PipeSize = 2
    MaxCancels = 2
SPECIFICATION FairSpec
INVARIANTS
    NothingIsLeftBehind
    ReviewIsWhole
PROPERTIES
    OnlyHeldPipesHang
CHECK_DEADLOCK FALSE
