\* Two issues on pages of one, two disturbances.
CONSTANTS
    NIssues = 2
    PER_PAGE = 1
    full_sync_every = 2
    MaxNow = 3
    MaxVersion = 2
    MaxChanging = 1
    MaxEvents = 2
SPECIFICATION FairSync
INVARIANTS
    StaleIsListedAgain
    RunningIsSyncing
PROPERTIES
    MirrorConverges
CHECK_DEADLOCK FALSE
