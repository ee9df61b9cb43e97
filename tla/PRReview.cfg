\* Two reviews of one pull request with two of: a push, a halt and a lapsed lease,
\* on a forge that rewrites comments, under fairness.
CONSTANTS
    NTasks = 2
    Patches = TRUE
    UPSTREAM_MAX_RETRIES = 3
    AGENT_JOB_ATTEMPTS = 2
    MaxPushes = 1
    MaxHalts = 1
    MaxLapses = 1
    MaxEvents = 2
SPECIFICATION FairSpec
INVARIANTS
    ClaimIffActive
    CompletedIsPublished
    OneCommentPerRevision
PROPERTIES
    LostReviewerNeverWrites
    EveryReviewEnds
CHECK_DEADLOCK FALSE
