\* Two calls of one kind on either forge.
CONSTANTS
    NCalls = 2
    PER_PAGE = 2
    FORK_POLL_ATTEMPTS = 2
    MaxCommit = 2
    MaxOthers = 3
    MaxDeleted = 1
SPECIFICATION FairSpec
INVARIANTS
    PublishedIsReal
    SecondCommentWasRaced
PROPERTIES
    CommentIsShown
    EveryCallEnds
CHECK_DEADLOCK FALSE
