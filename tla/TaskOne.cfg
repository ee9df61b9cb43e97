\* One task through every pipeline, with feedback, crashes and retries.
CONSTANTS
    t1 = t1
    t2 = t2
    t3 = t3
    u1 = u1
    i1 = i1
    i2 = i2
    Tasks = {t1}
    Users = {u1}
    Issues = {i1}
    Owner <- OneOwner
    IssueOf <- TwoIssues
    Rank <- InOrder
    Feedback = {f1}
    GlobalLimit = 1
    PerUserLimit = 1
    MaxClaims = 3
    MaxCrashes = 1
    MaxEdits = 1
SPECIFICATION FairSpec
INVARIANTS
    TypeOK
    ClaimIffExecuting
    OneHolder
    PublicationIsSound
    NoOrphanRun
PROPERTIES
    LostWorkerNeverWrites
    ImplementsLifecycle
    ExecutionEnds
CHECK_DEADLOCK FALSE
