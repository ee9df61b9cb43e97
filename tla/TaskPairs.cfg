\* Two tasks of one user that compete for its slot, or two tasks of one issue
\* whose handlers overlap.
CONSTANTS
    t1 = t1
    t2 = t2
    t3 = t3
    u1 = u1
    i1 = i1
    i2 = i2
    Tasks = {t1, t2, t3}
    Users = {u1}
    Issues = {i1, i2}
    Owner <- OneOwner
    IssueOf <- TwoIssues
    Rank <- InOrder
    Feedback = {}
    GlobalLimit = 2
    PerUserLimit = 1
    MaxClaims = 2
    MaxCrashes = 1
    MaxEdits = 3
SPECIFICATION Spec
CONSTRAINT Pairs
INVARIANTS
    QuotaRespected
    OneTaskPerIssue
CHECK_DEADLOCK FALSE
