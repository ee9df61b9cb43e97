\* Two commands delivered twice and one notice, with one error of sending, one
\* database fault and one crash, under fairness.
CONSTANTS
    Commands = {m1, m2}
    Notices = {n1}
    MaxDeliveries = 2
    MaxErrors = 1
    MaxFaults = 1
    MaxCrashes = 1
SPECIFICATION FairSpec
INVARIANTS
    ReplyTellsEffect
    ToldWhatIsStored
PROPERTIES
    PendingIsDelivered
CHECK_DEADLOCK FALSE
