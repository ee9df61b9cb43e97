\* A queue of three items, two messages, three faults.
CONSTANTS
    QUEUE_CAPACITY = 3
    MaxMessages = 2
    MaxFaults = 3
SPECIFICATION FairSpec
INVARIANTS
    ReadyIsServing
    NoChildAfterStop
PROPERTIES
    GatewayRecovers
CHECK_DEADLOCK FALSE
