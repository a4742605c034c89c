CONSTANTS
    u1 = u1 u2 = u2 p1 = p1 p2 = p2 f1 = f1 none = none
    NoRecord = none
    Uploads = {u1, u2}
    Foreign = {f1}
    Publishers = {p1, p2}
    Limit = 2
    LoopRunning = TRUE
    SharedBus = TRUE
    MaxFaults = 2
SPECIFICATION FairSpec
INVARIANTS TypeOK PublishedWasSent RedeliveryIsBounded
PROPERTIES DeliversAtLeastOnce OutboxDrains
\* When every row is published the publishers have nothing to do.
CHECK_DEADLOCK FALSE
