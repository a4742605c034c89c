CONSTANTS
    u1 = u1 u2 = u2 p1 = p1 p2 = p2 f1 = f1 none = none
    NoRecord = none
    Uploads = {u1}
    Foreign = {}
    Publishers = {p1}
    Limit = 2
    LoopRunning = TRUE
    SharedBus = FALSE
    MaxFaults = 1
SPECIFICATION FairSpec
PROPERTY CommittedIsSent
\* When every row is published the publishers have nothing to do.
CHECK_DEADLOCK FALSE
