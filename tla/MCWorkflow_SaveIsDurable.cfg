CONSTANTS
    i1 = i1 i2 = i2 r1 = r1 r2 = r2 none = none
    Invoices = {i1}
    Approvals = {r1, r2}
    NoInvoice = none
    Answers <- MCCleanAnswers
    MaxRetries = 1
    MaxFaults = 1
    MaxCrashes = 0
SPECIFICATION Spec
INVARIANT SaveIsDurable
\* The requests are finitely many: when all have ended the engine is idle.
CHECK_DEADLOCK FALSE
