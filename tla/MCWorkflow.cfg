CONSTANTS
    i1 = i1 i2 = i2 r1 = r1 r2 = r2 none = none
    Invoices = {i1}
    Approvals = {r1, r2}
    NoInvoice = none
    Answers <- MCAnswers
    MaxRetries = 1
    MaxFaults = 3
    MaxCrashes = 2
SPECIFICATION FairSpec
INVARIANTS TypeOK CompletedIsPosted PostedOncePerRun AutoPostIsClean
           NoSilentDrop DivergenceIsPending
PROPERTIES CompletedNeverReposts ImplementsPayments EveryStepCounts
           UploadSettles DecisionSettles
\* The requests are finitely many: when all have ended the engine is idle.
CHECK_DEADLOCK FALSE
