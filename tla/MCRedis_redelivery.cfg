CONSTANTS
    i1 = i1
    Invoices = {i1}
    Answers <- MCDoubtful
    Consumers <- MCChain
    LocalDispatch = TRUE
    Count = 2
    MaxRetries = 1
    MaxCopies = 1
    MaxUploads = 2
    MaxDecisions = 1
    MaxFaults = 0
    MaxDeaths = 1
SPECIFICATION Spec
INVARIANTS AutoPostIsClean DuplicatesPostOnce
\* When every stream is read the worker waits.
CHECK_DEADLOCK FALSE
