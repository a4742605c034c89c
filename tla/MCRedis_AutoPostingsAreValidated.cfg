CONSTANTS
    i1 = i1
    Invoices = {i1}
    Answers <- MCAnswers
    Consumers <- MCConsumers
    LocalDispatch = TRUE
    Count = 2
    MaxRetries = 1
    MaxCopies = 2
    MaxUploads = 1
    MaxDecisions = 1
    MaxFaults = 1
    MaxDeaths = 0
SPECIFICATION Spec
PROPERTY AutoPostingsAreValidated
\* When every stream is read the worker waits.
CHECK_DEADLOCK FALSE
