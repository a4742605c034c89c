CONSTANTS
    i1 = i1
    Invoices = {i1}
    Answers <- MCAnswers
    Consumers <- MCEnds
    LocalDispatch = TRUE
    Count = 2
    MaxRetries = 1
    MaxCopies = 2
    MaxUploads = 1
    MaxDecisions = 1
    MaxFaults = 3
    MaxDeaths = 1
SPECIFICATION FairSpec
INVARIANTS TypeOK NothingStalls
PROPERTIES ImplementsPayments EveryStepCounts UploadsComeToRest StreamsEmpty
\* When every stream is read the worker waits.
CHECK_DEADLOCK FALSE
