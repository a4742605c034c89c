CONSTANTS
    LLMRetries = 3
    EventRetries = 3
    MaxFaults = 5
SPECIFICATION FairSpec
INVARIANTS TypeOK CallsAreBounded GivesUpOnlyWhenSpent SchemaIsSentOnce
PROPERTIES EveryStepCounts ExtractionEnds
\* The handler returns.
CHECK_DEADLOCK FALSE
