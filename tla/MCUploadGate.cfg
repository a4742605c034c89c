CONSTANTS
    r1 = r1 r2 = r2
    Requests = {r1, r2}
    Documents <- MCDocuments
    Headers = {"absent", "no subject", "good"}
    MaxFaults = 1
SYMMETRY MCSymmetry
SPECIFICATION Spec
INVARIANTS TypeOK ProductionIsScanned RowHasItsFile AnswersAreTrue
\* The requests end.
CHECK_DEADLOCK FALSE
