CONSTANT Answers <- MCAnswers
SPECIFICATION Spec
INVARIANTS DecisionMeetsThresholds SuspicionNeverHelps
\* The pipeline ends with the decision.
CHECK_DEADLOCK FALSE
