CONSTANTS
    MaxIterations = 5
    Patience = 3
    Outcomes <- MCOutcomes
SPECIFICATION Spec
\* The loop ends: a job that has stopped takes no further step.
CHECK_DEADLOCK FALSE
INVARIANTS
    TypeOK
    AcceptedAreRecords
    BestIsFirstMaximum
    MissesCountSinceBest
