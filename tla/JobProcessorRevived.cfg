CONSTANTS
    MaxIterations = 2
    Patience = 1
    Outcomes <- MCOutcomes
    DbFaults = FALSE
SPECIFICATION Spec
CHECK_DEADLOCK FALSE
PROPERTY CancelledNeverCompletes
