CONSTANTS
    MaxIterations = 2
    Patience = 1
    Outcomes <- MCOutcomes
    DbFaults = TRUE
SPECIFICATION Spec
CHECK_DEADLOCK FALSE
INVARIANT ErrorsArePersisted
