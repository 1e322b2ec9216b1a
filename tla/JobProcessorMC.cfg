CONSTANTS
    MaxIterations = 4
    Patience = 2
    Outcomes <- MCOutcomes
    DbFaults = TRUE
SPECIFICATION FairSpec
\* A job ends: after process() and the last cancel request nothing moves.
CHECK_DEADLOCK FALSE
INVARIANTS
    TypeOK
    HistoryIsReconstructible
    CandidatesBuildOnBest
    JobRowTellsTheBest
    OnlyNewestIterationIsOpen
    NothingLeftInFlight
    StopReasonIsBorneOut
PROPERTIES
    FollowsTheQueue
    CancelCostsOneIteration
    ImplementsHillClimb
    ProcessorTerminates
