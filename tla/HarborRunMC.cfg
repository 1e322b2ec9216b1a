CONSTANTS
    t1 = t1
    NoTask = NoTask
    TaskIds <- OneTask
    MaxRuns = 2
    MaxStrays = 1
SPECIFICATION FairSpec
CHECK_DEADLOCK FALSE
INVARIANTS
    TypeOK
    RunnerIsGone
    PassesAreEarned
    ArtifactsAreOfThisRun
PROPERTIES
    ProgressOnlyMovesForward
    CancelEndsRun
    DeadlineEndsRun
