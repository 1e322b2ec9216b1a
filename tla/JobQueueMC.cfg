CONSTANTS
    NumJobs = 2
    Workers = {w1, w2}
    MaxBoots = 2
    Stops = TRUE
    DbFaults = TRUE
    Crashes = TRUE
SPECIFICATION FairSpec
\* Services that were shut down, with all jobs submitted, take no step.
CHECK_DEADLOCK FALSE
INVARIANTS
    TypeOK
    OneRunPerJob
    RunningJobsAreHeld
PROPERTIES
    NothingRevives
    OnlyEarlierLoadOverwrites
    QueuedJobsAreTaken
    ShutdownEnds
