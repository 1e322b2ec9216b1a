CONSTANTS
    NumJobs = 1
    Workers = {w1}
    MaxBoots = 1
    Stops = FALSE
    DbFaults = TRUE
    Crashes = FALSE
SPECIFICATION FairSpec
CHECK_DEADLOCK FALSE
PROPERTY QueueIsServed
