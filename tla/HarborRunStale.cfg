CONSTANTS
    t1 = t1
    NoTask = NoTask
    TaskIds <- OneTask
    MaxRuns = 2
    MaxStrays = 1
SPECIFICATION Spec
CHECK_DEADLOCK FALSE
INVARIANT NeverSeesStaleResult
