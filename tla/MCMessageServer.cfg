SPECIFICATION FairSpec
CONSTANTS
    Producers = {p1, p2}
    Workers = {w1, w2}
    Keys = {k1, k2}
    Capacity = 1
    ReleaseOpen = TRUE
    MaxPosts = 3
    MaxRuns = 2
INVARIANTS Accounted WakeUpsSuffice
PROPERTIES EventuallyServed StopReturns
CHECK_DEADLOCK FALSE
