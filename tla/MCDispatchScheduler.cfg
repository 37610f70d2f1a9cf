SPECIFICATION FairSpec
CONSTANTS
    Workers = {w1, w2}
    Clients = {c1}
    Timers = {t1}
    MaxOps = 2
    MaxStarts = 2
    NULL = NULL
INVARIANTS UsersSafe OpsRunOnce TimersFireAsSet
PROPERTY EventuallyDone
CHECK_DEADLOCK FALSE
