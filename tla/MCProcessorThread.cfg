SPECIFICATION FairSpec
CONSTANTS
    Posters = {p1, p2}
    MaxPost = 2
    PromptStart = TRUE
    PromptPost = TRUE
    NULL = NULL
INVARIANTS WorkerSafe StopEndsThread ReleasedOnce
PROPERTIES EventuallyHandled StopReturns
CHECK_DEADLOCK FALSE
