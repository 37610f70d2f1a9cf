SPECIFICATION Spec
CONSTANTS
    Posters = {p1, p2}
    MaxPost = 1
    PromptStart = TRUE
    PromptPost = FALSE
    NULL = NULL
INVARIANTS PostersSafe
CHECK_DEADLOCK FALSE
