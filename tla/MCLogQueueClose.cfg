SPECIFICATION Spec
CONSTANTS
    Posters = {p1, p2}
    PackCapacity = 2
    DefaultPacks = 2
    ConfiguredPacks = 2
    QuietClose = TRUE
    MaxPosts = 3
    MaxThrows = 0
INVARIANT AllLoggedAtClose
CHECK_DEADLOCK FALSE
