SPECIFICATION FairSpec
CONSTANTS
    Posters = {p1, p2}
    PackCapacity = 2
    DefaultPacks = 1
    ConfiguredPacks = 2
    QuietClose = FALSE
    MaxPosts = 4
    MaxThrows = 1
INVARIANTS TextsComeThrough PacksAccounted
PROPERTY EventuallyLogged
CHECK_DEADLOCK FALSE
