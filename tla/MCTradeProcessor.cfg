SPECIFICATION FairSpec
CONSTANTS
    Reqs = {"w1", "w2"}
    Orders = {"o1", "o2"}
    KnownOrders = {"o1"}
    FirstRows <- MCFirstRows
    MaxMsgs = 2
INVARIANTS OneFate RefsAccounted OvertakenOnce
PROPERTY EventuallyDecided
CHECK_DEADLOCK FALSE
