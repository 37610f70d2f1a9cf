SPECIFICATION FairSpec
CONSTANTS
    Producers = {p1, p2}
    PageMsgCount = 2
    PageIndexCount = 2
    MaxPush = 3
    NULL = NULL
INVARIANTS NoDanglingAccess DeliveredInClaimOrder NoWrapAround PagesAccounted OvershootBounded
PROPERTIES ImplementsFifo EventuallyPopped
CHECK_DEADLOCK FALSE
