SPECIFICATION Spec
CONSTANTS
    Producers = {p1, p2, p3}
    PageMsgCount = 2
    PageIndexCount = 2
    MaxPush = 2
    NULL = NULL
SYMMETRY ProducerSymmetry
INVARIANT NoDanglingAccess
CHECK_DEADLOCK FALSE
