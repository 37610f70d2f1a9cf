SPECIFICATION FairSpec
CONSTANTS
    Queries = {q1, q2}
    Cmds = {"account", "openinter", "entrust", "checker_deal"}
    Accounts = {a1, a2}
    Units = {a1}
    OrderNos = {n1}
    Timeout = 1
    MaxRecords = 2
    NULL = NULL
INVARIANTS RefsAccounted OnlyErrorsComeLate CheckerGetsItsOrder
PROPERTIES EventuallyAnswered EventuallyForgotten
CHECK_DEADLOCK FALSE
