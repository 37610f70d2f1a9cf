SPECIFICATION FairUnitSpec
CONSTANTS
    ConnectTicks = 7
    LoginTicks = 10
    MaxPosts = 1
    MaxFaults = 2
    MaxPushes = 1
    MaxTurns = 1
PROPERTIES ConnectGetsTime EventuallyReady EventuallySent StaleLoginRepaired
CHECK_DEADLOCK FALSE
