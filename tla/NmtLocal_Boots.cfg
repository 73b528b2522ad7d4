SPECIFICATION FairSpec
CONSTANTS
    MnBuild = TRUE
    IsMn = TRUE
    BasicTime = FALSE
    WaitPreOp1 = TRUE
    QueueSize = 12
    RxEvents = {"NmtCycleError", "ResetNode"}
    AppEvents = {"SwReset", "SwitchOff", "ResetCom"}
    Refuses = {}
    MaxRx = 3
    MaxApp = 2
CHECK_DEADLOCK FALSE
PROPERTIES Boots UserCatchesUp
