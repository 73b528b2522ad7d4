SPECIFICATION Spec
CONSTANTS
    MnBuild = FALSE
    IsMn = FALSE
    BasicTime = TRUE
    WaitPreOp1 = FALSE
    QueueSize = 2
    RxEvents = {"CeSoc", "EnableReadyToOperate", "NmtCycleError", "ResetCom"}
    AppEvents = {"SwReset", "ResetConfig", "EnterReadyToOperate"}
    Refuses = {"CsPreOp2"}
    MaxRx = 6
    MaxApp = 2
CHECK_DEADLOCK FALSE
INVARIANTS TypeOK
PROPERTIES StageByStage WaitsInNotActive NoStaleFrames ReadyNeedsBoth
