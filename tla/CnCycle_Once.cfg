SPECIFICATION Spec
CONSTANTS
    MnBuild = FALSE
    MultipleCycleCnt = 2
    SocThreshold = 17
    PreqThreshold = 1
    NmtCommands = {"EnableReadyToOperate", "StartNode", "StopNode"}
    Lag = 1
CHECK_DEADLOCK FALSE
INVARIANTS ReportedOncePerCycle
