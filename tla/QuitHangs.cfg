SPECIFICATION StallingSpec
CONSTANTS
    MaxSessions = 1
    MaxReports = 2
    ReportKinds = {"key", "point"}
    PipeCap = 1
    MaxHostPkts = 1
    AppMayDie = FALSE
PROPERTY QuitTriggersPkill
CHECK_DEADLOCK FALSE
