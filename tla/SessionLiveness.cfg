SPECIFICATION FairSpec
CONSTANTS
    MaxSessions = 1
    MaxReports = 2
    ReportKinds = {"key", "point"}
    PipeCap = 1
    MaxHostPkts = 1
    AppMayDie = TRUE
INVARIANT RefusedOnce
PROPERTIES ReportsLeaveFifo HostPacketsDroppedAfterSession
CHECK_DEADLOCK FALSE
