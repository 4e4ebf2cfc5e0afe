SPECIFICATION FairSpec
CONSTANTS
    MaxSessions = 1
    MaxReports = 1
    ReportKinds = {"point"}
    PipeCap = 1
    MaxHostPkts = 1
    AppMayDie = FALSE
PROPERTY HostPacketsDropped
CHECK_DEADLOCK FALSE
