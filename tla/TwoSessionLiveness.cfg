SPECIFICATION FairSpec
CONSTANTS
    MaxSessions = 2
    MaxReports = 0
    ReportKinds = {"point"}
    PipeCap = 1
    MaxHostPkts = 0
    AppMayDie = FALSE
PROPERTIES EndedDaemonsDie OpenReturns
CHECK_DEADLOCK FALSE
