SPECIFICATION Spec
CONSTANTS
    MaxSessions = 2
    MaxReports = 2
    ReportKinds = {"point"}
    PipeCap = 1
    MaxHostPkts = 0
    AppMayDie = TRUE
INVARIANTS TypeOK DeliveredOnceInOrder ShutdownIsLast
PROPERTY ImplementsChannel
CHECK_DEADLOCK FALSE
