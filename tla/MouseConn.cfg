SPECIFICATION MCSpec
CONSTANTS
    MaxSessions = 1
    MaxReports = 3
    ReportKinds = {"point"}
    PipeCap = 3
    MaxHostPkts = 0
    StdioCap = 2
    LINE_SIZE = 8
    FILE_SIZE = 10
    Header = 1
    Writers = {1, 2}
    MessageLens = {0, 1, 9}
    MaxCalls = 5
    MaxOwnCalls = 7
INVARIANTS NoLineStranded LogBounded NewestLinesWhole
PROPERTIES ImplementsChannel LinesTaken ShutdownObeyed
CHECK_DEADLOCK FALSE
