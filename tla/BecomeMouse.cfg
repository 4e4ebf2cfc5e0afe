SPECIFICATION TogglingSpec
CONSTANTS
    MaxRecords = 4
    MaxProcs = 2
    MaxMishaps = 2
INVARIANTS Agreement LeakBound OthersSpared
PROPERTY PhoneComesBack
CHECK_DEADLOCK FALSE
