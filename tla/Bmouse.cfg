SPECIFICATION MCSpec
CONSTANTS
    Procs = {1, 2}
    Tries = 2
    MaxUseless = 3
    MaxFaults = 2
    AttrIds = {4, 6, 9}
    Elements <- MCElements
    MaxAttrs = 3
INVARIANTS ClassReadWasInForce WriteTakenForDone ExitStatusTrue RecordsAccountedFor
INVARIANTS RecordFits RequestFits RecordReadBack
PROPERTIES CallsEnd ClassAfterRecord
CHECK_DEADLOCK FALSE
