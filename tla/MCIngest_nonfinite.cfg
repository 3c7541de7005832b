SPECIFICATION Spec
CONSTANTS
    Exporters = {"e1", "e2"}
    Loads <- MCNonFinite
    MaxI32 = 7
    MaxEvents = 3
    MaxEventBytes = 8
    MaxLinks = 1
    MilliLen = 2
    MaxGroups = 1
    MaxRecords = 2
    Now = 9
INVARIANT AckedRowsKept
CHECK_DEADLOCK FALSE
