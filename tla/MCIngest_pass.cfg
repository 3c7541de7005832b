SPECIFICATION Spec
CONSTANTS
    Exporters = {"e1", "e2"}
    Loads <- MCLoads
    MaxI32 = 7
    MaxEvents = 3
    MaxEventBytes = 8
    MaxLinks = 1
    MilliLen = 2
    MaxGroups = 1
    MaxRecords = 2
    Now = 9
INVARIANTS
    RowsAsSent
    
    StoredAsAnswered
PROPERTIES
    Settles
CHECK_DEADLOCK FALSE
