SPECIFICATION Spec
CONSTANTS
    Batches <- MCBatches
    Modes = {TRUE, FALSE}
    MaxSlotBytes = 1024
    Interval = 1
    HourLen = 4
    SecondLen = 2
    MaxFaults = 1
INVARIANTS
    RowsInTheirPartition
    TakenWhenReturned
PROPERTIES
    RefinesRowStore
    RowsSettle
CHECK_DEADLOCK FALSE
