\* No faults, buffered sink, every task fair.
SPECIFICATION FairSpec
CONSTANTS
    Appender = {a1, a2}
    SegmentMax = 1
    MaxCrashes = 0
    PowerFaults = FALSE
    IoFaults = FALSE
    WriteBufferEnabled = TRUE
    Header = Header
    Torn = Torn
    NoOne = NoOne
PROPERTIES
    AppendsAcknowledged
    AckedReachesParquet
    FlushedSegmentsDeleted
