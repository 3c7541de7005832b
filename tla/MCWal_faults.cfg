\* Three writers, rotation after two records, every fault, one crash.
SPECIFICATION Spec
CONSTANTS
    Appender = {a1, a2, a3}
    SegmentMax = 2
    MaxCrashes = 1
    PowerFaults = TRUE
    IoFaults = TRUE
    WriteBufferEnabled = FALSE
    Header = Header
    Torn = Torn
    NoOne = NoOne
SYMMETRY Sym
INVARIANTS
    NoUnexplainedLoss
    NeededSegmentsKept
    SegmentOffsetsUnique
    FsyncCoversQueue
PROPERTY CheckpointAdvances
