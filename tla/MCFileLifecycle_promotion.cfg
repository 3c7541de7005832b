\* Promotion to S3 against compaction and reclaiming, with failures.
SPECIFICATION Spec
CONSTANTS
    Rows = {1, 2}
    Files = {f1, f2, f3}
    Cutoffs = {0}
    Writers = {w1}
    Readers = {}
    Reclaimers = {p1}
    MinFiles = 2
    MaxFileSize = 3
    CompactionEnabled = TRUE
    S3Enabled = TRUE
    FsyncBeforeRename = TRUE
    IoFaults = TRUE
    MaxCrashes = 0
    NoFile = NoFile
SYMMETRY Sym
\* Clients may stop, and the bound on Files ends their writing.
CHECK_DEADLOCK FALSE
INVARIANTS
    VisibleHasBytes
    StoredRowsVisible
