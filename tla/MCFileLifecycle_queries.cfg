\* Two queries over local storage while files are merged and reclaimed.
SPECIFICATION Spec
CONSTANTS
    Rows = {1, 2}
    Files = {f1, f2, f3}
    Cutoffs = {0}
    Writers = {w1}
    Readers = {q1, q2}
    Reclaimers = {p1}
    MinFiles = 2
    MaxFileSize = 3
    CompactionEnabled = TRUE
    S3Enabled = FALSE
    FsyncBeforeRename = TRUE
    IoFaults = FALSE
    MaxCrashes = 0
    NoFile = NoFile
SYMMETRY FileSym
\* Clients may stop, and the bound on Files ends their writing.
CHECK_DEADLOCK FALSE
INVARIANTS
    LeasedQueryComplete
    RowsVisibleOnce
