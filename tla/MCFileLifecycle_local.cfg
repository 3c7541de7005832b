\* Local storage with failures, a crash and retention changes.
SPECIFICATION Spec
CONSTANTS
    Rows = {1, 2}
    Files = {f1, f2, f3}
    Cutoffs = {0, 1, 2}
    Writers = {w1}
    Readers = {}
    Reclaimers = {p1}
    MinFiles = 2
    MaxFileSize = 3
    CompactionEnabled = TRUE
    S3Enabled = FALSE
    FsyncBeforeRename = TRUE
    IoFaults = TRUE
    MaxCrashes = 1
    NoFile = NoFile
SYMMETRY Sym
INVARIANTS
    NoOrphanBytes
    CleanedOnce
