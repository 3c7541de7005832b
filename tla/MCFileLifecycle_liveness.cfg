\* Retention, promotion and a query that keeps coming back.
SPECIFICATION FairSpec
CONSTANTS
    Rows = {1}
    Files = {f1}
    Cutoffs = {0, 1}
    Writers = {w1}
    Readers = {q1}
    Reclaimers = {p1}
    MinFiles = 2
    MaxFileSize = 3
    CompactionEnabled = TRUE
    S3Enabled = TRUE
    FsyncBeforeRename = TRUE
    IoFaults = FALSE
    MaxCrashes = 0
    NoFile = NoFile
PROPERTIES
    ExpiredReclaimed
    LocalCopyRemoved
