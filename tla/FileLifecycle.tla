--------------------------- MODULE FileLifecycle ---------------------------
(***************************************************************************)
(* The life of a Parquet file in zradar: ParquetFileWriter creates it and  *)
(* registers it in the file_list table, FileMover promotes it to S3,       *)
(* Compactor merges it with others, CleanupJob retires it when its rows    *)
(* are past retention, FileReclaimer removes its bytes and its row, and    *)
(* queries read it under a lease.  Every .await is a step of its own: the  *)
(* tasks share the table, the disk, the bucket and the lease registry, and *)
(* act on listings that are stale by the time they are used.               *)
(*                                                                         *)
(* A file stands for its uuid, its local path, its S3 key and its row id,  *)
(* which correspond one to one.  A telemetry row is identified with its    *)
(* timestamp.  All files belong to one bucket (workspace, signal, date):   *)
(* no task relates files of two buckets.                                   *)
(***************************************************************************)
EXTENDS Integers, FiniteSets

CONSTANTS
    Rows,              \* telemetry rows, each its own timestamp
    Files,             \* files that may be created (bounds the uuids)
    Writers,           \* tasks that call write_batch: flusher, replay, flush worker
    Readers,           \* concurrent queries
    Cutoffs,           \* values the retention cutoff takes
    Reclaimers,        \* the scheduled FileReclaimer and admin-triggered runs
    MinFiles,          \* compaction_min_files
    MaxFileSize,       \* compaction_max_file_size_bytes, in rows
    CompactionEnabled, \* compaction_enabled
    S3Enabled,         \* an S3 bucket is configured: FileMover and DiskCache exist
    FsyncBeforeRename, \* fsync_before_rename
    IoFaults,          \* TRUE: disk, S3 and database calls may fail
    MaxCrashes,        \* bound on the number of crashes
    NoFile

ASSUME LifecycleAssumption ==
    /\ Rows \subseteq Nat \ {0}
    /\ Cutoffs \subseteq Nat
    /\ MinFiles \in Nat
    /\ MaxFileSize \in Nat
    /\ CompactionEnabled \in BOOLEAN
    /\ S3Enabled \in BOOLEAN
    /\ FsyncBeforeRename \in BOOLEAN
    /\ IoFaults \in BOOLEAN
    /\ MaxCrashes \in Nat
    /\ NoFile \notin Files
    /\ "compactor" \notin Writers

Location == {"local", "s3"}
Task     == Writers \cup {"compactor"}

VARIABLES
    \* Bytes.
    content,    \* rows of each file, fixed when it is written
    par,        \* <uuid>.par files on the local disk
    disk,       \* <uuid>.parquet files on the local disk
    unsynced,   \* those of disk that were renamed without an fsync
    s3,         \* objects in the bucket
    cache,      \* keys in the DiskCache index
    \* The file_list and storage_cleanup_daily tables.
    state,      \* "none", "visible", "deleted" (deleted = true) or "gone"
    location,   \* location and file_path, which change together
    max_ts,
    cleaned,    \* times the file was counted in storage_cleanup_daily
    \* Memory of the server process.
    wr,         \* calls of write_batch
    cmp,        \* Compactor::compact_all
    mv,         \* FileMover::push_eligible_files
    doomed,     \* files with a spawned task that will remove the local copy
    cl,         \* CleanupJob::run_now_scoped
    rc,         \* FileReclaimer::run_now_scoped
    rd,         \* query_parquet_as
    leases,     \* FileLeaseRegistry
    \* Environment and history.
    cutoff,     \* retention cutoff: now less the configured days
    horizon,    \* largest cutoff there has been
    stored,     \* rows whose write_batch returned Ok
    crashes

storage == <<content, par, disk, unsynced, s3, cache>>
table   == <<state, location, max_ts, cleaned>>
history == <<cutoff, horizon, stored, crashes>>
tasks   == <<wr, cmp, mv, doomed, cl, rc, rd, leases>>
vars    == <<storage, table, tasks, history>>

WrIdle == [pc |-> "idle", file |-> NoFile, ts |-> 0]
CmpIdle == [pc |-> "idle", ids |-> {}]
MvIdle == [pc |-> "idle", todo |-> {}, file |-> NoFile]
ClIdle == [pc |-> "idle", ids |-> {}]
RcIdle == [pc |-> "idle", todo |-> {}, item |-> <<NoFile, "local">>, ids |-> {}]
RdIdle == [pc |-> "idle", todo |-> {}, listed |-> {}, timely |-> {},
           found |-> {}, ok |-> TRUE]

Init ==
    /\ content = [f \in Files |-> {}]
    /\ par = {}
    /\ disk = {}
    /\ unsynced = {}
    /\ s3 = {}
    /\ cache = {}
    /\ state = [f \in Files |-> "none"]
    /\ location = [f \in Files |-> "local"]
    /\ max_ts = [f \in Files |-> 0]
    /\ cleaned = [f \in Files |-> 0]
    /\ wr = [t \in Task |-> WrIdle]
    /\ cmp = CmpIdle
    /\ mv = MvIdle
    /\ doomed = {}
    /\ cl = ClIdle
    /\ rc = [p \in Reclaimers |-> RcIdle]
    /\ rd = [q \in Readers |-> RdIdle]
    /\ leases = [f \in Files |-> 0]
    /\ cutoff = 0
    /\ horizon = 0
    /\ stored = {}
    /\ crashes = 0

-----------------------------------------------------------------------------
(* The file_list table. *)

Visible == {f \in Files : state[f] = "visible"}

\* UPDATE ... SET deleted = true WHERE id = ANY(ids): rows that are gone match nothing.
MarkDeleted(ids) ==
    [f \in Files |-> IF f \in ids /\ state[f] = "visible" THEN "deleted" ELSE state[f]]

\* DELETE ... WHERE id = ANY(ids).
DeleteEntries(ids) ==
    [f \in Files |-> IF f \in ids /\ state[f] # "none" THEN "gone" ELSE state[f]]

-----------------------------------------------------------------------------
(* ParquetFileWriter::write_batch, called by Writers and by the Compactor. *)

\* A new uuid: nothing of the file exists.
Fresh(f) == state[f] = "none" /\ f \notin par \cup disk /\ \A t \in Task : wr[t].file # f

\* The temporary file is created and written.
CreateTemp(t, rows, ts) ==
    \E f \in Files :
        /\ Fresh(f)
        /\ content' = [content EXCEPT ![f] = rows]
        /\ par' = par \cup {f}
        /\ wr' = [wr EXCEPT ![t] = [pc |-> "temp", file |-> f, ts |-> ts]]

\* Rows a caller may still hand over: a failed call is retried with the same rows.
Pending == {r \in Rows \ stored :
               \A w \in Writers : wr[w].pc = "idle" \/ r \notin content[wr[w].file]}

WriteBatch(w) ==
    /\ wr[w].pc = "idle"
    /\ \E rows \in SUBSET Pending : \E ts \in rows :
           /\ \A r \in rows : r <= ts
           /\ CreateTemp(w, rows, ts)
    /\ UNCHANGED <<disk, unsynced, s3, cache, table, cmp, mv, doomed, cl, rc, rd, leases, history>>

\* The optional fsync and the rename .par -> .parquet.
Rename(t) ==
    LET f == wr[t].file IN
    /\ wr[t].pc = "temp"
    /\ par' = par \ {f}
    /\ disk' = disk \cup {f}
    /\ unsynced' = IF FsyncBeforeRename THEN unsynced ELSE unsynced \cup {f}
    /\ wr' = [wr EXCEPT ![t].pc = "renamed"]
    /\ UNCHANGED <<content, s3, cache, table, cmp, mv, doomed, cl, rc, rd, leases, history>>

RegisterFile(t) ==
    LET f == wr[t].file IN
    /\ wr[t].pc = "renamed"
    /\ state' = [state EXCEPT ![f] = "visible"]
    /\ location' = [location EXCEPT ![f] = "local"]
    /\ max_ts' = [max_ts EXCEPT ![f] = wr[t].ts]
    /\ wr' = [wr EXCEPT ![t].pc = "registered"]
    /\ UNCHANGED <<storage, cleaned, cmp, mv, doomed, cl, rc, rd, leases, history>>

\* upsert_stream_stats succeeds and the caller gets Ok.
WriteReturns(t) ==
    /\ wr[t].pc = "registered"
    /\ wr' = [wr EXCEPT ![t] = WrIdle]
    /\ IF t = "compactor"
       THEN cmp' = [cmp EXCEPT !.pc = "marking"] /\ UNCHANGED stored
       ELSE stored' = stored \cup content[wr[t].file] /\ UNCHANGED cmp
    /\ UNCHANGED <<storage, table, mv, doomed, cl, rc, rd, leases, cutoff, horizon, crashes>>

\* Any step fails, upsert_stream_stats after the registration included; what
\* was done so far stays.
WriteFails(t) ==
    /\ IoFaults
    /\ wr[t].pc # "idle"
    /\ wr' = [wr EXCEPT ![t] = WrIdle]
    /\ cmp' = IF t = "compactor" THEN CmpIdle ELSE cmp
    /\ UNCHANGED <<storage, table, mv, doomed, cl, rc, rd, leases, history>>

-----------------------------------------------------------------------------
(* Compactor. *)

\* Visible local files older than the check interval (any subset may be), at
\* least two of them in the bucket; then the small ones, at least MinFiles.
CompactQuery ==
    /\ CompactionEnabled
    /\ cmp.pc = "idle"
    /\ \E group \in SUBSET {f \in Visible : location[f] = "local"} :
           LET small == {f \in group : Cardinality(content[f]) < MaxFileSize} IN
           /\ Cardinality(group) >= 2
           /\ small # {}
           /\ Cardinality(small) >= MinFiles
           /\ cmp' = [pc |-> "listed", ids |-> small]
    /\ UNCHANGED <<storage, table, wr, mv, doomed, cl, rc, rd, leases, history>>

\* Mutant: the merged file gets the smallest max_ts of the group.
CompactReadOldest ==
    /\ cmp.pc = "listed"
    /\ cmp.ids \subseteq disk
    /\ \E m \in cmp.ids :
           /\ \A f \in cmp.ids : max_ts[f] >= max_ts[m]
           /\ CreateTemp("compactor", UNION {content[f] : f \in cmp.ids}, max_ts[m])
    /\ cmp' = [cmp EXCEPT !.pc = "writing"]
    /\ UNCHANGED <<disk, unsynced, s3, cache, table, mv, doomed, cl, rc, rd, leases, history>>

\* Mutant: a missing file is skipped, not the group.
CompactReadPresent ==
    /\ cmp.pc = "listed"
    /\ \E m \in cmp.ids :
           /\ \A f \in cmp.ids : max_ts[f] <= max_ts[m]
           /\ CreateTemp("compactor", UNION {content[f] : f \in cmp.ids \cap disk}, max_ts[m])
    /\ cmp' = [cmp EXCEPT !.pc = "writing"]
    /\ UNCHANGED <<disk, unsynced, s3, cache, table, mv, doomed, cl, rc, rd, leases, history>>

\* read_parquet_files opens every path (files are never created again once
\* missing, so the reads are as one) and the merged rows go to write_batch
\* with the largest max_ts of the group.
CompactRead ==
    /\ cmp.pc = "listed"
    /\ cmp.ids \subseteq disk
    /\ \E m \in cmp.ids :
           /\ \A f \in cmp.ids : max_ts[f] <= max_ts[m]
           /\ CreateTemp("compactor", UNION {content[f] : f \in cmp.ids}, max_ts[m])
    /\ cmp' = [cmp EXCEPT !.pc = "writing"]
    /\ UNCHANGED <<disk, unsynced, s3, cache, table, mv, doomed, cl, rc, rd, leases, history>>

\* A path is missing or unreadable: the group is skipped.
CompactReadFails ==
    /\ cmp.pc = "listed"
    /\ IoFaults \/ ~(cmp.ids \subseteq disk)
    /\ cmp' = CmpIdle
    /\ UNCHANGED <<storage, table, wr, mv, doomed, cl, rc, rd, leases, history>>

\* Mutant: originals that a query is reading are left visible.
CompactMarkUnleased ==
    /\ cmp.pc = "marking"
    /\ state' = MarkDeleted({f \in cmp.ids : leases[f] = 0})
    /\ cmp' = CmpIdle
    /\ UNCHANGED <<storage, location, max_ts, cleaned, wr, mv, doomed, cl, rc, rd, leases, history>>

CompactMark ==
    /\ cmp.pc = "marking"
    /\ state' = MarkDeleted(cmp.ids)
    /\ cmp' = CmpIdle
    /\ UNCHANGED <<storage, location, max_ts, cleaned, wr, mv, doomed, cl, rc, rd, leases, history>>

CompactMarkFails ==
    /\ IoFaults
    /\ cmp.pc = "marking"
    /\ cmp' = CmpIdle
    /\ UNCHANGED <<storage, table, wr, mv, doomed, cl, rc, rd, leases, history>>

-----------------------------------------------------------------------------
(* FileMover. *)

MvNext(todo) == IF todo = {} THEN MvIdle ELSE [pc |-> "next", todo |-> todo, file |-> NoFile]

\* Visible local files older than file_push_delay_secs.
MoverQuery ==
    /\ S3Enabled
    /\ mv.pc = "idle"
    /\ \E old \in SUBSET {f \in Visible : location[f] = "local"} :
           /\ old # {}
           /\ mv' = [pc |-> "filter", todo |-> old, file |-> NoFile]
    /\ UNCHANGED <<storage, table, wr, cmp, doomed, cl, rc, rd, leases, history>>

\* Files under a lease are left for the next cycle.
MoverFilter ==
    /\ mv.pc = "filter"
    /\ mv' = MvNext({f \in mv.todo : leases[f] = 0})
    /\ UNCHANGED <<storage, table, wr, cmp, doomed, cl, rc, rd, leases, history>>

MoverRead ==
    /\ mv.pc = "next"
    /\ \E f \in mv.todo :
           \/ /\ f \in disk
              /\ mv' = [pc |-> "upload", todo |-> mv.todo \ {f}, file |-> f]
           \/ /\ IoFaults \/ f \notin disk
              /\ mv' = MvNext(mv.todo \ {f})
    /\ UNCHANGED <<storage, table, wr, cmp, doomed, cl, rc, rd, leases, history>>

MoverUpload ==
    /\ mv.pc = "upload"
    /\ s3' = s3 \cup {mv.file}
    /\ mv' = [mv EXCEPT !.pc = "update"]
    /\ UNCHANGED <<content, par, disk, unsynced, cache, table, wr, cmp, doomed, cl, rc, rd, leases, history>>

\* Mutant: the error is logged and the promotion goes on.
MoverUploadIgnored ==
    /\ IoFaults
    /\ mv.pc = "upload"
    /\ mv' = [mv EXCEPT !.pc = "update"]
    /\ UNCHANGED <<storage, table, wr, cmp, doomed, cl, rc, rd, leases, history>>

\* The object may have been stored although the call failed.
MoverUploadFails ==
    /\ IoFaults
    /\ mv.pc = "upload"
    /\ s3' \in {s3, s3 \cup {mv.file}}
    /\ mv' = MvNext(mv.todo)
    /\ UNCHANGED <<content, par, disk, unsynced, cache, table, wr, cmp, doomed, cl, rc, rd, leases, history>>

\* UPDATE ... SET location = 's3' WHERE id = file: whatever `deleted` is, and
\* nothing when the row is gone.
UpdateLocation(f) == IF state[f] = "gone" THEN location ELSE [location EXCEPT ![f] = "s3"]

\* Mutant: no task is spawned.
MoverUpdateOnly ==
    /\ mv.pc = "update"
    /\ location' = UpdateLocation(mv.file)
    /\ mv' = MvNext(mv.todo)
    /\ UNCHANGED <<storage, state, max_ts, cleaned, wr, cmp, doomed, cl, rc, rd, leases, history>>

\* update_location, and the task that will remove the local copy is spawned.
MoverUpdate ==
    /\ mv.pc = "update"
    /\ location' = UpdateLocation(mv.file)
    /\ doomed' = doomed \cup {mv.file}
    /\ mv' = MvNext(mv.todo)
    /\ UNCHANGED <<storage, state, max_ts, cleaned, wr, cmp, cl, rc, rd, leases, history>>

\* The error leaves push_eligible_files; the update may have been committed.
MoverUpdateFails ==
    /\ IoFaults
    /\ mv.pc = "update"
    /\ location' \in {location, UpdateLocation(mv.file)}
    /\ mv' = MvIdle
    /\ UNCHANGED <<storage, state, max_ts, cleaned, wr, cmp, doomed, cl, rc, rd, leases, history>>

\* The spawned task, after file_delete_local_delay_secs.
DelayedRemove(f) ==
    /\ f \in doomed
    /\ doomed' = doomed \ {f}
    /\ disk' = disk \ {f}
    /\ UNCHANGED <<content, par, unsynced, s3, cache, table, wr, cmp, mv, cl, rc, rd, leases, history>>

DelayedRemoveFails(f) ==
    /\ IoFaults
    /\ f \in doomed
    /\ doomed' = doomed \ {f}
    /\ UNCHANGED <<storage, table, wr, cmp, mv, cl, rc, rd, leases, history>>

-----------------------------------------------------------------------------
(* CleanupJob. *)

Expired(f) == max_ts[f] <= cutoff

\* The listing and the cutoff are as one: max_ts never changes.
CleanupQuery ==
    /\ cl.pc = "idle"
    /\ \E f \in Visible : Expired(f)
    /\ cl' = [pc |-> "marking", ids |-> {f \in Visible : Expired(f)}]
    /\ UNCHANGED <<storage, table, wr, cmp, mv, doomed, rc, rd, leases, history>>

CleanupMark ==
    /\ cl.pc = "marking"
    /\ state' = MarkDeleted(cl.ids)
    /\ cl' = ClIdle
    /\ UNCHANGED <<storage, location, max_ts, cleaned, wr, cmp, mv, doomed, rc, rd, leases, history>>

CleanupMarkFails ==
    /\ IoFaults
    /\ cl.pc = "marking"
    /\ cl' = ClIdle
    /\ UNCHANGED <<storage, table, wr, cmp, mv, doomed, rc, rd, leases, history>>

-----------------------------------------------------------------------------
(* FileReclaimer. *)

ReclaimQuery(p) ==
    LET found == {<<f, location[f]>> : f \in {g \in Files : state[g] = "deleted"}} IN
    /\ rc[p].pc = "idle"
    /\ found # {}
    /\ rc' = [rc EXCEPT ![p] = [RcIdle EXCEPT !.pc = "sweep", !.todo = found]]
    /\ UNCHANGED <<storage, table, wr, cmp, mv, doomed, cl, rd, leases, history>>

\* is_leased: a leased file is left for the next cycle.
ReclaimCheck(p) ==
    /\ rc[p].pc = "sweep"
    /\ \E x \in rc[p].todo :
           LET rest == [rc[p] EXCEPT !.todo = @ \ {x}] IN
           rc' = [rc EXCEPT ![p] =
                    IF leases[x[1]] > 0 THEN rest
                    ELSE [rest EXCEPT !.pc = "delete", !.item = x]]
    /\ UNCHANGED <<storage, table, wr, cmp, mv, doomed, cl, rd, leases, history>>

\* Mutant: a failed delete counts as done.
ReclaimDeleteIgnored(p) ==
    /\ IoFaults
    /\ rc[p].pc = "delete"
    /\ rc' = [rc EXCEPT ![p].pc = "sweep", ![p].ids = @ \cup {rc[p].item[1]}]
    /\ UNCHANGED <<storage, table, wr, cmp, mv, doomed, cl, rd, leases, history>>

\* delete_physical_file, where the listing said the bytes are.
ReclaimDelete(p) ==
    LET f == rc[p].item[1]
        l == rc[p].item[2] IN
    /\ rc[p].pc = "delete"
    /\ disk' = IF l = "local" THEN disk \ {f} ELSE disk
    /\ s3' = IF l = "s3" THEN s3 \ {f} ELSE s3
    /\ rc' = [rc EXCEPT ![p].pc = "sweep", ![p].ids = @ \cup {f}]
    /\ UNCHANGED <<content, par, unsynced, cache, table, wr, cmp, mv, doomed, cl, rd, leases, history>>

\* The object may be gone although the call failed.
ReclaimDeleteFails(p) ==
    /\ IoFaults
    /\ rc[p].pc = "delete"
    /\ s3' \in {s3, IF rc[p].item[2] = "s3" THEN s3 \ {rc[p].item[1]} ELSE s3}
    /\ rc' = [rc EXCEPT ![p].pc = "sweep"]
    /\ UNCHANGED <<content, par, disk, unsynced, cache, table, wr, cmp, mv, doomed, cl, rd, leases, history>>

\* record_cleanup_and_delete: the deltas and the DELETE in one transaction.
ReclaimCommit(p) ==
    /\ rc[p].pc = "sweep"
    /\ rc[p].todo = {}
    /\ state' = DeleteEntries(rc[p].ids)
    /\ cleaned' = [f \in Files |-> IF f \in rc[p].ids THEN cleaned[f] + 1 ELSE cleaned[f]]
    /\ rc' = [rc EXCEPT ![p] = RcIdle]
    /\ UNCHANGED <<storage, location, max_ts, wr, cmp, mv, doomed, cl, rd, leases, history>>

\* Mutant: without the transaction the totals are kept when the DELETE fails.
ReclaimCommitHalf(p) ==
    /\ IoFaults
    /\ rc[p].pc = "sweep"
    /\ rc[p].todo = {}
    /\ cleaned' = [f \in Files |-> IF f \in rc[p].ids THEN cleaned[f] + 1 ELSE cleaned[f]]
    /\ rc' = [rc EXCEPT ![p] = RcIdle]
    /\ UNCHANGED <<storage, state, location, max_ts, wr, cmp, mv, doomed, cl, rd, leases, history>>

ReclaimCommitFails(p) ==
    /\ IoFaults
    /\ rc[p].pc = "sweep"
    /\ rc[p].todo = {}
    /\ rc' = [rc EXCEPT ![p] = RcIdle]
    /\ UNCHANGED <<storage, table, wr, cmp, mv, doomed, cl, rd, leases, history>>

-----------------------------------------------------------------------------
(* ParquetFileReader::query_parquet_as and FileLeaseRegistry. *)

ReaderQuery(q) ==
    /\ rd[q].pc \in {"idle", "done"}
    /\ Visible # {}
    /\ rd' = [rd EXCEPT ![q] = [RdIdle EXCEPT !.pc = "listed",
                                   !.todo = {<<f, location[f]>> : f \in Visible},
                                   !.listed = Visible]]
    /\ UNCHANGED <<storage, table, wr, cmp, mv, doomed, cl, rc, leases, history>>

Acquire(ids) == [f \in Files |-> IF f \in ids THEN leases[f] + 1 ELSE leases[f]]

\* Mutants: the slot is removed while others hold it; the lease is never dropped.
ReleaseSlot(ids) == [f \in Files |-> IF f \in ids THEN 0 ELSE leases[f]]
ReleaseNothing(ids) == leases

Release(ids) == [f \in Files |-> IF f \in ids /\ leases[f] > 0 THEN leases[f] - 1 ELSE leases[f]]

\* timely records the files that were still visible when their lease was taken.
ReaderAcquire(q) ==
    /\ rd[q].pc = "listed"
    /\ leases' = Acquire(rd[q].listed)
    /\ rd' = [rd EXCEPT ![q].pc = "resolve", ![q].timely = rd[q].listed \cap Visible]
    /\ UNCHANGED <<storage, table, wr, cmp, mv, doomed, cl, rc, history>>

\* The query returns and drops its leases.
Return(q, found, ok) ==
    /\ rd' = [rd EXCEPT ![q] = [@ EXCEPT !.pc = "done", !.todo = {}, !.found = found, !.ok = ok]]
    /\ leases' = Release(rd[q].listed)

Resolved(q, x) == rd' = [rd EXCEPT ![q].todo = @ \ {x}, ![q].found = @ \cup {x}]
Skipped(q, x)  == rd' = [rd EXCEPT ![q].todo = @ \ {x}]

\* A local path that exists is used; a missing one is skipped when the data
\* directory is absolute and fails the query (canonicalize) when it is "./...".
ResolveLocal(q, x) ==
    /\ x[2] = "local"
    /\ \/ x[1] \in disk /\ Resolved(q, x) /\ UNCHANGED leases
       \/ x[1] \notin disk /\ Skipped(q, x) /\ UNCHANGED leases
       \/ x[1] \notin disk /\ Return(q, {}, FALSE)
    /\ UNCHANGED cache

\* DiskCache::get_or_fetch: a hit, a download followed by evictions chosen by
\* age and size, or an error.
ResolveS3(q, x) ==
    /\ x[2] = "s3"
    /\ \/ x[1] \in cache /\ Resolved(q, x) /\ UNCHANGED <<cache, leases>>
       \/ /\ x[1] \in s3
          /\ \E evicted \in SUBSET (cache \cup {x[1]}) : cache' = (cache \cup {x[1]}) \ evicted
          /\ Resolved(q, x)
          /\ UNCHANGED leases
       \/ /\ IoFaults \/ x[1] \notin s3
          /\ Return(q, {}, FALSE)
          /\ UNCHANGED cache

ReaderResolve(q) ==
    /\ rd[q].pc = "resolve"
    /\ \E x \in rd[q].todo : ResolveLocal(q, x) \/ ResolveS3(q, x)
    /\ UNCHANGED <<content, par, disk, unsynced, s3, table, wr, cmp, mv, doomed, cl, rc, history>>

\* Paths of the listing table that exist when DataFusion opens them.
Present(found) == {x \in found : x[1] \in IF x[2] = "local" THEN disk ELSE cache}

\* The scan.  A path that has gone missing fails it, or is taken for an empty
\* prefix by the listing.
ReaderScan(q) ==
    LET found == rd[q].found IN
    /\ rd[q].pc = "resolve"
    /\ rd[q].todo = {}
    /\ \/ Return(q, Present(found), TRUE)
       \/ /\ IoFaults \/ Present(found) # found
          /\ Return(q, {}, FALSE)
    /\ UNCHANGED <<storage, table, wr, cmp, mv, doomed, cl, rc, history>>

-----------------------------------------------------------------------------
(* The environment. *)

\* Time passes and administrators change the retention.
SetCutoff ==
    /\ \E c \in Cutoffs :
           /\ c # cutoff
           /\ cutoff' = c
           /\ horizon' = IF c > horizon THEN c ELSE horizon
    /\ UNCHANGED <<storage, table, tasks, stored, crashes>>

\* The process dies, with bytes that were not fsynced, and starts again:
\* recover_incomplete_writes removes the .par files before any task runs.
Crash ==
    /\ crashes < MaxCrashes
    /\ crashes' = crashes + 1
    /\ \E lost \in SUBSET unsynced : disk' = disk \ lost
    /\ unsynced' = {}
    /\ par' = {}
    /\ cache' = {}
    /\ wr' = [t \in Task |-> WrIdle]
    /\ cmp' = CmpIdle
    /\ mv' = MvIdle
    /\ doomed' = {}
    /\ cl' = ClIdle
    /\ rc' = [p \in Reclaimers |-> RcIdle]
    /\ rd' = [q \in Readers |-> RdIdle]
    /\ leases' = [f \in Files |-> 0]
    /\ UNCHANGED <<content, s3, table, cutoff, horizon, stored>>

WriteStep(t) == Rename(t) \/ RegisterFile(t) \/ WriteReturns(t) \/ WriteFails(t)
Compact == CompactQuery \/ CompactRead \/ CompactReadFails \/ CompactMark \/ CompactMarkFails
Move == MoverQuery \/ MoverFilter \/ MoverRead \/ MoverUpload \/ MoverUploadFails
            \/ MoverUpdate \/ MoverUpdateFails
Cleanup == CleanupQuery \/ CleanupMark \/ CleanupMarkFails
Reclaim(p) == ReclaimQuery(p) \/ ReclaimCheck(p) \/ ReclaimDelete(p) \/ ReclaimDeleteFails(p)
                  \/ ReclaimCommit(p) \/ ReclaimCommitFails(p)
Read(q) == ReaderQuery(q) \/ ReaderAcquire(q) \/ ReaderResolve(q) \/ ReaderScan(q)

Next ==
    \/ \E w \in Writers : WriteBatch(w)
    \/ \E t \in Task : WriteStep(t)
    \/ Compact
    \/ Move
    \/ \E f \in Files : DelayedRemove(f) \/ DelayedRemoveFails(f)
    \/ Cleanup
    \/ \E p \in Reclaimers : Reclaim(p)
    \/ \E q \in Readers : Read(q)
    \/ SetCutoff
    \/ Crash

Spec == Init /\ [][Next]_vars

\* Tokio runs every spawned task on: the jobs' timers fire again and again and
\* a call that has begun goes on to its end.  Nothing obliges a client to
\* write or to query, the mover or the compactor to find work.
Fairness ==
    /\ WF_vars(Cleanup)
    /\ WF_vars(Move)
    /\ \A t \in Task : WF_vars(WriteStep(t))
    /\ WF_vars(Compact)
    /\ \A f \in Files : WF_vars(DelayedRemove(f))
    /\ \A p \in Reclaimers : WF_vars(Reclaim(p))
    /\ \A q \in Readers : WF_vars(ReaderAcquire(q) \/ ReaderResolve(q) \/ ReaderScan(q))

FairSpec == Spec /\ Fairness


-----------------------------------------------------------------------------
(* Properties. *)

FileState    == {"none", "visible", "deleted", "gone"}
WriteCall    == [pc : {"idle", "temp", "renamed", "registered"},
                 file : Files \cup {NoFile}, ts : Nat]
CompactState == [pc : {"idle", "listed", "writing", "marking"}, ids : SUBSET Files]
MoverState   == [pc : {"idle", "filter", "next", "upload", "update"},
                 todo : SUBSET Files, file : Files \cup {NoFile}]
CleanupState == [pc : {"idle", "marking"}, ids : SUBSET Files]
ReclaimState == [pc : {"idle", "sweep", "delete"}, todo : SUBSET (Files \X Location),
                 item : (Files \cup {NoFile}) \X Location, ids : SUBSET Files]
QueryState   == [pc : {"idle", "listed", "resolve", "done"},
                 todo : SUBSET (Files \X Location), listed : SUBSET Files,
                 timely : SUBSET Files, found : SUBSET (Files \X Location), ok : BOOLEAN]

\* Every variable stays in its domain.
TypeOK ==
    /\ content \in [Files -> SUBSET Rows]
    /\ par \subseteq Files
    /\ disk \subseteq Files
    /\ unsynced \subseteq Files
    /\ s3 \subseteq Files
    /\ cache \subseteq Files
    /\ state \in [Files -> FileState]
    /\ location \in [Files -> Location]
    /\ max_ts \in [Files -> Nat]
    /\ cleaned \in [Files -> Nat]
    /\ wr \in [Task -> WriteCall]
    /\ cmp \in CompactState
    /\ mv \in MoverState
    /\ doomed \subseteq Files
    /\ cl \in CleanupState
    /\ rc \in [Reclaimers -> ReclaimState]
    /\ rd \in [Readers -> QueryState]
    /\ leases \in [Files -> Nat]
    /\ cutoff \in Nat
    /\ horizon \in Nat
    /\ stored \subseteq Rows
    /\ crashes \in Nat

\* A file that queries list has its bytes where its row says they are, whatever
\* the mover, the compactor, retention and the reclaimer are doing and wherever
\* the process was killed (file_mover.rs uploads before update_location,
\* writer.rs renames before register_file, file_reclaimer.rs takes deleted rows only).
VisibleHasBytes ==
    \A f \in Visible : f \in IF location[f] = "local" THEN disk ELSE s3

\* A row whose write was acknowledged is in a visible file until the retention
\* cutoff has passed it: compaction registers the merged file, with the largest
\* max_ts of the group, before it retires the originals (compactor.rs compact_group),
\* and cleanup goes by that max_ts (cleanup.rs).
StoredRowsVisible ==
    \A r \in stored : r > horizon => \E f \in Visible : r \in content[f]

\* Without failures a row is in one visible file only, except between the
\* registration of a merged file and the retirement of its originals.
RowsVisibleOnce ==
    \A f, g \in Visible :
        \/ f = g
        \/ content[f] \cap content[g] = {}
        \/ cmp.pc \in {"writing", "marking"}

\* On local storage, a query that took its leases while the files were still
\* visible and answers Ok has read every row that was visible when it listed
\* them: FileReclaimer skips leased files (file_reclaimer.rs run_now_scoped).
LeasedQueryComplete ==
    \A q \in Readers :
        rd[q].pc = "done" /\ rd[q].ok /\ rd[q].timely = rd[q].listed
            => UNION {content[x[1]] : x \in rd[q].found} = UNION {content[f] : f \in rd[q].listed}

\* file_reclaimer.rs delete_physical_file answers true "when it is safe to
\* hard-delete the metadata row (delete succeeded or object was already gone)":
\* no bytes outlive their row, but for a local copy that is about to be removed.
NoOrphanBytes ==
    \A f \in Files : state[f] = "gone" => f \notin s3 \cup (disk \ doomed)

\* The cleanup totals count every reclaimed file once, and no other
\* (storage_usage.rs record_cleanup_and_delete).
CleanedOnce ==
    \A f \in Files : cleaned[f] = IF state[f] = "gone" THEN 1 ELSE 0

\* Files past the retention cutoff for good are reclaimed in the end, although
\* queries keep coming: a retired file is not listed again, so its leases drain.
ExpiredReclaimed ==
    \A f \in Files :
        (<>[](state[f] # "none" /\ Expired(f))) => <>(state[f] = "gone")

\* A promoted file does not keep its local copy (file_mover.rs step 3).
LocalCopyRemoved ==
    \A f \in Files : (f \in disk /\ location[f] = "s3") ~> (f \notin disk)

\* builder.rs: "FileMover (defers local delete while leased)"; reader.rs: "an
\* in-flight query cannot race a move or a delete".  A local file stays as long
\* as a query has listed it as local and holds a lease taken in time.
LeasedFilesStay ==
    \A q \in Readers : \A x \in rd[q].todo \cup rd[q].found :
        rd[q].pc = "resolve" /\ x[2] = "local" /\ x[1] \in rd[q].timely => x[1] \in disk
============================================================================
