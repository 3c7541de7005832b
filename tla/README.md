# zradar: a TLA+ verification project

zradar receives OTLP telemetry, makes it durable in a write-ahead log (WAL),
copies it to Parquet files that a file list in Postgres indexes, moves those
files to object storage, and answers queries over them. This directory holds
TLA+ models of it, the TLC configurations that check them on small instances,
and TLAPS proofs. All paths below are relative to `src/crates/`.

## Inventory

| Component | State | Operations | Interacts with |
|---|---|---|---|
| WAL (`core/zradar-wal`: lib, segment, record, group_commit, checkpoint) | segment files, `current.seg` symlink, `checkpoint.json`; writer mutex, offset counter, queue of unresolved handles | `open`, `append`, `durable`, group-commit loop | request handlers append; flusher and janitor read the directory |
| Flusher, replay | position of a pass, checkpoint | `flush_once` (timer), `replay` (start-up) | read segments, call the sink, save the checkpoint |
| Janitor | snapshot of checkpoint, listing, active id | `cleanup_once` (timer) | deletes segments |
| Admission (`services/api-optel`: admission, circuit_breaker; `zradar-wal/disk.rs`) | slots of a listener; cached samples of disk, memory and free space, each with a single-flight flag; queue depth | call, check, admit, refresh | in front of the handlers and of every append |
| OTLP services (`api-optel`: both transports, ingestion_guard, rate_limiter, retry, converters, conventions) | token bucket per workspace | export of traces, logs (with scores), metrics | exporters retry on their answers; rows go to the WAL |
| Sink and write buffer (`runtime` builder; `core/zradar-parquet`: telemetry_writer, write_buffer, flush_worker) | in-memory slots per workspace, signal, stream, hour | `insert_batch`, drain by age, size, shutdown | flusher to Parquet writer |
| Parquet files (`writer`, `compactor`, `file_mover`, `recovery`, `zradar-retention`) | local files, S3 objects, rows of the file list, leases | write and register, compact, promote, mark expired, reclaim | all share the file list without a common lock |
| Reader and caches (`reader`, `telemetry_reader`, `disk_cache`, `traits/file_lease`) | leases, cached files | list, count, page, aggregate | races writers, mover and reclaimer |
| Query and admin API (`services/api`, HTTP and gRPC) | none of its own | listings, lookups, dashboards; settings, retention, policies, audit | reader, repositories, in-memory configuration |
| Policy and usage (`zradar-policy`, Postgres repositories) | policy cache, samples in memory, bounded channel, events and rollups in Postgres | resolve, enforce, record, flush, roll up | ingest, queries, reports |
| Models, metrics, S3 client, authentication | data types, gauges, external services | | |

What is hard: handlers, the group commit, the flusher and the janitor share a
directory with a single mutex that only handlers hold across steps; every
durable change is several system calls; each background task decides from
values it read some awaits earlier; requests are dropped at any await; control
operations are several statements without a transaction; the process can die
anywhere. The promise is in `core/zradar-wal/src/lib.rs:3-6`: a request is
fsynced before it is acknowledged, and what was acknowledged is re-materialised
after a crash. `PROJECT.json` lists the hazards at the lines where they bite.

What makes each part correct:

- WAL: an acknowledged record is in Parquet or where the readers will find it;
  the checkpoint covers delivered records only and never goes back; the janitor
  takes only segments nobody needs; appends are eventually acknowledged.
- Admission: no slot leaks; one sampler at a time; an abandoned sampler does not
  stop later samples.
- Ingest: a stored row says what was sent; a refusal by a check, the limiter or
  the append leaves nothing behind; what was answered with OK is stored; files of
  every release can be read together; no export is retried for ever.
- Write path: a file holds rows of one partition; an accepted row is stored or
  lost in a way the code admits, and decided in the end.
- File lifecycle: a visible file has its bytes; acknowledged rows stay visible
  until retention passes them, and once each, through compaction and promotion;
  a leased query is complete; what is retired is reclaimed, and counted once.
- Queries: pages show the caller's rows within range and retention, pruning
  loses none, paging misses none, and what a dashboard joins belongs together.
- Control plane: the policy cache converges; retention deletes by the reported
  days; usage and storage are accounted for; status and enforcement agree.

## Modules

| Module | What it holds |
|---|---|
| `Wal`, `MCWal` | the WAL with handlers, group commit, flusher, janitor, recovery, replay, crash and power loss |
| `WalInv`, `WalProofs` | its inductive invariant; type correctness, what file operations do to the readable records, the safety theorems |
| `FileLifecycle`, `MCFileLifecycle` | Parquet files from write to reclaim: writers, compactor, mover, retention, reclaimer, leased queries, crash |
| `FileInv`, `FileProofs` | its inductive invariants; type correctness, the safety theorems for any storage and those for local storage, one reclaimer or no failures |
| `Admission`, `MCAdmission`, `AdmissionProofs` | concurrency limit and deadline, circuit breaker, free-space guard; the proofs |
| `Convert` | spans: attributes, eighteen conventions, events, links, type detection, content scrubbing, the Parquet columns and how files of older releases are read |
| `Signals` | logs, scores and metrics: conversion, columns, reading, parsing of WAL rows |
| `Ingest`, `MCIngest` | an export from the exporter to Parquet, over `Convert` and `Signals` |
| `IngestInv`, `IngestProofs` | its inductive invariants and the safety theorems |
| `RowStore` | what a telemetry writer promises for the rows it accepts (abstract) |
| `Buffer`, `MCBuffer` | partitioning, direct writes, write buffer and flush worker; implements `RowStore` |
| `BufferInv`, `BufferProofs` | its inductive invariant, the safety theorems and the refinement |
| `Api` | transports, credentials, capabilities, decoding and defaults of the query API |
| `Analytics` | aggregates, dashboards and their joins |
| `Query`, `MCQuery` | a client paging through rows while files come and go, over `Api` and `Analytics` |
| `QueryInv`, `QueryProofs` | its inductive invariants and the safety theorems, paging and dashboards included |
| `Policy` | resolution, the enforcer's checks, the quota status |
| `Usage` | samples, channel and flush worker, rollups, storage accounting, over `Policy` |
| `Control`, `MCControl` | settings, retention, policies, audit and the background refreshes of a workspace, over `Usage` |
| `ControlInv`, `ControlProofs` | the inductive invariants of `Control` and `Usage` and the safety theorems |
| `FiniteSums` | lemmas about sums over finite sets, used by the proofs of `Query`, `Control` and `Ingest` |

How they meet: `Ingest` appends in one step what `Wal` does in many, and takes
from it that a crash loses no appended record (`NoUnexplainedLoss`, with its two
exceptions); the rows that `Wal` and `Ingest` hand to the sink are those
`Buffer` accepts; a file that `Buffer` writes is a `WriteBatch` of
`FileLifecycle`; the visible files of `FileLifecycle` are those `Query` lists.
`Admission` decides before `Ingest` begins and shows there as an answer of the
breaker or a refused append; `Policy` shows there as the verdict of the
enforcer. `Control` has its own, smaller picture of the files, by age and size.

### How `Wal` corresponds to the code

Each action is the code between two points where another task, or a crash, can
intervene. A handler appends one record, so a record is identified with its
handler (`Appender`); a record is `[off, app]`; all records have size one and a
segment holds `SegmentMax` of them. `segs` maps a segment id to the chunks in
the page cache and the number of them an fsync has covered; a chunk is a
record, the header or `Torn`, a part of a record. Reading (`Readable`) stops at
the first torn chunk, as `next_record` does on a CRC or length error.

- `Wal::append`: `FetchOffset` (the atomic counter), `LockWriter`, the rotation
  `SealSegment`, `WriteHeader`, `RemoveLink`, `CreateLink`, then `WriteRecord`
  and `Register`. `RotationFails` and `WriteFails` are its error returns; a
  failed write may leave torn bytes.
- `group_commit_loop`: `GcReadLink` (the symlink is resolved), `GcFsync` or
  `GcFsyncFails`, `GcDrain`.
- `WalFlusher::flush_once`: `FlushList`, `FlushActive`, `FlushRead` per segment,
  `FlushRecords`, `FlushSave`, and their failures. `WalJanitor::cleanup_once`:
  `JanitorList`, `JanitorActive`, `JanitorDelete` per file.
- `Wal::open`: `OpenFresh`, `OpenRecover`, `OpenRefused`. `WalReplayer::replay`:
  `ReplaySegment` per segment, `ReplayDone`, `ReplayFails`.
- The sink (`Deliver`) adds to `parquet`, or to `buffer` when the write buffer
  is enabled; `BufferFlush` is the flush worker, which drops what it fails to
  write. Parquet is a set: replay and retries may deliver a record twice, which
  the models do not count.
- `Crash` kills the process, perhaps inside a write. `PowerLoss` also takes back
  any suffix of a segment that was not fsynced. Directory entries, the symlink
  and the checkpoint (renamed after its own fsync) are assumed to survive.

Three history variables record what the code does not: `shadowed` (records
written behind a torn record, behind a higher offset of the same segment, or at
or below the checkpoint's offset in its segment), `early_ack` (acknowledged
before an fsync covered them) and `crashes`.

### How `FileLifecycle` corresponds to the code

No lock is common to the tasks that handle Parquet files; they share the
`file_list` table, the disk, the bucket and the lease registry. Each await is a
step of its own, so every listing is stale when it is used. A file stands for
its uuid, its path, its S3 key and its row id; a telemetry row for its
timestamp. `state` is the life of a row of the table (none, visible, deleted,
gone), `location` its location and path.

- `write_batch` (`zradar-parquet/src/writer.rs`): `WriteBatch` (the temporary
  file), `Rename` (with the fsync before it), `RegisterFile`, `WriteReturns`
  (after the stream statistics); `WriteFails` leaves what was done. `stored`
  collects the rows of calls that returned Ok.
- `Compactor`: `CompactQuery`, `CompactRead` into the same writer steps under the
  task `"compactor"`, `CompactMark`, and the failures.
- `FileMover`: `MoverQuery`, `MoverFilter` (leases), then per file `MoverRead`,
  `MoverUpload`, `MoverUpdate`; the task it spawns is an element of `doomed` and
  `DelayedRemove`. A failed call to S3 or Postgres may have had its effect.
- `CleanupJob`: `CleanupQuery`, `CleanupMark`. A second, requested run would
  only mark the same rows and is not modelled.
- `FileReclaimer`: `ReclaimQuery`, per file `ReclaimCheck` (lease) and
  `ReclaimDelete`, then `ReclaimCommit`, the transaction with the totals.
  `Reclaimers` are the scheduled task and admin-triggered runs.
- `query_parquet_as`: `ReaderQuery`, `ReaderAcquire`, `ReaderResolve` per file,
  `ReaderScan`; `Return` drops the leases. `timely` records, for the properties,
  which files were still visible when they were leased. A path that vanished
  before the scan is an error or is left out: that is DataFusion's choice.
- `Crash` drops all memory, with it leases, spawned removals and the cache
  index, and unsynced bytes; `recover_incomplete_writes` follows. A rename is
  assumed durable, as is a commit.
- `SetCutoff`: time and administrators move the retention cutoff both ways;
  `horizon` is the largest it has been.

Abstracted: all files are in one bucket (workspace, signal, date), since no task
relates files of two; ages (check interval, push delay) are arbitrary; which
cache entries an eviction takes is arbitrary.

### How the other modules correspond

**Admission.** A handler walks through `breaker`, `check` (the guard consulted
by `append_batches`), `append` (the guard inside `Wal::append`) and `durable`,
or awaits a measurement in one of the three `*_sample` places. `Call` takes a
slot of the semaphore (a shed request changes nothing), `Respond` gives it back.
`DropFuture` is the listener's deadline or a client that disconnects, possible
at every await. Samples have an age (`never`, `fresh`, `stale`) in place of a
time; `pressure`, `backlog` and `shortage` are what a measurement taken now would
find, and change on their own. A measurement that fails is stored as unknown and
fails open, which is what finding no pressure or no shortage does. An attempt counter modulo `CheckEvery` and the age decide whether the
WAL guard samples.

**Convert, Signals.** Pure operators. An attribute list is a sequence of
`[key, val]` with a typed value, so that duplicate keys, wrong types and order
matter as in `AttrView`. Each convention is an operator from a row to a row;
`Conventions` composes them in the order of `default_conventions`. A row is a
function on `Columns`; numbers keep the width of their field (`Saturated`,
`Clamped`, `Wrapped` at `MaxI32`), fractions are pairs. `SpanBatch` and its
siblings are the columns written to Parquet. A query reads the files it lists as
one table (`TableSchemas`: the columns of all of them, or of the one its schema is
inferred from), and `ReadSpan` a row of it: a column that the table lacks has its
default, one that only the file lacks is a null; `ShowSpan`, `ShowLog` and `ShowMetric` are
what the API returns. `Parses` is serde_json: a number that is not finite is
written as null and not read back.

**Ingest.** `Screen` is every check before the settings, in the order of the
transport: the first that fails gives the answer. `EnforceSettings` is the
settings, the token bucket and the conversion; `InsertScores`, `ScoresDurable`,
`InsertRows`, `Durable` the two appends of a logs request (the others have one);
`FsyncDropped`, `SettingsFail`, `Undrained` the failures. `Deadline` is the
listener's: it drops the handler wherever it waits and answers 504 or
DEADLINE_EXCEEDED, which exporters retry, whatever was appended. `Flush` and
`FlushFails` are `TelemetryFlushSink::flush_records`. `Answered` is the exporter:
it retries what OTLP calls retryable. `open` counts the answers that leave open
whether rows are stored, and `seen` the capture settings in force during the
export (history).

**Buffer.** `Insert` splits a batch (`Grouped`, unless it is homogeneous),
`InsertGroup` writes or pushes one group, `InsertReturns` ends it. The worker
waits for its interval, a notification or the cancellation, finds the eligible
keys, takes them one at a time (`DrainKey`) and writes them (`FlushOne`), dropping
one that fails. Pushes come in between. A write that returns an error
(`FailedWrite`) leaves nothing, or, when only the stream statistics could not be
updated, a registered file: the worker then counts as dropped rows that queries
see, and a direct insert is tried again with its rows already stored. `RowStore`
is the promise; the mapping takes as accepted what is in slots, in the worker's
hands, stored or given up.

**Query, Api, Analytics.** One request is in flight; the policy check, the
retention clamp, the count and the page are separate steps, and each of the last
two lists the files anew. `files` change between them: published, merged with
the originals still visible and then marked, reclaimed. A row has the time its
client gave it, which may be in the future. Rows carry nanoseconds, files
microseconds (`Micro` to one). `pager` is the client that asks for page after
page. Each query of a dashboard is a step of its own (`ReadPart`, over the files
of that moment, in any order as under `try_join`); `Answer` joins what they read,
as `find_group_value` does, and `ReadFails` is one of them failing. A credential
carries the keys of the key service; `Capabilities` drops those the server does
not know, and a list left empty is granted everything, as in `require`.

**Control, Usage, Policy.** A handler is a client's walk through the awaits of
its request; HTTP and gRPC run the same steps. `timer` is the periodic refresh of
the policy cache, which may install an older read over a newer one. `hot` are
the samples of this process, `channel` and `worker` their way to Postgres with
a full channel, a capped retry buffer and failing transactions, `events`,
`daily`, `monthly`, `snapshots` and `cleaned` the tables; `gone` what was given
up and counted. A cleanup run lists by the cutoff of that moment (`ListExpired`)
and marks in another step (`MarkDeleted`, which may fail); a reclaim run lists the
rows and fixes the day (`ListDeleted`), and books and deletes later the rows whose
files it could remove (`BookAndDelete`). `marks` and `sweeps` are the runs under
way, of the timers (`CleanupLists`, `CleanupMarks`, `ReclaimLists`, `ReclaimBooks`)
and of requests (`ExpireStep` to `BookStep`), which overlap. `SaveFails` is an
error of `upsert_settings`, or a handler dropped there, with the settings saved or
not. `Restart` drops the memory and reloads what start-up reloads. Retention has
one value, that of traces: it is the one the API reports and start-up loads, and
`set_workspace_retention` writes all three alike. History: `pending` is the change
saved last and not yet applied, `unsettled` that the settings and the
configuration in memory were parted otherwise, `misbooked` the signals and days
for which a reclaim run booked a file twice or under another day.

## Runs

| Run | Instance | Shows |
|---|---|---|
| `wal_faults` | 3 handlers, 2 records per segment, 1 crash, all faults (1.6 M states) | no loss beyond the two recorded causes; needed segments kept; offsets unique per segment; a round before the first crash covers its queue; checkpoint monotone |
| `wal_liveness` | 2 handlers, 1 record per segment, no faults, write buffer | appends are acknowledged, records reach Parquet, flushed segments are deleted |
| `file_local` | 2 rows, 3 files, all failures, 1 crash, cutoff 0 to 2 (2 M states) | no bytes outlive their row; the cleanup totals are exact |
| `file_promotion` | 2 rows, 3 files, S3, all failures (3.3 M states) | visible files have their bytes; acknowledged rows stay visible |
| `file_queries` | 2 rows, 3 files, local storage, 2 queries, no failures | a query leased in time that answers Ok is complete; no row is visible twice outside a merge |
| `file_liveness` | 1 file, S3, a query that keeps coming | expired files are reclaimed, promoted files lose the local copy |
| `admission` | 3 requests, 2 slots, 2 resources, sampling at every second attempt (0.3 M states) | slots conserved; one sampler per guard; the guards' beliefs converge to a machine that has settled, for the breaker unless a sampler was dropped |
| `ingest` | 1 or 2 exporters, workloads per signal and transport, up to 2 faults (deadlines among them) and a change of settings (84 k states) | rows say what was sent; files of several releases read as one table lose nothing; answers agree with storage; gRPC exports settle |
| `buffer` | 2 batches that mix workspaces, streams and hours, buffered and direct, 1 write that fails before or after its file is registered (65 k states) | partitions; an insert that returned has its rows taken; `RowStore` is implemented; accepted rows are settled |
| `query` | 10 rows of two workspaces, one of the future, 2 visible files, all kinds of requests on both transports, known and unknown keys (3.0 M states) | scope, retention, pruning, paging, joins, capabilities |
| `control` | 2 clients, up to 3 requests, 3 samples, 2 faults in seven mixes, scheduled and requested runs (0.6 M states) | the cache converges; deletions as reported; usage and storage add up; status and enforcer agree |
| `ingest_nonfinite` | one gauge point that is not finite | violation: the row is acknowledged and dropped by the sink (see `findings`) |

### Other disagreements

Met while modelling; the models follow the code, and the properties say what
remains true. The definitions named here are in the modules and are false.

WAL and files:

- `zradar-wal/src/lib.rs:169` takes offsets before the mutex: an overtaken record
  lands behind the checkpoint and is skipped for ever, against `lib.rs:3-6`
  (`Wal!AckedIsRecoverable`; such records count as `shadowed`).
- `zradar-wal/src/group_commit.rs:144` resolves handles registered after the
  fsync began (`Wal!AckedIsSynced`; they count as `early_ack`).
- `zradar-wal/src/segment.rs:58`: a crash before the header is written makes every
  later start fail (`Wal!StartupSucceeds`).
- `zradar-wal/src/segment.rs:74`: a write that fails half way leaves a torn
  record; later records are acknowledged behind it and no reader gets past it
  (`shadowed`).
- `zradar-wal/src/lib.rs:64`: after a power loss, offsets that the checkpoint
  covers may be assigned again (`shadowed` too).
- `zradar-wal/src/lib.rs:98`: `open` does not renew `current.seg`; after a crash
  inside a rotation the group commit fsyncs the wrong segment (`early_ack`), so
  `FsyncCoversQueue` is stated up to the first crash.
- `zradar-wal/src/lib.rs:91`: a full segment that `open` did not fsync may lose
  its header to a power loss, and replay and flusher stop in front of it.
- `runtime/zradar-runtime/src/builder.rs:725`: with the write buffer the
  checkpoint moves past records in memory, which a crash loses.
- `zradar-parquet/src/file_mover.rs:157` removes the local file after a fixed
  delay, from under a leased query (`FileLifecycle!LeasedFilesStay`); at `:141`
  it may upload a file that is being reclaimed, and the object stays for ever
  (`NoOrphanBytes` holds on local storage only).
- `zradar-plugin-postgres/src/repositories/storage_usage.rs:46`: two concurrent
  reclaim runs add the same files to the totals, so `CleanedOnce` is checked
  and proved with one reclaimer, and `StorageAddsUp` exempts the day (`misbooked`).
  The same goes for a run across midnight, which books under the day it began
  (`file_reclaimer.rs:121`) files that were on disk when that day ended.
- `zradar-retention/src/cleanup.rs:138` retires a file at the cutoff,
  `config.rs:71` says below it.
- `zradar-parquet/src/flush_worker.rs:12-13` describes a final drain on
  cancellation; nothing in `builder.rs` cancels that token.
- `zradar-parquet/src/telemetry_writer.rs:421-422` and the date path of
  `writer.rs:485` disagree for timestamps before 1970 (`Buffer!BucketIsHour`), so
  `RowsFiled` is proved for timestamps since then.

Ingest:

- `api-optel/src/circuit_breaker.rs:159`: a sampler dropped at its await leaves
  the flag set and the breaker never samples again
  (`Admission!BreakerTracksPressure`); `zradar-wal/src/disk.rs:130` guards against
  the same.
- `otlp_http/handlers.rs:489` turns the RESOURCE_EXHAUSTED that can never succeed
  into 429, which exporters retry, against `ingestion_guard.rs:126-128`; so
  `Settles` is stated for gRPC.
- A logs request whose scores are stored and whose logs are refused is sent again
  whole: the scores are stored twice, against `builder.rs:812-814`. So is any
  request whose deadline (`admission.rs:142`) passes between the append and its
  fsync: the answer invites a retry, the record stays. `StoredAsAnswered` counts
  that answer as one that leaves the matter open, and leaves scores out of the
  count.
- `conventions/mod.rs` says the conventions that run first win, `converter.rs`
  that later ones overwrite earlier ones; which holds depends on each
  convention's guard. `llm.usage.*` counts wrap above i32::MAX, `gen_ai.*` ones
  saturate. `db.rs` says legacy `db.*` keys map; they do not.
- A content event behind the event that overruns the byte budget of
  `span_events.rs:88` is not promoted to `llm_input`.
- An empty `zradar.span.type` gives an empty span type. A score without a time
  keeps 0, a log gets the clock. The value of an exponential histogram is its
  sum, that of the others the mean. The cap on records counts metrics, not data
  points.
- `schema/spans.rs:677-678` promises -1 for a missing cache flag; over files of
  two releases the one schema of `reader.rs:234-268` fills nulls, which read 0, a
  miss. `FilesReadAsWritten` names the two flags this happens to.
- `Span` has no serde default: WAL rows of an earlier release that lack newer
  fields are skipped at replay.

Queries:

- `query_spans` ignores the duration and `db_*` filters
  `telemetry_reader.rs:3-5` claims; the gRPC conversion drops the duration bounds;
  logs and metrics with only a start lose it; an unbounded listing and the
  lookups by id, series and dashboards are not clamped to retention
  (`enforcer.rs:53`), so `RetentionWhenBounded` is about listings with a bound.
- The queries behind one dashboard list the files each for itself
  (`service.rs:977-1011`, `telemetry_reader.rs:392-483`): a write in between is in
  some result sets and not in others, so `DashboardAddsUp` compares two of them
  only when they read the same rows.
- Capability keys that the server does not know are dropped
  (`auth_extractor.rs:224-230`), and a credential with no key left is granted
  everything (`:73-76`); `RowsNeedTheirCapability` says so.
- The joined dashboards take the first day's value of a group; a series with
  aggregation `count` fails on the column type; a trace's duration is the sum of
  its spans in one answer and the extent in another; traces by span name depend
  on how rows are spread over files; listings order by time without a tie-breaker
  and a compaction between two pages hides rows (all provisos of
  `PagingMissesNothing` and `DashboardAddsUp`). HTTP keeps a limit of 0, gRPC makes
  it 100.

Control plane:

- Retention is reported and enforced by the days of traces; those of logs and
  metrics, which settings may give apart, have no effect on deletion.
- The enforcer reads the samples of its own process (lost at a restart, never
  lowered by a reclaim), the API the tables; the size limit is resolved for
  ingest by one and for storage by the other; an "all" quota is enforced per
  signal; a grace verdict of an early check skips the later ones; the status
  ignores the basis. `QuotaStatusAgrees` states where the two still agree.
- A compaction's merged file is recorded as ingestion again; a commit that took
  effect and reported an error is counted twice on retry.
- `update_workspace_settings` and the defaults a first read inserts leave the
  retention configuration in memory alone; `set_workspace_retention` writes back
  what it read; `run_cleanup` keeps the days that
  `retention/handlers.rs:33` gives "for this run only". A save that fails or is
  dropped after its commit (`:265-274`) leaves the configuration as it was, and of
  two changes that overlap the older may be applied last. `DeletesAsReported`
  leaves these cases out (`unsettled`, `pending`); each is needed, as TLC finds a
  violation without it.
- A failed audit row or refresh answers with an error although the change is
  saved.

### Bounds

`Appender` (the records of a run), `SegmentMax` and `MaxCrashes` in `Wal`. Three
records over segments of two give an overtaken record, a rotation in the middle
and a record beyond it; segments of one give a rotation per record. One crash is
enough for each recovery path; the proofs cover any number. Handlers are
interchangeable, so the safety run uses symmetry.

`Rows`, `Files`, `Writers`, `Readers`, `Reclaimers`, `Cutoffs` and `MaxCrashes`
bound the file lifecycle. Two rows in two files and a third file to merge them
into are the least for a compaction, and every race of the other jobs with it
needs no more; a crash leaves only bytes and rows behind, so one reaches every
recovery. One writer is enough to fill the files, as writers share nothing; a
second query is needed to release a lease while another is held. Files, and
queries, are interchangeable. `file_promotion` and `file_queries` hold the cutoff
at 0 and `file_local` moves it, to keep each within minutes.

`Admission` needs two requests for one to find the other sampling, and a third
to be shed; its proofs cover any number. In `Ingest` a workload (`Loads`) fixes the requests, settings,
faults and changes of a behaviour: conversions are checked one span at a time
over groups of competing attributes, each absent, given, empty or of a wrong
type, and with a duplicate, and the control with up to two faults; two exporters share a bucket
in one workload. `MaxI32`, `MaxEvents`, `MaxEventBytes`, `MaxRecords` and
`MaxGroups` are scaled down so that each is exceeded. In `Buffer` two batches
meet in one slot which two of their rows fill. `Query` has rows at the edges (one
microsecond, a tie, the cutoff, another tenant, the next tick of the clock) and
two visible files, enough for one to be published between two queries of a
dashboard or two pages; each request kind appears with and without bounds. In
`Control` the bounds come in seven mixes, since
samples, faults, requests and time multiply; a month has two days and every
buffer holds one element, so that each overflows.

### Fairness

`Wal`: weak fairness for every handler, the group commit, the flusher, the
janitor, the flush worker and start-up: the timers of the loops fire for ever and
tokio polls every ready task; the mutex is FIFO. No request has to arrive and
nothing has to crash. The liveness run has no I/O faults: an fsync or a sink that
keeps failing does stop progress.

`FileLifecycle`: weak fairness for each job (its timer fires for ever), each
spawned removal, each call of `write_batch` and each query that has begun. No
client has to write or to query, but queries may keep coming.

`Admission`: the properties are about a server with traffic, so calls and
handlers are weakly fair; of the measurements taken again and again some is not
dropped (strong fairness): a server on which every one is cut off by the deadline
learns nothing. `Ingest`: handlers and the clock run, exporters come back for a
retry. `Buffer`: the worker and the clock run; `select` takes the cancellation if
it is ready again and again (strong fairness). `Control`: the periodic refresh
runs and reads succeed often enough.

## Proofs

TLAPS checks, for every value of the constants that satisfies the modules'
assumptions:

| Theorem | Statement | Assumes |
|---|---|---|
| `WalProofs!TypeCorrect` | `Spec => []TypeOK` | |
| `WalProofs!WalInvariant` | `Spec => []WalIInv` | `WriteBufferEnabled = FALSE` |
| `WalProofs!NoLoss` | `Spec => []NoUnexplainedLoss` | the same |
| `WalProofs!SegmentsKept` | `Spec => []NeededSegmentsKept` | the same |
| `WalProofs!CheckpointMonotone` | `Spec => CheckpointAdvances` | the same |
| `FileProofs!FileTypeCorrect` | `Spec => []TypeOK` | |
| `FileProofs!FileInvariant` | `Spec => []FileIInv` | `FsyncBeforeRename = TRUE` |
| `FileProofs!BytesKept` | `Spec => []VisibleHasBytes` | the same |
| `FileProofs!RowsKept` | `Spec => []StoredRowsVisible` | the same |
| `WalProofs!OffsetsUnique` | `Spec => []SegmentOffsetsUnique` | |
| `WalProofs!RoundCoversQueue` | `Spec => []FsyncCoversQueue` | `WriteBufferEnabled = FALSE` |
| `FileProofs!LocalInvariant` | `Spec => []LocalIInv` | `FsyncBeforeRename = TRUE`, `S3Enabled = FALSE`, finitely many queries |
| `FileProofs!LeasesProtect` | `Spec => []LeasedQueryComplete` | the same |
| `FileProofs!OrphansNever` | `Spec => []NoOrphanBytes` | `FsyncBeforeRename = TRUE`, `S3Enabled = FALSE` |
| `FileProofs!CleanedExactlyOnce` | `Spec => []CleanedOnce` | one reclaimer |
| `FileProofs!RowsSeenOnce` | `Spec => []RowsVisibleOnce` | `FsyncBeforeRename = TRUE`, no failures, no crashes |
| `BufferProofs!TakingInvariant` | `Spec => []TakingInv` | |
| `BufferProofs!ReturnedIsTaken` | `Spec => []TakenWhenReturned` | |
| `BufferProofs!ImplementsRowStore` | `Spec => RefinesRowStore` | |
| `BufferProofs!RowsFiled` | `Spec => []RowsInTheirPartition` | timestamps since 1970 |
| `AdmissionProofs!SlotsConserved` | `Spec => []PermitsConserved` | |
| `AdmissionProofs!FlagOwned` | `Spec => []GuardFlagOwned` | |
| `AdmissionProofs!SingleFlight` | `Spec => []BreakerSingleFlight` | |
| `IngestProofs!IngestInvariant` | `Spec => []IngestIInv` | |
| `IngestProofs!StoredAsAnsweredHolds` | `Spec => []StoredAsAnswered` | |
| `IngestProofs!ConvertedInvariant` | `Spec => []ConvertedIInv` | |
| `IngestProofs!ContentNeedsCaptureHolds` | `Spec => []ContentNeedsCapture` | |
| `IngestProofs!FilesReadAsWrittenHolds` | `Spec => []FilesReadAsWritten` | |
| `IngestProofs!LogsAsSentHolds` | `Spec => []LogsAsSent` | |
| `QueryProofs!QueryInvariant` | `Spec => []QueryIInv` | |
| `QueryProofs!PagesInScopeHolds` | `Spec => []PagesInScope` | |
| `QueryProofs!RetentionWhenBoundedHolds` | `Spec => []RetentionWhenBounded` | |
| `QueryProofs!PruningLosesNothingHolds` | `Spec => []PruningLosesNothing` | |
| `QueryProofs!RowsNeedTheirCapabilityHolds` | `Spec => []RowsNeedTheirCapability` | |
| `QueryProofs!PagingMissesNothingHolds` | `Spec => []PagingMissesNothing` | clients begin with the first page |
| `QueryProofs!DashboardInvariant` | `Spec => []DashboardIInv` | |
| `QueryProofs!DashboardAddsUpHolds` | `Spec => []DashboardAddsUp` | |
| `ControlProofs!RetentionInvariant` | `Spec => []RetentionIInv` | |
| `ControlProofs!DeletesAsReportedHolds` | `Spec => DeletesAsReported` | |
| `ControlProofs!UsageInvariant` | `Spec => []UsageIInv` | |
| `ControlProofs!UsageAccountedHolds` | `Spec => []UsageAccounted` | |
| `ControlProofs!StorageInvariant` | `Spec => []StorageIInv` | |
| `ControlProofs!StorageAddsUpHolds` | `Spec => []StorageAddsUp` | |
| `ControlProofs!QuotaStatusAgreesHolds` | `Spec => []QuotaStatusAgrees` | |

Those of the WAL hold for any set of handlers, any positive segment size, any
number of crashes, with or without I/O and power faults (`ConstantsAssumption`);
those of the files for any rows, files, writers, queries, reclaimers and cutoffs,
with or without S3, compaction and failures (`LifecycleAssumption`); those of
admission for any finite set of requests, any number of slots and any sampling
interval (`AdmissionAssumption`); those of the write path for any batches of rows that
differ, any slot size, interval and number of failed writes, with and without
the buffer (`BufferAssumption`).

Those of ingest hold for any exporters and workloads whose requests are of a
known signal, whose logs have a number for time and severity, and whose WAL and
files at the start are not this run's and lack optional columns only
(`LoadsAssumption`); those of the queries for any rows, batches of one workspace
and signal, requests, retention, length of a day and of a microsecond, whatever the
number of files (`QueryAssumption`); those of the control plane for any clients,
requests, policies, sample sizes, positive capacities of channel, batch and
retry buffer, number of retries and, with days that divide a month, lengths of
day and month (`UsageAssumption`, `ControlAssumption`), with and without commits
that took effect and were reported as failed (`AmbiguousCommits`).

The assumptions of single theorems are needed. With the write buffer a crash, or
a flush that fails, loses records that the WAL no longer holds; without the
fsync before a rename (on by default, `writer.rs:62`) a crash may empty a
registered file; with S3 the mover removes a local copy from under a leased
query and may upload a file that is being reclaimed; two reclaim runs count a
file twice; a write that fails after its row was registered is tried again, and
its rows are visible twice; before 1970 a batch may be filed under the wrong
hour. The list of disagreements above has the lines.

`NoUnexplainedLoss` is not inductive: it says nothing of a flusher that has read
a batch, of a janitor holding a stale listing or of a replay half way. `IInv`
(module `WalInv`) adds what they rely on. Its centre is `CoveredInv`: every
record the checkpoint covers, if a reader could see it, is in Parquet.
`FlusherInv` says the same of the segments a pass has behind it, and that the
pass is about to store all of its current segment, except, in the active one,
offsets above the one it will checkpoint; `JanitorInv` that what will be deleted
is before the checkpoint; `ReplayInv` that what replay will save is delivered;
`StoredInv` that a written record is readable, in Parquet or acknowledged early,
and fsynced once acknowledged on time. The argument that carries the proof is in
`NewAreBeyond`: a record appears only in the active segment, which is never
behind the flusher or the checkpoint, and, unless it counts as shadowed, above
every offset of that segment and of the checkpoint. The proof reduces each step
on files to two facts, nothing readable is lost (`SegsKept`) and nothing new is
readable (`SegsNoNew`); there is a frame lemma per conjunct for the steps
that do not touch it, and one lemma per action for those that do. `WalIInv` is
`IInv` with the two invariants that follow.

`OffsetsInv` carries `SegmentOffsetsUnique`: offsets are handed out before the
writer mutex is taken, so a handler that has one and has not written may find
the segment extended, replaced or, after a failure, torn in front of it. What is
kept is that the offsets of those handlers differ from each other and from
every one in the active segment, and that the counter is above all of them; a
restart has no such handler and counts on from what it reads back. It needs no
assumption, and nothing of `IInv`.

`GroupCommitInv` carries `FsyncCoversQueue`. A round notes what is queued, reads
the symlink, and fsyncs the file it names, while handlers rotate: the file may
no longer be the active one, or the link may be missing. `SealedInv` says that
every segment behind the active one is fsynced to its end and that the link is
the active segment or nothing; `RoundInv` that no noted record lies behind the
file the round has opened. A record may leave for Parquet, or with a deleted
segment if it was shadowed, before the round ends, which is why the property
names both. After a crash the link may name an older segment, so the invariant
stops at the first crash, as the property does.

`FileIInv` (module `FileInv`) says of each task what it may still rely on of an
old listing. Rows only move visible, deleted, gone, so what the reclaimer lists
stays retired (`ReclaimInv`) and what retention lists stays below the horizon
(`CleanupInv`). A local copy is doomed only when the row says s3, and the row
says so only when the object is there or the row is retired (`MoverInv`). From
the registration of a merged file to the marking of its originals the rows are
visible outside the originals (`CompactInv`): retention may retire the merged
file in between, but only when its `max_ts`, the largest of the group, is
past. `WriterInv` keeps a file to the one call that writes it. Neither
`VisibleHasBytes` nor `StoredRowsVisible` is inductive without them.

On local storage `LocalIInv` adds that a lease count is the number of queries
between `acquire` and drop (`LeaseInv`, by cardinality, hence finitely many
queries) and that a file leased while visible is on disk, in the query's hands
and past no reclaimer's lease check (`HeldInv`): the reclaimer may have listed
it before the lease and checks after. `OrphanInv` says that bytes go before
their row. `SoleInv` ties what the one reclaimer has listed to the state of its
rows, across failed transactions and crashes in between. `OnceInv` says which
rows of two visible files may coincide: none, but between a merged file and its
originals from its registration to the last mark (`MergedInto`, `ApartBut`).

`BufferIInv` (module `BufferInv`) follows a row from its batch to its file.
`InsertsInv`: a batch has one insert at a time, and each of its rows is taken or
in a group still to go. `ApartInv`: a row taken is in one slot, one drained slot
or settled: in one file, given up, or both. Pushes between the worker's finding a slot and removing it
keep both, since the removal takes the rows of that moment (`DrainMoves`).
Without the buffer rows may be stored again by a later attempt; `DirectInv`
knows which attempt wrote a file (`WroteFile`). With it `AheadInv` says that no
row is handed over twice. `PlacedInv` needs `DatePathIsBucket`, the fact that
fails before 1970, for the batches that are not regrouped. In the refinement a
push is `Accept`, a direct write `StoreAtOnce` (also one that fails late), a flush
`Store` or `Lose` (with the rows stored or not), the end
of the process `End`, and every other step leaves what `RowStore` sees alone.

`AdmissionInv` (module `AdmissionProofs`) states ownership without counting: two
samplers of a guard are one, and its flag is set exactly if there is one; in the
breaker a lost flag excludes a later sampler, without which the end of a sample
could clear a flag that is counted as lost. Every step takes a slot, moves a
handler on, gives a slot back or touches neither (`StepShape`), and the
cardinality of the busy handlers follows.

`IngestIInv` (module `IngestInv`) follows the appends of an export. `KeptInv`: from
its append on a batch is kept, as the record with just these rows in the WAL or
as rows in Parquet for all that parse, and a flush that fails half way, a crash
and a retry with another setting keep it so. `CopiesInv` counts the copies of the
rows of an export against the answers that leave open whether they were stored,
with one more while a sync is awaited, which a deadline turns into such an answer; `NumberInv` tells copies apart by the
number of their append, which is why a flush of a record that is already in
Parquet makes no new copy. `StoredAsAnswered` follows; without `AnswerInv`, that an
accepted export is over, a late step could append behind the answer.

`ConvertedIInv` adds where the rows come from: every record and row is one of the
conversions of its request, under a setting that was in force while the export
was under way (`SeenInv`, `StemInv`). That settles `ContentNeedsCapture` (a row
with content means that the workspace captured content at some moment of this
export), which is about `Scrubbed` and every path from it to the file. For logs
the conversion itself is proved faithful (`LogsFaithful`), which gives
`LogsAsSent`, the part of `RowsAsSent` about logs. `FilesReadAsWritten` rests on the
columns files may lack: each of them has the same default as a missing column,
as a null (but for the two flags) and in a new span (`MissingColumns`), and no
schema the table may get lacks a required one. What the conversion of a span, a
metric or a score computes stays with TLC: eighteen conventions over each other
and the events folded into the row need induction over sequences and operators
(`SelectSeq`, `@@`) that the provers do not expand.

`QueryIInv` (module `QueryInv`) has what the steps of a listing hand to each other:
the bounds of a file enclose its rows in microseconds (`FilesInv`), the request
was authorized by the keys the server knows and is about the workspace of its
credential (`AuthInv`), its range is that of the clock at which it was clamped
(`RangeInv`), which is no later than that of the page. Pruning is then a
statement about division: rows in range in nanoseconds are in a file whose
bounds overlap it in microseconds. For paging, `PagingInv` says of every row the
client may still expect (`Expected`) that it was shown or that at least `offset`
rows come before it in the listing (`Ahead`), although each page lists the files
anew and the end of an open range moves with the clock. `PagerInv` says that in a
range that ends at the clock a row the client may expect was not of the future
when it began: a row that the clock reaches later enters in front. Rows that
arrive can only add to those before it; rows that are reclaimed are beyond retention and so are
older than it; copies that a merge makes add, and the marking of its originals,
which takes away, ends the promise (`merged`). A page that is not full has shown
everything from `offset` on. The theorem is about clients that begin at offset 0:
one that begins later has skipped rows by its own wish.

`DashboardInv` says that each query of a dashboard has read one finite set of rows,
each perhaps another, and that the answer is made of all of them;
`DashboardAddsUp` is then about aggregates alone. Its lemmas group a finite set
by a key (`SumByGroup`, `SumOfParts`): errors by service are a partition of the
errors, traces by day are counted once per day, and `find_group_value` finds the
bucket of the first day of the group it is asked for, in the rows its own query
read.

`UsageIInv` (module `ControlInv`) says that samples are numbered without gaps
(`NumbersInv`), that one not booked is in one place on its way, once
(`PlacesInv`), that copies of one sample in the event tables are numbered
(`CopiesInv`, as a retried commit may book it again), and that the rollups are the
sums of the events of their day and month (`BooksInv`); a day without an event
has no row, which a query of zero bytes distinguishes from a day with the sum
0. `UsageAccounted` needs the sums of the days of a month to be that of the month,
which rests on two facts about division (`DayOf`, `MonthOf`, with days that divide
a month). `StorageInv` balances the disk: on disk and removed today is stored
yesterday and written today. Compaction leaves both sides the same amount larger,
since the merged file is recorded as ingested while its originals remain; midnight
moves today's end to yesterday's. A reclaim run books what it listed earlier
(`SweepsInv`), which is still there unless another run came first, and for today
unless midnight has passed: else the signal and day are `misbooked`. `QuotaStatusAgrees` follows from
`UsageIInv` alone: with as many events as samples in memory and the same samples,
each is booked once, so both sides compare the same sum; what remains is that
two comparisons written apart, in percentages and against the limit, block alike.

`RetentionIInv` says that at most one change is the one saved last and not yet
applied, that without one and unless `unsettled` the settings report what the
configuration holds (`SettledInv`), and that a run which listed while they agreed
holds only files past the days reported then (`MarksInv`). `DeletesAsReported` is an
action property and follows at the steps that mark files, whatever has changed
since the listing.

Sums (`FiniteSums`). `SumFunctionOnSet` takes the elements of a set in an order
chosen by `CHOOSE`. The lemmas show that it satisfies the usual equations, so the
order does not matter (`SumIs`, `SumInsert`, `SumUnion`, `SumByGroup`). Induction
over a finite set is done with the set of its good subsets in place of a
predicate (`FiniteInduction`), since an operator cannot be a parameter of a cited
theorem; this works for sets but not for the recursive conversions.

Only model-checked: the liveness properties (`AppendsAcknowledged`,
`AckedReachesParquet`, `FlushedSegmentsDeleted`, `ExpiredReclaimed`,
`LocalCopyRemoved`, `GuardTracksDisk`, `BreakerTracksUnlessDropped`, `CacheConverges`,
`Settles`, `RowsSettle`), as fairness is out of the prover's reach; `RowsAsSent`, of
which only the part about logs is proved; and the violation of `AckedRowsKept`.
Every other property of a run is a theorem.

## Not modelled

- Graceful shutdown of the WAL: the branches on its cancellation token. Nothing
  in the server cancels it, so a stopped server has crashed as far as the WAL is
  concerned. (`Buffer` has the flush worker's.)
- Byte layout: CRC, magic, lengths, JSON, protobuf, compression. A torn or
  corrupt record is `Torn`, an envelope is malformed or not.
- A read error in the middle of a readable file, and a checkpoint that fails to
  parse: both end the pass like the failures that are modelled.
- A process crash within the replay of one segment: its effect on Parquet is
  that of `ReplayFails`.
- The memory cache, which queries fill and the scan does not read; the eviction
  order of the disk cache.
- SQL execution, connection pools, migrations: libraries. Which files a table's
  schema is inferred from is left open (`TableSchemas`).
- The ten rails with most halts (`top_halting_rails`) and the halt rates, which
  are quotients of counts that are modelled.
- A row with location s3 on a server started without a bucket.
- `backpressure.rs`, which nothing constructs; configuration parsing, gauges,
  health endpoints, TLS and listeners.
- Test helpers (`test_functional`) and the proto definitions.

## Plan

Done: the write path from the exporter to Parquet, the file lifecycle, queries
and the control plane; every safety property that a passing run checks, except
`RowsAsSent`, is a theorem, and so is the safety part of the refinement of
`RowStore`. What could follow:

1. `RowsAsSent` for spans, convention by convention: what the last of eighteen
   records laid over each other holds for a field, and what a fold over events
   keeps.
2. An abstract durable log that `Wal` implements.
3. `DiskCache` with its eviction order and concurrent downloads.
