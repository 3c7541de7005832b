------------------------------- MODULE Usage -------------------------------
(***************************************************************************)
(* Usage accounting: the samples that file writes and queries record       *)
(* (zradar-policy usage.rs), the bounded channel and flush worker that     *)
(* carry them to Postgres (usage.rs of the plugin), the daily and monthly  *)
(* rollups, and the storage accounting fed by writes and reclaims          *)
(* (storage_usage.rs, StorageUsageDailyJob).                               *)
(*                                                                         *)
(* The enforcer reads the samples of this process (hot); the API reports   *)
(* from the tables (events and their rollups).                             *)
(***************************************************************************)
EXTENDS Policy, Sequences, SequencesExt

CONSTANTS
    Signals,
    ChannelCapacity, BatchSize, RetryBufferMax, MaxFlushRetries,
    MonthLen,       \* ticks in a month
    MaxTime,        \* bound on the clock
    Sizes,          \* compressed sizes a written file may have
    Bounds,         \* bounds on [samples, faults, requests, time]: a behaviour keeps
                    \* one of them
    AmbiguousCommits \* whether a commit may take effect and still report an error

ASSUME UsageAssumption ==
    /\ \A b \in Bounds : {b.samples, b.faults, b.requests} \subseteq Nat /\ b.time \in 0 .. MaxTime
    /\ {ChannelCapacity, BatchSize, RetryBufferMax, MaxFlushRetries, MonthLen, DayLen} \subseteq Nat \ {0}
    /\ MaxTime \in Nat /\ MonthLen % DayLen = 0
    /\ Sizes \subseteq Nat
    /\ Unset \notin Int /\ Signals \cap {Unset, "all"} = {}

VARIABLES
    bound,
    now,
    files,      \* file_list: [id, signal, bytes, created, ts, state]
    spawned,    \* record_write and record_query tasks that have not run
    hot,        \* InMemoryUsageTracker: the samples of this process
    channel,    \* mpsc channel of the Postgres tracker
    worker,     \* flush worker: [writes, queries, wfail, qfail, full]
    events,     \* ingestion_events and query_events, with duplicates numbered
    daily,      \* ingestion_daily and query_usage_daily: Unset where there is no row
    monthly,    \* ingest_query_monthly
    cleaned,    \* storage_cleanup_daily
    snapshots,  \* retention_storage_daily
    sweeps,     \* runs of the reclaimer: [by, rows, day]
    count,      \* samples so far
    faults,     \* faults so far
    gone,       \* samples dropped and counted, or lost with a process (history)
    stored,     \* bytes of file_list at the end of each day (history)
    misbooked   \* signals and days on which a run booked rows that another had
                \* deleted, or booked them for the day before (history)
tracker == <<spawned, hot, channel, worker, events, daily, monthly, count, gone>>
storage == <<files, cleaned, snapshots, sweeps, stored, misbooked>>
usageVars == <<bound, now, files, spawned, hot, channel, worker, events, daily, monthly, cleaned, snapshots, sweeps, count, faults, gone,
               stored, misbooked>>

Days   == 0 .. MaxTime \div DayLen
Months == 0 .. MaxTime \div MonthLen
Ops    == {"ingest", "query"}
DayOf(t) == t \div DayLen
MonthOf(t) == t \div MonthLen
Today == DayOf(now)

NoWorker == [writes |-> <<>>, queries |-> <<>>, wfail |-> 0, qfail |-> 0, full |-> FALSE]
OnDisk(fs, s) == SumBytes({f \in fs : f.signal = s})

UsageInit ==
    /\ bound \in Bounds
    /\ now = 0 /\ files = {} /\ spawned = {} /\ hot = {}
    /\ channel = <<>> /\ worker = NoWorker /\ events = {}
    /\ daily = [k \in Ops \X Signals \X Days |-> Unset]
    /\ monthly = [k \in Ops \X Signals \X Months |-> 0]
    /\ cleaned = [k \in Signals \X Days |-> 0]
    /\ snapshots = [k \in Signals \X Days |-> Unset]
    /\ sweeps = {} /\ count = 0 /\ faults = 0 /\ gone = {}
    /\ stored = [k \in Signals \X Days |-> 0] /\ misbooked = {}

Sample(op, signal, bytes) == [id |-> count + 1, op |-> op, signal |-> signal, bytes |-> bytes, records |-> 1, at |-> now]

Spawn(u) == spawned' = spawned \cup {u} /\ count' = count + 1

-----------------------------------------------------------------------------
(* Files.                                                                  *)

File(signal, bytes) == [id |-> count + 1, signal |-> signal, bytes |-> bytes, created |-> now, ts |-> now, state |-> "live"]

\* write_batch registers a file and spawns the recording of its sample.
WriteFile(signal, bytes) ==
    /\ count < bound.samples
    /\ files' = files \cup {File(signal, bytes)}
    /\ Spawn(Sample("ingest", signal, bytes))
    /\ UNCHANGED <<bound, now, hot, channel, worker, events, daily, monthly, cleaned, snapshots, sweeps, faults, gone, stored, misbooked>>

\* The compactor writes with the same writer, so that its file is recorded as
\* ingested once more, and marks the originals.
Compact(f, g) ==
    /\ count < bound.samples
    /\ f # g /\ f.signal = g.signal /\ f.state = "live" /\ g.state = "live"
    /\ files' = (files \ {f, g}) \cup {[f EXCEPT !.state = "merged"], [g EXCEPT !.state = "merged"],
                                       [File(f.signal, f.bytes + g.bytes) EXCEPT !.ts = Max({f.ts, g.ts})]}
    /\ Spawn(Sample("ingest", f.signal, f.bytes + g.bytes))
    /\ UNCHANGED <<bound, now, hot, channel, worker, events, daily, monthly, cleaned, snapshots, sweeps, faults, gone, stored, misbooked>>

\* record_query_usage, once a query was answered.
QueryDone(signal, bytes) ==
    /\ count < bound.samples
    /\ Spawn(Sample("query", signal, bytes))
    /\ UNCHANGED <<bound, now, hot, channel, worker, events, daily, monthly, faults, gone, storage>>

\* Mutant: the deltas of a day overwrite each other.
CleanedOverwritten(rows, day) ==
    [k \in Signals \X Days |-> IF k[2] = day /\ OnDisk(rows, k[1]) > 0 THEN OnDisk(rows, k[1]) ELSE cleaned[k]]

\* upsert_cleanup_deltas.
Cleaned(rows, day) == [k \in Signals \X Days |-> cleaned[k] + (IF k[2] = day THEN OnDisk(rows, k[1]) ELSE 0)]

\* The reclaimer lists the soft-deleted rows and fixes the day it books them
\* for. A run is the scheduled one or that of a cleanup request.
Deleted == {f \in files : f.state # "live"}
ListDeleted(by) ==
    /\ Deleted # {}
    /\ sweeps' = sweeps \cup {[by |-> by, rows |-> Deleted, day |-> Today]}

\* record_cleanup_and_delete, after the leases were tested and the files
\* removed one by one: the bytes of the rows whose files are gone are booked
\* and the rows deleted in one transaction. Nothing is booked if every file was
\* leased or stayed, or if the transaction fails.
BookAndDelete(r, done) ==
    /\ sweeps' = sweeps \ {r}
    /\ files' = files \ done
    /\ cleaned' = Cleaned(done, r.day)
    /\ misbooked' = misbooked \cup {<<f.signal, Today>> : f \in {f \in done : r.day # Today \/ f \notin files}}

-----------------------------------------------------------------------------
(* The tracker.                                                            *)

\* try_send: a full channel drops the sample and counts it.
TrySend(u) ==
    IF Len(channel) < ChannelCapacity
    THEN channel' = Append(channel, u) /\ UNCHANGED gone
    ELSE gone' = gone \cup {u} /\ UNCHANGED channel

\* FanoutUsageTracker: the in-memory tracker, then the Postgres one.
Record(u) ==
    /\ u \in spawned
    /\ spawned' = spawned \ {u}
    /\ hot' = hot \cup {u}
    /\ TrySend(u)
    /\ UNCHANGED <<bound, now, worker, events, daily, monthly, count, faults, storage>>

Buffered(w) == Len(w.writes) + Len(w.queries)

\* Mutant: the buffer is cut without a count of what was dropped.
OverLimitUncounted(w) == {}

\* enforce_retry_buffer_limit: the oldest sample of the longer list goes.
OverLimit(w) ==
    IF Buffered(w) <= RetryBufferMax THEN {}
    ELSE IF Len(w.writes) >= Len(w.queries) THEN {Head(w.writes)} ELSE {Head(w.queries)}
Cut(w) ==
    IF Buffered(w) <= RetryBufferMax THEN w
    ELSE IF Len(w.writes) >= Len(w.queries) THEN [w EXCEPT !.writes = Tail(@)] ELSE [w EXCEPT !.queries = Tail(@)]

\* recv: a full batch is flushed before the next event.
Receive ==
    LET u == Head(channel)
        w == IF u.op = "ingest" THEN [worker EXCEPT !.writes = Append(@, u)] ELSE [worker EXCEPT !.queries = Append(@, u)]
    IN  /\ channel # <<>> /\ ~worker.full
        /\ channel' = Tail(channel)
        /\ worker' = [Cut(w) EXCEPT !.full = Buffered(Cut(w)) >= BatchSize]
        /\ gone' = gone \cup OverLimit(w)
        /\ UNCHANGED <<bound, now, spawned, hot, events, daily, monthly, count, faults, storage>>

\* upsert_ingestion_daily and upsert_query_usage_daily: the samples of a
\* flush, grouped, are added to the rows of their days or make those rows.
Number(row) == IF row = Unset THEN 0 ELSE row
Upserted(row, us) == IF us = {} THEN row ELSE Number(row) + SumBytes(us)
IngestionDaily(us, k) == Upserted(daily[k], {u \in us : u.op = "ingest" /\ <<"ingest", u.signal, DayOf(u.at)>> = k})
QueryUsageDaily(us, k) == Upserted(daily[k], {u \in us : u.op = "query" /\ <<"query", u.signal, DayOf(u.at)>> = k})
DailyAfter(us) == [k \in DOMAIN daily |-> IF k[1] = "ingest" THEN IngestionDaily(us, k) ELSE QueryUsageDaily(us, k)]

\* upsert_ingest_query_monthly_for_writes and _for_queries.
MonthlyAfter(us) ==
    [k \in DOMAIN monthly |-> monthly[k] + SumBytes({u \in us : <<u.op, u.signal, MonthOf(u.at)>> = k})]

\* insert_write_samples and insert_query_samples: events, daily and monthly in
\* one transaction.
Copy(u) == [s |-> u, copy |-> 1 + Cardinality({e \in events : e.s = u})]
Insert(us) ==
    /\ events' = events \cup {Copy(u) : u \in us}
    /\ daily' = DailyAfter(us)
    /\ monthly' = MonthlyAfter(us)

Outcomes == {"ok", "failed"} \cup (IF AmbiguousCommits THEN {"unknown"} ELSE {})

\* One list after a flush: emptied by success, kept by a failure, given up
\* after MaxFlushRetries of them.
After(list, fails, o) ==
    IF list = <<>> THEN [list |-> list, fails |-> fails, dropped |-> {}]
    ELSE IF o = "ok" THEN [list |-> <<>>, fails |-> 0, dropped |-> {}]
    ELSE IF fails + 1 >= MaxFlushRetries THEN [list |-> <<>>, fails |-> 0, dropped |-> ToSet(list)]
    ELSE [list |-> list, fails |-> fails + 1, dropped |-> {}]

\* flush, on a full batch or the timer: the writes and then the queries.
Flush ==
    /\ Buffered(worker) > 0
    /\ \E ow \in Outcomes, oq \in Outcomes :
          LET w == After(worker.writes, worker.wfail, ow)
              r == After(worker.queries, worker.qfail, oq)
              failed == {o \in {<<"w", ow>>, <<"q", oq>>} : o[2] # "ok"}
          IN  /\ worker.writes = <<>> => ow = "ok"
              /\ worker.queries = <<>> => oq = "ok"
              /\ faults + Cardinality(failed) <= bound.faults
              /\ faults' = faults + Cardinality(failed)
              /\ worker' = [writes |-> w.list, queries |-> r.list, wfail |-> w.fails, qfail |-> r.fails, full |-> FALSE]
              /\ gone' = gone \cup w.dropped \cup r.dropped
              /\ Insert((IF ow = "failed" THEN {} ELSE ToSet(worker.writes))
                        \cup (IF oq = "failed" THEN {} ELSE ToSet(worker.queries)))
    /\ UNCHANGED <<bound, now, spawned, hot, channel, count, storage>>

-----------------------------------------------------------------------------
(* StorageUsageDailyJob for yesterday, and the clock.                      *)

Active(s, end) == {f \in files : f.signal = s /\ f.state = "live" /\ f.created < end}

AtLeastZero(n) == IF n < 0 THEN 0 ELSE n

\* snapshot_one_key.
SnapshotOf(s, day) ==
    IF day > 0 /\ snapshots[<<s, day - 1>>] # Unset
    THEN AtLeastZero(snapshots[<<s, day - 1>>] + Number(daily[<<"ingest", s, day>>]) - cleaned[<<s, day>>])
    ELSE SumBytes(Active(s, (day + 1) * DayLen))

\* run_now for the day before, for every key with a live file of that day.
Snapshot ==
    /\ Today > 0
    /\ LET day == Today - 1
       IN  snapshots' = [k \in Signals \X Days |->
               IF k[2] = day /\ Active(k[1], (day + 1) * DayLen) # {} THEN SnapshotOf(k[1], day) ELSE snapshots[k]]
    /\ snapshots' # snapshots
    /\ UNCHANGED <<bound, now, files, cleaned, sweeps, faults, stored, misbooked, tracker>>

Tick ==
    /\ now < bound.time
    /\ now' = now + 1
    /\ stored' = [k \in Signals \X Days |-> IF k[2] = Today THEN OnDisk(files, k[1]) ELSE stored[k]]
    /\ UNCHANGED <<bound, files, cleaned, snapshots, sweeps, faults, misbooked, tracker>>

-----------------------------------------------------------------------------
(* Reports: what the usage endpoints of the API answer.                    *)

SignalFilter(signal) == IF signal \in {Unset, "all"} THEN Signals ELSE {signal}

\* usage_daily: the rows of both daily tables from one day to another.
UsageDaily(signal, first, last) ==
    {[op |-> k[1], signal |-> k[2], day |-> k[3], bytes |-> daily[k]]
        : k \in {k \in DOMAIN daily : daily[k] # Unset /\ k[2] \in SignalFilter(signal) /\ k[3] \in first .. last}}

Window(op, s, start, end) == {e \in events : e.s.op = op /\ e.s.signal = s /\ e.s.at >= start /\ e.s.at < end}

\* ingest_rate: per second of a window that is at least a second long.
IngestRate(signal, start, end) ==
    LET secs == Max({end - start, 1})
    IN  {[signal |-> s, records |-> Cardinality(Window("ingest", s, start, end)) \div secs,
          bytes |-> BytesOf(Window("ingest", s, start, end)) \div secs]
            : s \in {s \in SignalFilter(signal) : Window("ingest", s, start, end) # {}}}

\* query_usage.
QueryUsage(signal, start, end) ==
    {[signal |-> s, bytes |-> BytesOf(Window("query", s, start, end)),
      queries |-> Cardinality(Window("query", s, start, end))]
        : s \in {s \in SignalFilter(signal) : Window("query", s, start, end) # {}}}

\* stored_compressed_bytes, and get_storage_usage in one location.
StoredBytes(s) == SumBytes({f \in files : f.signal = s /\ f.state = "live"})
StorageUsage(signal) ==
    {[signal |-> s, files |-> Cardinality({f \in files : f.signal = s /\ f.state = "live"}), bytes |-> StoredBytes(s)]
        : s \in {s \in SignalFilter(signal) : \E f \in files : f.signal = s /\ f.state = "live"}}

\* derive_storage_usage_daily_rows: today from the row of yesterday, the
\* ingested bytes and the cleanup of today, or from the live files.
DerivedToday(s) ==
    IF Today > 0 /\ snapshots[<<s, Today - 1>>] # Unset
    THEN AtLeastZero(snapshots[<<s, Today - 1>>] + Number(daily[<<"ingest", s, Today>>]) - cleaned[<<s, Today>>])
    ELSE StoredBytes(s)

\* query_storage_usage_daily: the rows before today, and today's estimate.
StorageUsageDaily(signal, first, last) ==
    {[signal |-> k[1], day |-> k[2], bytes |-> snapshots[k], estimated |-> FALSE]
        : k \in {k \in DOMAIN snapshots : /\ k[1] \in SignalFilter(signal) /\ k[2] \in first .. last
                                          /\ k[2] < Today /\ snapshots[k] # Unset}}
    \cup {[signal |-> s, day |-> Today, bytes |-> DerivedToday(s), estimated |-> TRUE]
            : s \in {s \in SignalFilter(signal) :
                        /\ Today \in first .. last
                        /\ \/ Today > 0 /\ snapshots[<<s, Today - 1>>] # Unset
                           \/ \E f \in files : f.signal = s /\ f.state = "live"}}

UsageNext ==
    \/ \E s \in Signals, b \in Sizes : WriteFile(s, b) \/ QueryDone(s, b)
    \/ \E f, g \in files : Compact(f, g)
    \/ \E u \in spawned : Record(u)
    \/ Receive \/ Flush \/ Snapshot \/ Tick

-----------------------------------------------------------------------------
(* Properties.                                                             *)

Known == spawned \cup ToSet(channel) \cup ToSet(worker.writes) \cup ToSet(worker.queries)
Booked == {e.s : e \in events}

\* The reports agree with each other: the daily rows of a day with the rate
\* and the query usage over the window of that day, and the month with its days.
ReportsAgree ==
    /\ \A s \in Signals, d \in Days :
          LET rows  == UsageDaily(s, d, d)
              start == d * DayLen
          IN  /\ {[bytes |-> r.bytes \div DayLen] : r \in {r \in rows : r.op = "ingest"}}
                   = {[bytes |-> r.bytes] : r \in IngestRate(s, start, start + DayLen)}
              /\ {r.bytes : r \in {r \in rows : r.op = "query"}}
                   = {r.bytes : r \in QueryUsage(s, start, start + DayLen)}
    /\ \A op \in Ops, s \in Signals, m \in Months :
          monthly[<<op, s, m>>] =
              LET days == {d \in Days : MonthOf(d * DayLen) = m}
              IN  SumFunctionOnSet([d \in days |-> Number(daily[<<op, s, d>>])], days)

\* Every sample is still on its way, booked in the tables, or given up and
\* counted, through a full channel, a cut buffer, failed flushes and restarts;
\* it is booked once unless a commit was reported as failed; and the reports
\* drawn from the events, the days and the months agree (usage.rs, one
\* transaction per flush).
UsageAccounted ==
    /\ Cardinality(Known \cup Booked \cup gone) = count
    /\ ~AmbiguousCommits => Cardinality(Known) + Cardinality(events) + Cardinality(gone) = count
    /\ Buffered(worker) <= RetryBufferMax
    /\ ReportsAgree

\* Whether the tables hold everything that was written, once each.
BooksComplete == Known = {} /\ gone = {} /\ Cardinality(events) = count

\* The storage reported for today is that of the rows of file_list,
\* soft-deleted ones included: derived from yesterday's row, ingested bytes and
\* cleanup it adds up, and is no less than what get_storage_usage counts -
\* provided the books are complete, yesterday's row, which counts live files
\* only when it is the first, was right, and no run of the reclaimer has booked
\* rows of the signal today that another run had deleted, or booked them for a
\* day that was over (storage_usage_daily.rs: "applies ingestion and cleanup
\* deltas"; file_reclaimer.rs takes the day when a run starts).
StorageAddsUp ==
    \A s \in Signals :
        BooksComplete /\ Today > 0 /\ <<s, Today>> \notin misbooked /\ snapshots[<<s, Today - 1>>] = stored[<<s, Today - 1>>]
            => \A r \in StorageUsageDaily(s, Today, Today) :
                   /\ r.bytes = OnDisk(files, s)
                   /\ \A u \in StorageUsage(s) : u.bytes <= r.bytes
=============================================================================
