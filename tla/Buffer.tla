-------------------------------- MODULE Buffer --------------------------------
(***************************************************************************)
(* The Parquet write path behind the WAL flusher: a batch is split by the  *)
(* partition each row belongs to (telemetry_writer.rs) and its groups are  *)
(* written at once, or pushed into the slots of the write buffer           *)
(* (write_buffer.rs), from which the flush worker (flush_worker.rs) takes  *)
(* the slots that are old or large enough.                                 *)
(*                                                                         *)
(* Pushes hold one shard of the map at a time and take no await, so they   *)
(* may come between any two steps of the worker.                           *)
(***************************************************************************)
EXTENDS Integers, FiniteSets, Sequences, Functions

CONSTANTS
    Batches,        \* batches handed over, each once: [id, signal, rows]; a row is
                    \* [id, ws, service, ts]
    Modes,          \* whether the write buffer is enabled: a subset of BOOLEAN
    MaxSlotBytes, Interval, HourLen, SecondLen,
    MaxFaults       \* bound on failed writes

\* Bytes a row is taken for.
RowBytes == [traces |-> 512, metrics |-> 256, logs |-> 384, scores |-> 256]

RowsOf(b) == Range(b.rows)

\* Batches are not empty, and no row is handed over in two places.
ASSUME BufferAssumption ==
    /\ Modes \subseteq BOOLEAN
    /\ {MaxSlotBytes, Interval, HourLen, SecondLen} \subseteq Nat \ {0}
    /\ MaxFaults \in Nat
    /\ \A b \in Batches : b.signal \in DOMAIN RowBytes /\ b.rows \in Seq(RowsOf(b)) /\ b.rows # <<>>
    /\ \A b, c \in Batches :
          /\ b.id = c.id => b = c
          /\ RowsOf(b) \cap RowsOf(c) # {} => b = c
    /\ \A b \in Batches : IsInjective(b.rows)

VARIABLES
    buffered,   \* write_buffer_enabled
    slots,      \* WriteBuffer: partial function from keys to [rows, size, age]
    permit,     \* flush_notify holds a permit
    inserts,    \* inserts under way: [batch, attempt, signal, rows, groups]
    worker,     \* FlushWorker: [pc, keys, taken, last]
    timer,      \* time to the next tick of the interval
    cancelled,
    files,      \* files written: [signal, ws, stream, hour, rows, attempt]
    done,       \* inserts that returned: [batch, attempt, ok]
    lost,       \* rows given up: with a slot, or left in memory at the end
    alive,
    faults
vars == <<buffered, slots, permit, inserts, worker, timer, cancelled, files, done, lost, alive, faults>>

Empty == [k \in {} |-> {}]
Waiting == [pc |-> "wait", keys |-> {}, taken |-> {}, last |-> FALSE]

Init ==
    /\ buffered \in Modes
    /\ slots = Empty /\ permit = FALSE
    /\ inserts = {} /\ done = {}
    /\ worker = Waiting /\ timer = 0 /\ cancelled = FALSE
    /\ files = {} /\ lost = {} /\ alive = TRUE /\ faults = 0

-----------------------------------------------------------------------------
(* Partitioning.                                                           *)

StreamOf(row) == IF row.service = "" THEN "default" ELSE row.service

\* ts_ns_to_date_path: seconds are cut towards zero, and the hour is theirs.
DatePath(ts) ==
    LET secs == IF ts >= 0 THEN ts \div SecondLen ELSE -((-ts) \div SecondLen)
        nanos == ts % SecondLen
    IN  (secs * SecondLen + nanos) \div HourLen

PartitionKey(row) == [ws |-> row.ws, stream |-> StreamOf(row), hour |-> DatePath(row.ts)]

BufferKey(key, signal) == [ws |-> key.ws, signal |-> signal, stream |-> key.stream, hour |-> key.hour]

Discriminator(row) == <<row.ws, StreamOf(row), row.ts \div HourLen>>

\* Mutant: workspace and hour decide, and streams mix.
IsHomogeneousByHour(rows) ==
    \A i \in DOMAIN rows : rows[i].ws = rows[1].ws /\ rows[i].ts \div HourLen = rows[1].ts \div HourLen

IsHomogeneous(rows) == \A i \in DOMAIN rows : Discriminator(rows[i]) = Discriminator(rows[1])

\* partition_by_storage_key and partition_owned: one group for each key.
Grouped(rows) ==
    {[key |-> k, rows |-> {r \in Range(rows) : PartitionKey(r) = k}] : k \in {PartitionKey(r) : r \in Range(rows)}}
Partition(rows) ==
    IF IsHomogeneous(rows) THEN {[key |-> PartitionKey(rows[1]), rows |-> Range(rows)]} ELSE Grouped(rows)

\* Groups are taken in first-seen order: g has the earliest row still to go.
IsNextGroup(i, g) ==
    \E m \in DOMAIN i.rows :
        /\ i.rows[m] \in g.rows
        /\ \A n \in 1..(m - 1) : \A h \in i.groups : i.rows[n] \notin h.rows

\* write_spans, write_metrics, write_logs, write_scores: one file, in the hour
\* of its earliest row.
WriteFile(signal, key, rows, attempt) ==
    \E first \in rows :
        /\ \A r \in rows : first.ts <= r.ts
        /\ files' = files \cup {[signal |-> signal, ws |-> key.ws, stream |-> key.stream,
                                 hour |-> DatePath(first.ts), rows |-> rows, attempt |-> attempt]}

-----------------------------------------------------------------------------
(* The writer.                                                             *)

\* insert_spans, ... and insert_batch, up to the first group; the WAL flusher
\* hands a batch over again when it was refused. n counts the refusals.
IsAttempt(b, n) ==
    /\ \A d \in done : d.batch = b.id => d.attempt < n
    /\ n > 0 => \E d \in done : d.batch = b.id /\ d.attempt = n - 1
Insert(b) ==
    /\ alive
    /\ \A i \in inserts : i.batch # b.id
    /\ \A d \in done : d.batch = b.id => ~d.ok
    /\ \E n \in 0..MaxFaults :
        /\ IsAttempt(b, n)
        /\ inserts' = inserts \cup {[batch |-> b.id, attempt |-> n, signal |-> b.signal,
                                     rows |-> b.rows, groups |-> Partition(b.rows)]}
    /\ UNCHANGED <<buffered, slots, permit, worker, timer, cancelled, files, done, lost, alive, faults>>

Leave(i, ok) == inserts' = inserts \ {i} /\ done' = done \cup {[batch |-> i.batch, attempt |-> i.attempt, ok |-> ok]}
NextGroup(i, g) == inserts' = (inserts \ {i}) \cup {[i EXCEPT !.groups = @ \ {g}]} /\ UNCHANGED done

\* push_*_owned: a vector is moved into an empty slot, else appended.
Extended(slot, signal, rows) ==
    [slot EXCEPT !.rows = @ \cup rows, !.size = @ + Cardinality(rows) * RowBytes[signal]]
NewSlot == [rows |-> {}, size |-> 0, age |-> 0]
SlotAt(key) == IF key \in DOMAIN slots THEN slots[key] ELSE NewSlot

\* push_spans, push_metrics, push_logs, push_scores.
Push(key, rows) ==
    LET after == Extended(SlotAt(key), key.signal, rows)
    IN  /\ slots' = [k \in DOMAIN slots \cup {key} |-> IF k = key THEN after ELSE slots[k]]
        /\ permit' = (permit \/ after.size >= MaxSlotBytes)

\* What a write that returns an error leaves: nothing, or a file registered
\* before its statistics could not be updated.
FailedWrite(signal, key, rows, attempt) ==
    /\ faults < MaxFaults /\ faults' = faults + 1
    /\ UNCHANGED files \/ WriteFile(signal, key, rows, attempt)

\* Mutant: a group that cannot be written is passed over.
WriteFailsSilently(i, g) == FailedWrite(i.signal, g.key, g.rows, i.attempt) /\ NextGroup(i, g)

WriteFails(i, g) == FailedWrite(i.signal, g.key, g.rows, i.attempt) /\ Leave(i, FALSE)

\* One group of an insert: pushed, or written with the insert waiting for it;
\* the first group that cannot be written ends the insert with an error.
InsertGroup(i) ==
    /\ \E g \in i.groups :
        /\ IsNextGroup(i, g)
        /\ IF buffered
           THEN /\ Push(BufferKey(g.key, i.signal), g.rows)
                /\ NextGroup(i, g)
                /\ UNCHANGED <<files, faults>>
           ELSE /\ UNCHANGED <<slots, permit>>
                /\ \/ WriteFile(i.signal, g.key, g.rows, i.attempt) /\ NextGroup(i, g) /\ UNCHANGED faults
                   \/ WriteFails(i, g)
    /\ UNCHANGED <<buffered, worker, timer, cancelled, lost, alive>>

InsertReturns(i) ==
    /\ i.groups = {}
    /\ Leave(i, TRUE)
    /\ UNCHANGED <<buffered, slots, permit, worker, timer, cancelled, files, lost, alive, faults>>
-----------------------------------------------------------------------------
(* The flush worker.                                                       *)

\* drain_eligible looks for slots that are large or old enough, drain_all for
\* all of them; either removes them one by one afterwards.
\* Mutant: a slot waits until it is full.
EligibleBySize(k) == slots[k].size >= MaxSlotBytes
Eligible(k) == slots[k].size >= MaxSlotBytes \/ slots[k].age >= Interval
Start(keys, last) == worker' = [pc |-> "drain", keys |-> keys, taken |-> {}, last |-> last]

TimerTick ==
    /\ alive /\ buffered /\ worker.pc = "wait" /\ timer = 0
    /\ timer' = Interval
    /\ Start({k \in DOMAIN slots : Eligible(k)}, FALSE)
    /\ UNCHANGED <<buffered, slots, permit, inserts, cancelled, files, done, lost, alive, faults>>

Notified ==
    /\ alive /\ worker.pc = "wait" /\ permit
    /\ permit' = FALSE
    /\ Start({k \in DOMAIN slots : Eligible(k)}, FALSE)
    /\ UNCHANGED <<buffered, slots, inserts, timer, cancelled, files, done, lost, alive, faults>>

Cancelled ==
    /\ alive /\ buffered /\ worker.pc = "wait" /\ cancelled
    /\ Start(DOMAIN slots, TRUE)
    /\ UNCHANGED <<buffered, slots, permit, inserts, timer, cancelled, files, done, lost, alive, faults>>

\* Mutant: the rows are read before the slot is removed, and a push in
\* between is lost with it.
TakenEarly(k) == [key |-> k, rows |-> {CHOOSE r \in slots[k].rows : TRUE}]

\* The slot as it is now, rows pushed since it was found eligible included.
Taken(k) == [key |-> k, rows |-> slots[k].rows]
DrainKey(k) ==
    /\ worker.pc = "drain" /\ k \in worker.keys
    /\ worker' = [worker EXCEPT !.keys = @ \ {k}, !.taken = @ \cup {Taken(k)}]
    /\ slots' = [x \in DOMAIN slots \ {k} |-> slots[x]]
    /\ UNCHANGED <<buffered, permit, inserts, timer, cancelled, files, done, lost, alive, faults>>

DrainDone ==
    /\ worker.pc = "drain" /\ worker.keys = {}
    /\ worker' = [worker EXCEPT !.pc = "write"]
    /\ UNCHANGED <<buffered, slots, permit, inserts, timer, cancelled, files, done, lost, alive, faults>>

\* flush_one: a slot whose write failed is dropped, its file registered or not.
FlushOne ==
    /\ worker.pc = "write"
    /\ \E t \in worker.taken :
        /\ \/ /\ WriteFile(t.key.signal, t.key, t.rows, 0)
              /\ UNCHANGED <<lost, faults>>
           \/ /\ FailedWrite(t.key.signal, t.key, t.rows, 0)
              /\ lost' = lost \cup t.rows
        /\ worker' = [worker EXCEPT !.taken = @ \ {t}]
    /\ UNCHANGED <<buffered, slots, permit, inserts, timer, cancelled, done, alive>>

\* Back to the select, or out of the loop after the last flush.
FlushDone ==
    /\ worker.pc = "write" /\ worker.taken = {}
    /\ worker' = [Waiting EXCEPT !.pc = IF worker.last THEN "stopped" ELSE "wait"]
    /\ UNCHANGED <<buffered, slots, permit, inserts, timer, cancelled, files, done, lost, alive, faults>>

-----------------------------------------------------------------------------
(* The environment.                                                        *)

Tick ==
    /\ alive /\ buffered
    /\ \/ timer > 0 \/ \E k \in DOMAIN slots : slots[k].age < Interval
    /\ timer' = IF timer > 0 THEN timer - 1 ELSE 0
    /\ slots' = [k \in DOMAIN slots |-> [slots[k] EXCEPT !.age = IF @ < Interval THEN @ + 1 ELSE @]]
    /\ UNCHANGED <<buffered, permit, inserts, worker, cancelled, files, done, lost, alive, faults>>

Cancel ==
    /\ alive /\ buffered /\ ~cancelled
    /\ cancelled' = TRUE
    /\ UNCHANGED <<buffered, slots, permit, inserts, worker, timer, files, done, lost, alive, faults>>

InSlots == UNION {slots[k].rows : k \in DOMAIN slots}
\* The rows of slots in hand, of files or of groups.
RowsIn(S) == UNION {x.rows : x \in S}
InHand == RowsIn(worker.taken)

\* The process ends, by a crash or after its worker has stopped.
ProcessEnds ==
    /\ alive
    /\ alive' = FALSE
    /\ lost' = lost \cup InSlots \cup InHand
    /\ slots' = Empty /\ worker' = Waiting /\ inserts' = {}
    /\ UNCHANGED <<buffered, permit, timer, cancelled, files, done, faults>>

Work == TimerTick \/ Notified \/ (\E k \in worker.keys : DrainKey(k)) \/ DrainDone \/ FlushOne \/ FlushDone

Next ==
    \/ \E b \in Batches : Insert(b)
    \/ \E i \in inserts : InsertGroup(i) \/ InsertReturns(i)
    \/ Work \/ Cancelled
    \/ Tick \/ Cancel \/ ProcessEnds

\* The worker runs, time passes, and a select that keeps finding the
\* cancellation among its ready branches takes it some time. A worker that
\* has stopped is followed by the end of the process.
Fairness ==
    /\ WF_vars(Work) /\ WF_vars(Tick) /\ SF_vars(Cancelled)
    /\ WF_vars(worker.pc = "stopped" /\ ProcessEnds)

Spec == Init /\ [][Next]_vars /\ Fairness

-----------------------------------------------------------------------------
(* Properties.                                                             *)

AllRows == UNION {RowsOf(b) : b \in Batches}
Stored == RowsIn(files)
Accepted == InSlots \cup InHand \cup Stored \cup lost

PartitionKeys == {PartitionKey(r) : r \in AllRows}
BufferKeys == {BufferKey(k, signal) : k \in PartitionKeys, signal \in DOMAIN RowBytes}
BatchIds == {b.id : b \in Batches}

\* Every variable keeps its type.
TypeOK ==
    /\ buffered \in BOOLEAN /\ permit \in BOOLEAN /\ cancelled \in BOOLEAN /\ alive \in BOOLEAN
    /\ timer \in 0..Interval /\ faults \in 0..MaxFaults
    /\ DOMAIN slots \subseteq BufferKeys
    /\ slots \in [DOMAIN slots -> [rows : SUBSET AllRows, size : Nat, age : 0..Interval]]
    /\ inserts \subseteq [batch : BatchIds, attempt : 0..MaxFaults, signal : DOMAIN RowBytes,
                           rows : {b.rows : b \in Batches},
                           groups : SUBSET [key : PartitionKeys, rows : SUBSET AllRows]]
    /\ worker \in [pc : {"wait", "drain", "write", "stopped"}, keys : SUBSET BufferKeys,
                    taken : SUBSET [key : BufferKeys, rows : SUBSET AllRows], last : BOOLEAN]
    /\ files \subseteq [signal : DOMAIN RowBytes, ws : {r.ws : r \in AllRows},
                         stream : {StreamOf(r) : r \in AllRows}, hour : {DatePath(r.ts) : r \in AllRows},
                         rows : SUBSET AllRows, attempt : 0..MaxFaults]
    /\ done \subseteq [batch : BatchIds, attempt : 0..MaxFaults, ok : BOOLEAN]
    /\ lost \subseteq AllRows

\* Whatever a batch mixes and however slots are filled and drained, a file
\* holds the rows of one workspace, stream and hour, under the path of that
\* partition, and a row is in two files only if its insert was tried again
\* (telemetry_writer.rs: keying a batch off its first row "caused a
\* cross-tenant leak plus hour/stream mis-binning").
RowsInTheirPartition ==
    /\ \A f \in files : \A r \in f.rows :
          PartitionKey(r) = [ws |-> f.ws, stream |-> f.stream, hour |-> f.hour]
    /\ \A f, g \in files : f.rows \cap g.rows # {} /\ f # g => f.attempt # g.attempt

Abstract == INSTANCE RowStore WITH Rows <- AllRows, accepted <- Accepted, stored <- Stored

\* The write path implements the promise of RowStore: no accepted row is
\* forgotten between a push and a drain, none is stored after it was given up,
\* and one given up is in a file only if its own failed write left it there.
RefinesRowStore == Abstract!Safety

\* Every accepted row is settled in the end: by size, by age, or by the flush
\* at shutdown (flush_worker.rs run).
RowsSettle == Abstract!Settled

\* An insert that returned without error has had all its rows taken.
TakenWhenReturned ==
    \A b \in Batches : (\E d \in done : d.batch = b.id /\ d.ok) => RowsOf(b) \subseteq Accepted

\* "equal buckets <=> equal %Y/%m/%d/%H" (telemetry_writer.rs
\* partition_by_storage_key), of the rows that share a file. False for rows
\* before 1970: with hours of 4 and seconds of 2, the timestamps -4 and -1.
BucketIsHour ==
    \A f \in files : \A r, t \in f.rows :
        (r.ts \div HourLen = t.ts \div HourLen) <=> (DatePath(r.ts) = DatePath(t.ts))
=============================================================================
