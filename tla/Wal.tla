-------------------------------- MODULE Wal --------------------------------
(***************************************************************************)
(* The write-ahead log of zradar (crates/core/zradar-wal) as the runtime   *)
(* wires it: request handlers append records and wait for a group-commit   *)
(* fsync, a flusher copies records to Parquet and advances a checkpoint, a *)
(* janitor deletes flushed segments, and a restarted server recovers the   *)
(* last segment and replays what the checkpoint does not cover.            *)
(*                                                                         *)
(* A handler appends one record, so a record is identified with its        *)
(* handler.  All records have the same size, one unit; a segment holds     *)
(* SegmentMax of them after its header.  The process may crash between any *)
(* two steps; with PowerFaults it may also take the page cache with it.    *)
(***************************************************************************)
EXTENDS Integers, Sequences

CONSTANTS
    Appender,           \* request handlers, each appending one record
    SegmentMax,         \* segment_max_bytes, in records
    MaxCrashes,         \* bound on the number of crashes
    PowerFaults,        \* TRUE: a crash may lose bytes that were not fsynced
    IoFaults,           \* TRUE: writes, fsyncs, sink and checkpoint I/O may fail
    WriteBufferEnabled, \* write_buffer_enabled: the sink only buffers in memory
    Header, Torn,       \* chunks of a segment file that are not records
    NoOne               \* the writer mutex is free

Record == [off : Nat, app : Appender]
Chunk  == Record \cup {Header, Torn}

ASSUME ConstantsAssumption ==
    /\ SegmentMax \in Nat \ {0}
    /\ MaxCrashes \in Nat
    /\ PowerFaults \in BOOLEAN
    /\ IoFaults \in BOOLEAN
    /\ WriteBufferEnabled \in BOOLEAN
    /\ NoOne \notin Appender
    /\ Header # Torn
    /\ Header \notin Record
    /\ Torn \notin Record

VARIABLES
    \* Files of the WAL directory.
    segs,           \* segment id -> [data, synced]: chunks in the page cache
                    \* and how many of them an fsync has covered
    current_seg,    \* target of the current.seg symlink, or NoLink
    checkpoint,     \* checkpoint.json, or NoCheckpoint
    \* Memory of the server process.
    status,         \* "down", "refused", "replay" or "up"
    offset_counter, \* next offset
    writer,         \* SegmentWriter: active segment id and current_size
    lock,           \* holder of the writer mutex
    pc,             \* where each handler is in Wal::append
    off,            \* offset assigned to each handler's record
    pending,        \* FsyncQueue: handlers whose durable() is unresolved
    gc,             \* group_commit_loop
    fl,             \* WalFlusher::flush_once
    jan,            \* WalJanitor::cleanup_once
    rp,             \* WalReplayer::replay
    buffer,         \* records the Parquet write buffer holds in memory
    \* Parquet and history.
    parquet,        \* records stored in Parquet
    shadowed,       \* records written where no reader will pick them up
    early_ack,      \* records acknowledged before an fsync covered them
    crashes

tasks   == <<gc, fl, jan, rp>>
stored  == <<buffer, parquet>>
history == <<shadowed, early_ack, crashes>>
vars    == <<segs, current_seg, checkpoint, status, offset_counter, writer,
             lock, pc, off, pending, tasks, stored, history>>

----------------------------------------------------------------------------
(* Segment files *)

NoLink == -1

(* None: start_segment_id is 0 and no offset counts as flushed *)
NoCheckpoint == [seg |-> 0, off |-> -1]

(* SegmentReader::open fails on a file that is too short for its header *)
CanOpen(s) == s \in DOMAIN segs /\ segs[s].data # <<>>

(* Positions next_record() reaches before the end or the first torn record *)
ReadablePos(q) == {i \in 2..Len(q) : \A j \in 2..i : q[j] \in Record}
Readable(q)    == {q[i] : i \in ReadablePos(q)}

(* n is the length to which truncate_segment cuts q: its readable prefix *)
IsReadablePrefix(q, n) ==
    /\ n \in 1..Len(q)
    /\ \A j \in 2..n : q[j] \in Record
    /\ n < Len(q) => q[n + 1] \notin Record

(* Mutant: the cut takes the last good record too *)
TruncatedTooFar(f, n) ==
    IF n = Len(f.data) THEN f ELSE [data |-> SubSeq(f.data, 1, n - 1), synced |-> n - 1]

(* q after truncate_segment, which also fsyncs; untouched if not torn *)
Truncated(f, n) ==
    IF n = Len(f.data) THEN f ELSE [data |-> SubSeq(f.data, 1, n), synced |-> n]

Created(id, data) ==
    [s \in DOMAIN segs \cup {id} |->
        IF s = id THEN [data |-> data, synced |-> 0] ELSE segs[s]]

Fsynced(id) == [segs EXCEPT ![id].synced = Len(segs[id].data)]

Appended(id, chunk) == [segs EXCEPT ![id].data = Append(@, chunk)]

(* Mutant: the checkpoint's offset is compared in every segment *)
UnflushedAnywhere(s, start, flushed) ==
    {r \in Readable(segs[s].data) : ~(r.off <= flushed)}

(* Records of segment s that flush_once and replay take, given a checkpoint *)
Unflushed(s, start, flushed) ==
    {r \in Readable(segs[s].data) : ~(s = start /\ r.off <= flushed)}

(* The payloads the sink decodes from records. *)
Apps(R) == {r.app : r \in R}

RecordOf(a) == [off |-> off[a], app |-> a]

(* An fsync has covered a's record *)
Synced(a) ==
    \E s \in DOMAIN segs : \E i \in 2..segs[s].synced :
        i \in ReadablePos(segs[s].data) /\ segs[s].data[i] = RecordOf(a)

IsMax(m, S) == m \in S /\ \A x \in S : x <= m
IsMin(m, S) == m \in S /\ \A x \in S : m <= x

----------------------------------------------------------------------------
GcIdle  == [pc |-> "idle", target |-> NoLink, seen |-> {}]
FlIdle  == [pc |-> "idle", start |-> 0, flushed |-> -1, list |-> {},
            active |-> 0, seg |-> -1, batch |-> {}, max |-> -1]
JanIdle == [pc |-> "idle", bound |-> 0, todo |-> {}]
RpIdle  == [seg |-> -1, last |-> NoCheckpoint]

Init ==
    /\ segs = [s \in {} |-> [data |-> <<>>, synced |-> 0]]
    /\ current_seg = NoLink
    /\ checkpoint = NoCheckpoint
    /\ status = "down"
    /\ offset_counter = 0
    /\ writer = [id |-> 0, size |-> 0]
    /\ lock = NoOne
    /\ pc = [a \in Appender |-> "idle"]
    /\ off = [a \in Appender |-> 0]
    /\ pending = {}
    /\ gc = GcIdle
    /\ fl = FlIdle
    /\ jan = JanIdle
    /\ rp = RpIdle
    /\ buffer = {}
    /\ parquet = {}
    /\ shadowed = {}
    /\ early_ack = {}
    /\ crashes = 0

----------------------------------------------------------------------------
(* Wal::append.  Admission by the free-space guard happens before and      *)
(* leaves no trace here: a rejected request never starts.                  *)

(* fetch_add, before the writer mutex is requested *)
FetchOffset(a) ==
    /\ status = "up"
    /\ pc[a] = "idle"
    /\ off' = [off EXCEPT ![a] = offset_counter]
    /\ offset_counter' = offset_counter + 1
    /\ pc' = [pc EXCEPT ![a] = "lock"]
    /\ UNCHANGED <<segs, current_seg, checkpoint, status, writer, lock, pending,
                   tasks, stored, history>>

LockWriter(a) ==
    /\ pc[a] = "lock"
    /\ lock = NoOne
    /\ lock' = a
    /\ pc' = [pc EXCEPT ![a] =
                 IF writer.size + 1 > SegmentMax THEN "seal" ELSE "write"]
    /\ UNCHANGED <<segs, current_seg, checkpoint, status, offset_counter, writer,
                   off, pending, tasks, stored, history>>

(* Mutant: the full segment is left to the next round of the group commit. *)
SealSegmentUnsynced(a) ==
    /\ pc[a] = "seal"
    /\ segs' = [s \in DOMAIN segs \cup {writer.id + 1} |->
                   IF s = writer.id + 1 THEN [data |-> <<>>, synced |-> 0] ELSE segs[s]]
    /\ pc' = [pc EXCEPT ![a] = "header"]
    /\ UNCHANGED <<current_seg, checkpoint, status, offset_counter, writer, lock,
                   off, pending, tasks, stored, history>>

(* writer.fsync(), then SegmentWriter::create opens the next file empty *)
SealSegment(a) ==
    /\ pc[a] = "seal"
    /\ segs' = [s \in DOMAIN segs \cup {writer.id + 1} |->
                   IF s = writer.id + 1 THEN [data |-> <<>>, synced |-> 0]
                                        ELSE Fsynced(writer.id)[s]]
    /\ pc' = [pc EXCEPT ![a] = "header"]
    /\ UNCHANGED <<current_seg, checkpoint, status, offset_counter, writer, lock,
                   off, pending, tasks, stored, history>>

WriteHeader(a) ==
    /\ pc[a] = "header"
    /\ segs' = Created(writer.id + 1, <<Header>>)
    /\ pc' = [pc EXCEPT ![a] = "unlink"]
    /\ UNCHANGED <<current_seg, checkpoint, status, offset_counter, writer, lock,
                   off, pending, tasks, stored, history>>

(* update_current_symlink: remove_file, then symlink *)
RemoveLink(a) ==
    /\ pc[a] = "unlink"
    /\ current_seg' = NoLink
    /\ pc' = [pc EXCEPT ![a] = "link"]
    /\ UNCHANGED <<segs, checkpoint, status, offset_counter, writer, lock, off,
                   pending, tasks, stored, history>>

CreateLink(a) ==
    /\ pc[a] = "link"
    /\ current_seg' = writer.id + 1
    /\ writer' = [id |-> writer.id + 1, size |-> 0]
    /\ pc' = [pc EXCEPT ![a] = "write"]
    /\ UNCHANGED <<segs, checkpoint, status, offset_counter, lock, off, pending,
                   tasks, stored, history>>

(* Any step of the rotation returns an error: the old writer stays in place *)
RotationFails(a) ==
    /\ IoFaults
    /\ pc[a] \in {"seal", "header", "unlink", "link"}
    /\ lock' = NoOne
    /\ pc' = [pc EXCEPT ![a] = "failed"]
    /\ UNCHANGED <<segs, current_seg, checkpoint, status, offset_counter, writer,
                   off, pending, tasks, stored, history>>

(* A record is shadowed when it lands behind a torn record, behind a       *)
(* higher offset, or in the checkpoint's segment at or below its offset.   *)
IsShadowed(a) ==
    LET q == segs[writer.id].data IN
    \/ \E i \in 2..Len(q) : q[i] \notin Record \/ q[i].off >= off[a]
    \/ checkpoint.seg = writer.id /\ off[a] <= checkpoint.off

WriteRecord(a) ==
    /\ pc[a] = "write"
    /\ segs' = Appended(writer.id, RecordOf(a))
    /\ writer' = [writer EXCEPT !.size = @ + 1]
    /\ lock' = NoOne
    /\ shadowed' = IF IsShadowed(a) THEN shadowed \cup {a} ELSE shadowed
    /\ pc' = [pc EXCEPT ![a] = "register"]
    /\ UNCHANGED <<current_seg, checkpoint, status, offset_counter, off, pending,
                   tasks, stored, early_ack, crashes>>

(* write_all fails after writing part of the record, or nothing of it.     *)
(* current_size is not advanced.                                           *)
WriteFails(a) ==
    /\ IoFaults
    /\ pc[a] = "write"
    /\ segs' \in {segs, Appended(writer.id, Torn)}
    /\ lock' = NoOne
    /\ pc' = [pc EXCEPT ![a] = "failed"]
    /\ UNCHANGED <<current_seg, checkpoint, status, offset_counter, writer, off,
                   pending, tasks, stored, history>>

(* Mutant: the handle is not queued *)
RegisterNothing(a) ==
    /\ pc[a] = "register"
    /\ pc' = [pc EXCEPT ![a] = "wait"]
    /\ UNCHANGED <<segs, current_seg, checkpoint, status, offset_counter, writer,
                   lock, off, pending, tasks, stored, history>>

(* FsyncQueue::register *)
Register(a) ==
    /\ pc[a] = "register"
    /\ pending' = pending \cup {a}
    /\ pc' = [pc EXCEPT ![a] = "wait"]
    /\ UNCHANGED <<segs, current_seg, checkpoint, status, offset_counter, writer,
                   lock, off, tasks, stored, history>>

----------------------------------------------------------------------------
(* group_commit_loop *)

(* has_pending(), then fsync_fn resolves the symlink *)
GcReadLink ==
    /\ status = "up"
    /\ gc.pc = "idle"
    /\ pending # {}
    /\ gc' = [pc |-> "sync", target |-> current_seg, seen |-> pending]
    /\ UNCHANGED <<segs, current_seg, checkpoint, status, offset_counter, writer,
                   lock, pc, off, pending, fl, jan, rp, stored, history>>

GcFsync ==
    /\ gc.pc = "sync"
    /\ gc.target \in DOMAIN segs
    /\ segs' = Fsynced(gc.target)
    /\ gc' = [gc EXCEPT !.pc = "drain"]
    /\ UNCHANGED <<current_seg, checkpoint, status, offset_counter, writer, lock,
                   pc, off, pending, fl, jan, rp, stored, history>>

(* open or sync_all fails; the queue is kept *)
GcFsyncFails ==
    /\ gc.pc = "sync"
    /\ gc.target \notin DOMAIN segs \/ IoFaults
    /\ gc' = GcIdle
    /\ UNCHANGED <<segs, current_seg, checkpoint, status, offset_counter, writer,
                   lock, pc, off, pending, fl, jan, rp, stored, history>>

(* drain_and_notify resolves every handle queued by now *)
GcDrain ==
    /\ gc.pc = "drain"
    /\ pc' = [a \in Appender |-> IF a \in pending THEN "acked" ELSE pc[a]]
    /\ early_ack' = early_ack \cup {a \in pending : ~Synced(a) /\ a \notin parquet}
    /\ pending' = {}
    /\ gc' = GcIdle
    /\ UNCHANGED <<segs, current_seg, checkpoint, status, offset_counter, writer,
                   lock, off, fl, jan, rp, stored, shadowed, crashes>>

----------------------------------------------------------------------------
(* WalFlusher::flush_once *)

(* The sink (TelemetryFlushSink) has accepted the records of apps *)
Deliver(apps) ==
    IF WriteBufferEnabled
    THEN buffer' = buffer \cup apps /\ parquet' = parquet
    ELSE parquet' = parquet \cup apps /\ buffer' = buffer

(* Load the checkpoint and list the directory *)
FlushList ==
    /\ status = "up"
    /\ fl.pc = "idle"
    /\ fl' = [FlIdle EXCEPT !.pc = "active", !.start = checkpoint.seg,
                            !.flushed = checkpoint.off, !.list = DOMAIN segs]
    /\ UNCHANGED <<segs, current_seg, checkpoint, status, offset_counter, writer,
                   lock, pc, off, pending, gc, jan, rp, stored, history>>

(* active_segment_id() waits for the writer mutex *)
FlushActive ==
    /\ fl.pc = "active"
    /\ lock = NoOne
    /\ fl' = [fl EXCEPT !.pc = "read", !.active = writer.id]
    /\ UNCHANGED <<segs, current_seg, checkpoint, status, offset_counter, writer,
                   lock, pc, off, pending, gc, jan, rp, stored, history>>

(* Listed segments the pass has yet to visit.  Mutant: it starts at the    *)
(* first listed segment, whatever the checkpoint says.                     *)
FlushTodoAll == {s \in fl.list : fl.seg < s}
FlushTodo    == {s \in fl.list : fl.start <= s /\ fl.seg < s}

(* The pass is over, or goes on after segment s unless s was the active one *)
FlushNext(s) ==
    IF s = fl.active THEN FlIdle
    ELSE [fl EXCEPT !.pc = "read", !.seg = s, !.batch = {}, !.max = -1]

(* Read one segment to its end, or to a torn record, and collect its batch *)
FlushRead ==
    /\ fl.pc = "read"
    /\ \E s \in FlushTodo :
        /\ IsMin(s, FlushTodo)
        /\ \/ ~CanOpen(s) /\ fl' = FlIdle
           \/ /\ CanOpen(s)
              /\ Unflushed(s, fl.start, fl.flushed) = {}
              /\ fl' = FlushNext(s)
           \/ /\ CanOpen(s)
              /\ \E m \in {r.off : r \in Unflushed(s, fl.start, fl.flushed)} :
                    /\ IsMax(m, {r.off : r \in Unflushed(s, fl.start, fl.flushed)})
                    /\ fl' = [fl EXCEPT !.pc = "flush", !.seg = s, !.max = m,
                                 !.batch = Unflushed(s, fl.start, fl.flushed)]
    /\ UNCHANGED <<segs, current_seg, checkpoint, status, offset_counter, writer,
                   lock, pc, off, pending, gc, jan, rp, stored, history>>

(* Every listed segment was visited *)
FlushEnd ==
    /\ fl.pc = "read"
    /\ FlushTodo = {}
    /\ fl' = FlIdle
    /\ UNCHANGED <<segs, current_seg, checkpoint, status, offset_counter, writer,
                   lock, pc, off, pending, gc, jan, rp, stored, history>>

FlushRecords ==
    /\ fl.pc = "flush"
    /\ Deliver(Apps(fl.batch))
    /\ fl' = [fl EXCEPT !.pc = "save"]
    /\ UNCHANGED <<segs, current_seg, checkpoint, status, offset_counter, writer,
                   lock, pc, off, pending, gc, jan, rp, history>>

(* The sink fails after storing some of the batch *)
FlushRecordsFails ==
    /\ IoFaults
    /\ fl.pc = "flush"
    /\ \E R \in SUBSET fl.batch : R # fl.batch /\ Deliver(Apps(R))
    /\ fl' = FlIdle
    /\ UNCHANGED <<segs, current_seg, checkpoint, status, offset_counter, writer,
                   lock, pc, off, pending, gc, jan, rp, history>>

(* CheckpointStore::save, atomic by rename *)
FlushSave ==
    /\ fl.pc = "save"
    /\ checkpoint' = [seg |-> fl.seg, off |-> fl.max]
    /\ fl' = FlushNext(fl.seg)
    /\ UNCHANGED <<segs, current_seg, status, offset_counter, writer, lock, pc,
                   off, pending, gc, jan, rp, stored, history>>

FlushSaveFails ==
    /\ IoFaults
    /\ fl.pc = "save"
    /\ fl' = FlIdle
    /\ UNCHANGED <<segs, current_seg, checkpoint, status, offset_counter, writer,
                   lock, pc, off, pending, gc, jan, rp, stored, history>>

----------------------------------------------------------------------------
(* WalJanitor::cleanup_once *)

JanitorList ==
    /\ status = "up"
    /\ jan.pc = "idle"
    /\ checkpoint # NoCheckpoint
    /\ jan' = [pc |-> "active", bound |-> checkpoint.seg, todo |-> DOMAIN segs]
    /\ UNCHANGED <<segs, current_seg, checkpoint, status, offset_counter, writer,
                   lock, pc, off, pending, gc, fl, rp, stored, history>>

(* Segments that pass the two guards of the deletion loop.  Mutants: the   *)
(* checkpoint's segment counts as flushed; the last flushed segment is     *)
(* kept.                                                                   *)
DeletableAtCheckpoint == {s \in jan.todo : s < writer.id /\ s <= jan.bound}
DeletableButLast      == {s \in jan.todo : s < writer.id /\ s + 1 < jan.bound}
Deletable             == {s \in jan.todo : s < writer.id /\ s < jan.bound}

(* active_segment_id(), then the filter *)
JanitorActive ==
    /\ jan.pc = "active"
    /\ lock = NoOne
    /\ jan' = IF Deletable = {} THEN JanIdle
              ELSE [jan EXCEPT !.pc = "delete", !.todo = Deletable]
    /\ UNCHANGED <<segs, current_seg, checkpoint, status, offset_counter, writer,
                   lock, pc, off, pending, gc, fl, rp, stored, history>>

(* remove_file on the next segment; a failure is only logged *)
JanitorDelete ==
    /\ jan.pc = "delete"
    /\ \E d \in jan.todo :
        /\ IsMin(d, jan.todo)
        /\ \/ segs' = [s \in DOMAIN segs \ {d} |-> segs[s]]
           \/ IoFaults /\ segs' = segs
        /\ jan' = IF jan.todo = {d} THEN JanIdle
                  ELSE [jan EXCEPT !.todo = @ \ {d}]
    /\ UNCHANGED <<current_seg, checkpoint, status, offset_counter, writer, lock,
                   pc, off, pending, gc, fl, rp, stored, history>>

----------------------------------------------------------------------------
(* The Parquet write buffer behind the sink, when it is enabled: a slot is *)
(* written by the flush worker, or dropped when that write fails.          *)

BufferFlush ==
    /\ \E a \in buffer :
        /\ buffer' = buffer \ {a}
        /\ \/ parquet' = parquet \cup {a}
           \/ IoFaults /\ parquet' = parquet
    /\ UNCHANGED <<segs, current_seg, checkpoint, status, offset_counter, writer,
                   lock, pc, off, pending, tasks, history>>

----------------------------------------------------------------------------
(* Crash and restart *)

(* What the process loses: every handler that was not answered has failed  *)
ProcessDies ==
    /\ status' = "down"
    /\ lock' = NoOne
    /\ pc' = [a \in Appender |->
                 IF pc[a] \in {"idle", "acked"} THEN pc[a] ELSE "failed"]
    /\ pending' = {}
    /\ gc' = GcIdle
    /\ fl' = FlIdle
    /\ jan' = JanIdle
    /\ rp' = RpIdle
    /\ buffer' = {}

(* The process is killed, possibly in the middle of write_all *)
Crash ==
    /\ status \in {"replay", "up"}
    /\ crashes < MaxCrashes
    /\ crashes' = crashes + 1
    /\ ProcessDies
    /\ \/ segs' = segs
       \/ /\ \E a \in Appender : pc[a] = "write"
          /\ segs' = Appended(writer.id, Torn)
    /\ UNCHANGED <<current_seg, checkpoint, offset_counter, writer, off, parquet,
                   shadowed, early_ack>>

(* The machine loses power: a segment keeps what was fsynced, perhaps more *)
(* of what was written, and perhaps a torn piece of the next record.       *)
PowerCut(f) ==
    {[data |-> SubSeq(f.data, 1, n), synced |-> n] : n \in f.synced..Len(f.data)}
      \cup
    {[data |-> Append(SubSeq(f.data, 1, n), Torn), synced |-> n + 1] :
        n \in {k \in f.synced..(Len(f.data) - 1) : k >= 1}}

PowerLoss ==
    /\ PowerFaults
    /\ status \in {"replay", "up"}
    /\ crashes < MaxCrashes
    /\ crashes' = crashes + 1
    /\ ProcessDies
    /\ segs' \in {g \in [DOMAIN segs -> UNION {PowerCut(segs[s]) : s \in DOMAIN segs}] :
                    \A s \in DOMAIN segs : g[s] \in PowerCut(segs[s])}
    /\ UNCHANGED <<current_seg, checkpoint, offset_counter, writer, off, parquet,
                   shadowed, early_ack>>

(* Wal::open on an empty directory *)
OpenFresh ==
    /\ status = "down"
    /\ DOMAIN segs = {}
    /\ segs' = Created(0, <<Header>>)
    /\ current_seg' = 0
    /\ writer' = [id |-> 0, size |-> 0]
    /\ offset_counter' = 0
    /\ status' = "replay"
    /\ UNCHANGED <<checkpoint, lock, pc, off, pending, tasks, stored, history>>

(* The next offset to assign when m is the last one read back.  Mutant: it *)
(* is m itself.                                                            *)
OffsetSame(m)  == m
OffsetAfter(m) == m + 1

(* Wal::open on existing segments: only the last one is scanned; a torn    *)
(* tail is cut.  If its file has reached segment_max_bytes a new segment   *)
(* follows it; a segment where no further record fits may be just below,   *)
(* and is reopened.  The symlink is only touched in the former case.       *)
OpenRecover ==
    /\ status = "down"
    /\ \E last \in DOMAIN segs :
        /\ IsMax(last, DOMAIN segs)
        /\ CanOpen(last)
        /\ \E m \in {0} \cup {r.off : r \in Readable(segs[last].data)} :
            /\ IsMax(m, {0} \cup {r.off : r \in Readable(segs[last].data)})
            /\ offset_counter' = OffsetAfter(m)
        /\ \E n \in 1..Len(segs[last].data) :
            /\ IsReadablePrefix(segs[last].data, n)
            /\ \/ /\ n - 1 >= SegmentMax
                  /\ segs' = [s \in DOMAIN segs \cup {last + 1} |->
                                CASE s = last + 1 -> [data |-> <<Header>>, synced |-> 0]
                                  [] s = last     -> Truncated(segs[last], n)
                                  [] OTHER        -> segs[s]]
                  /\ current_seg' = last + 1
                  /\ writer' = [id |-> last + 1, size |-> 0]
               \/ /\ segs' = [segs EXCEPT ![last] = Truncated(@, n)]
                  /\ current_seg' = current_seg
                  /\ writer' = [id |-> last, size |-> n - 1]
    /\ status' = "replay"
    /\ UNCHANGED <<checkpoint, lock, pc, off, pending, tasks, stored, history>>

(* Wal::open returns an error and the server does not start *)
OpenRefused ==
    /\ status = "down"
    /\ \E last \in DOMAIN segs : IsMax(last, DOMAIN segs) /\ ~CanOpen(last)
    /\ status' = "refused"
    /\ UNCHANGED <<segs, current_seg, checkpoint, offset_counter, writer, lock, pc,
                   off, pending, tasks, stored, history>>

(* The supervisor starts the server again *)
Restart ==
    /\ status = "refused"
    /\ status' = "down"
    /\ UNCHANGED <<segs, current_seg, checkpoint, offset_counter, writer, lock, pc,
                   off, pending, tasks, stored, history>>

----------------------------------------------------------------------------
(* WalReplayer::replay, before any handler or background task runs *)

(* Segments replay has yet to visit *)
ReplayTodo == {s \in DOMAIN segs : checkpoint.seg <= s /\ rp.seg < s}

(* Flush one segment, in one or more batches, and cut its torn tail.  Only *)
(* the last batch (the records behind position k) sets last_good_offset.   *)
ReplaySegment ==
    /\ status = "replay"
    /\ \E s \in ReplayTodo :
        /\ IsMin(s, ReplayTodo)
        /\ CanOpen(s)
        /\ \E n \in 1..Len(segs[s].data) :
            /\ IsReadablePrefix(segs[s].data, n)
            /\ segs' = [segs EXCEPT ![s] = Truncated(@, n)]
        /\ LET B == Unflushed(s, checkpoint.seg, checkpoint.off)
               Behind(k) == {r \in B : \E i \in ReadablePos(segs[s].data) :
                                          i > k /\ segs[s].data[i] = r}
           IN /\ Deliver(Apps(B))
              /\ \/ /\ B = {}
                    /\ rp' = [rp EXCEPT !.seg = s]
                 \/ \E k \in 1..Len(segs[s].data) :
                       \E m \in {r.off : r \in Behind(k)} :
                          /\ IsMax(m, {r.off : r \in Behind(k)})
                          /\ rp' = [seg |-> s, last |-> [seg |-> s, off |-> m]]
    /\ UNCHANGED <<current_seg, checkpoint, status, offset_counter, writer, lock,
                   pc, off, pending, gc, fl, jan, history>>

(* last_good, if any record was replayed *)
ReplayCheckpoint == IF rp.last = NoCheckpoint THEN checkpoint ELSE rp.last

(* All segments were visited, or one could not be opened: the checkpoint   *)
(* is saved once, if anything was replayed, and the server starts.         *)
ReplayDone ==
    /\ status = "replay"
    /\ \A s \in ReplayTodo : IsMin(s, ReplayTodo) => ~CanOpen(s)
    /\ checkpoint' = ReplayCheckpoint
    /\ rp' = RpIdle
    /\ status' = "up"
    /\ UNCHANGED <<segs, current_seg, offset_counter, writer, lock, pc, off,
                   pending, gc, fl, jan, stored, history>>

(* The sink or the checkpoint fails: replay returns an error, the process  *)
(* exits with part of a segment stored.                                    *)
ReplayFails ==
    /\ IoFaults
    /\ status = "replay"
    /\ ProcessDies
    /\ \/ parquet' = parquet
       \/ /\ ~WriteBufferEnabled
          /\ \E s \in ReplayTodo :
              /\ IsMin(s, ReplayTodo)
              /\ CanOpen(s)
              /\ \E R \in SUBSET Unflushed(s, checkpoint.seg, checkpoint.off) :
                    parquet' = parquet \cup Apps(R)
    /\ UNCHANGED <<segs, current_seg, checkpoint, offset_counter, writer, off,
                   history>>

----------------------------------------------------------------------------
Handler(a) ==
    \/ LockWriter(a) \/ SealSegment(a) \/ WriteHeader(a) \/ RemoveLink(a)
    \/ CreateLink(a) \/ RotationFails(a) \/ WriteRecord(a) \/ WriteFails(a)
    \/ Register(a)

GroupCommit == GcReadLink \/ GcFsync \/ GcFsyncFails \/ GcDrain

Flusher ==
    \/ FlushList \/ FlushActive \/ FlushRead \/ FlushEnd \/ FlushRecords
    \/ FlushRecordsFails \/ FlushSave \/ FlushSaveFails

Janitor == JanitorList \/ JanitorActive \/ JanitorDelete

Startup ==
    \/ OpenFresh \/ OpenRecover \/ OpenRefused \/ Restart
    \/ ReplaySegment \/ ReplayDone \/ ReplayFails

Next ==
    \/ \E a \in Appender : FetchOffset(a) \/ Handler(a)
    \/ GroupCommit
    \/ Flusher
    \/ Janitor
    \/ BufferFlush
    \/ Startup
    \/ Crash
    \/ PowerLoss

Spec == Init /\ [][Next]_vars

(* Every task of a running server keeps running; nobody has to send a      *)
(* request, and nothing has to crash.                                      *)
Fairness ==
    /\ \A a \in Appender : WF_vars(Handler(a))
    /\ WF_vars(GroupCommit)
    /\ WF_vars(Flusher)
    /\ WF_vars(Janitor)
    /\ WF_vars(BufferFlush)
    /\ WF_vars(Startup)

FairSpec == Spec /\ Fairness

----------------------------------------------------------------------------
(* Properties *)

SegmentFile   == [data : Seq(Chunk), synced : Nat]
Checkpoint    == [seg : Nat, off : Nat \cup {-1}]
SegmentWriter == [id : Nat, size : Nat]
HandlerPc     == {"idle", "lock", "seal", "header", "unlink", "link", "write",
                  "register", "wait", "acked", "failed"}
GcState       == [pc : {"idle", "sync", "drain"}, target : Nat \cup {NoLink},
                  seen : SUBSET Appender]
FlusherState  ==
    {f \in [pc : {"idle", "active", "read", "flush", "save"},
            start : Nat, flushed : Nat \cup {-1}, list : SUBSET Nat,
            active : Nat, seg : Nat \cup {-1}, batch : SUBSET Record,
            max : Nat \cup {-1}] :
        f.pc \in {"flush", "save"} => f.seg \in Nat /\ f.max \in Nat}
JanitorState  == [pc : {"idle", "active", "delete"}, bound : Nat, todo : SUBSET Nat]
ReplayState   == [seg : Nat \cup {-1}, last : Checkpoint]

(* Every variable keeps its type. *)
TypeOK ==
    /\ DOMAIN segs \subseteq Nat
    /\ segs \in [DOMAIN segs -> SegmentFile]
    /\ current_seg \in Nat \cup {NoLink}
    /\ checkpoint \in Checkpoint
    /\ status \in {"down", "refused", "replay", "up"}
    /\ offset_counter \in Nat
    /\ writer \in SegmentWriter
    /\ lock \in Appender \cup {NoOne}
    /\ pc \in [Appender -> HandlerPc]
    /\ off \in [Appender -> Nat]
    /\ pending \subseteq Appender
    /\ gc \in GcState
    /\ fl \in FlusherState
    /\ jan \in JanitorState
    /\ rp \in ReplayState
    /\ buffer \subseteq Appender
    /\ parquet \subseteq Appender
    /\ shadowed \subseteq Appender
    /\ early_ack \subseteq Appender
    /\ crashes \in Nat

(* a's record is where the flusher or a replay starting from the current   *)
(* checkpoint would read it.                                               *)
Recoverable(a) ==
    \E s \in DOMAIN segs :
        /\ checkpoint.seg <= s
        /\ RecordOf(a) \in Unflushed(s, checkpoint.seg, checkpoint.off)

(* An acknowledged record is never lost without one of the two causes the  *)
(* history records: it was written where the readers do not look, or it    *)
(* was acknowledged before an fsync covered it.  In every other case it    *)
(* is in Parquet or in a segment ahead of the checkpoint, whatever the     *)
(* flusher, the janitor, crashes, power losses and recovery do.            *)
NoUnexplainedLoss ==
    \A a \in Appender :
        pc[a] = "acked" =>
            \/ a \in parquet \cup buffer
            \/ a \in shadowed \cup early_ack
            \/ Recoverable(a)

(* "On crash, replay re-materializes any records that had been             *)
(* acknowledged but not yet flushed."                                      *)
AckedIsRecoverable ==
    \A a \in Appender :
        pc[a] = "acked" => a \in parquet \cup buffer \/ Recoverable(a)

(* durable() "waits until the fsync covering this record completes".       *)
AckedIsSynced ==
    \A a \in Appender :
        pc[a] = "acked" => Synced(a) \/ a \in parquet \cup buffer

(* The fsync closure "always syncs the active segment, even after          *)
(* rotation": until the server crashes, the handles that were queued when  *)
(* a round of the group commit began are covered by the fsync of that      *)
(* round or by the one that sealed their segment, unless their segment is  *)
(* gone: flushed to Parquet, or dropped with a shadowed record.            *)
FsyncCoversQueue ==
    crashes = 0 /\ gc.pc = "drain" =>
        \A a \in gc.seen : Synced(a) \/ a \in parquet \cup buffer \cup shadowed

(* The janitor, deciding from a checkpoint, a listing and an active id it  *)
(* read earlier, never takes away the segment being written, the           *)
(* checkpoint's segment or a segment the flusher is about to read.         *)
NeededSegmentsKept ==
    /\ status = "up" => CanOpen(writer.id)
    /\ checkpoint # NoCheckpoint => checkpoint.seg \in DOMAIN segs
    /\ fl.pc = "read" => FlushTodo \subseteq DOMAIN segs

(* Two readable records of one segment never share an offset, across       *)
(* failed appends, truncations and restarts: the flusher's filter compares *)
(* offsets within a segment.                                               *)
SegmentOffsetsUnique ==
    \A s \in DOMAIN segs :
        \A i, j \in ReadablePos(segs[s].data) :
            segs[s].data[i].off = segs[s].data[j].off => i = j

(* Neither the flusher nor a replay ever moves the checkpoint backwards.   *)
CheckpointAdvances ==
    [][\/ checkpoint'.seg > checkpoint.seg
       \/ checkpoint'.seg = checkpoint.seg /\ checkpoint'.off > checkpoint.off]_checkpoint

(* Every append that registered with the group commit is acknowledged.     *)
AppendsAcknowledged ==
    \A a \in Appender : pc[a] = "wait" ~> pc[a] \in {"acked", "failed"}

(* Every acknowledged record that is not shadowed reaches Parquet.         *)
AckedReachesParquet ==
    \A a \in Appender :
        (pc[a] = "acked" /\ a \notin shadowed) ~> a \in parquet

(* Segments behind the checkpoint are eventually all deleted.              *)
FlushedSegmentsDeleted ==
    (\E s \in DOMAIN segs : s < checkpoint.seg)
        ~> (\A s \in DOMAIN segs : checkpoint.seg <= s)

(* Wal::open "finds the active segment or starts fresh".                   *)
StartupSucceeds == status # "refused"
============================================================================
