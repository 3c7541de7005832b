------------------------------ MODULE WalInv ------------------------------
(***************************************************************************)
(* The inductive invariant behind NoUnexplainedLoss, NeededSegmentsKept    *)
(* and CheckpointAdvances, for a sink that writes to Parquet directly      *)
(* (WriteBufferEnabled = FALSE).                                           *)
(***************************************************************************)
EXTENDS Wal

(* Only the holder of the writer mutex is inside the critical section of   *)
(* append, and a server that is not up has no handler or task in progress. *)
LockInv ==
    \A a \in Appender :
        pc[a] \in {"seal", "header", "unlink", "link", "write"} => lock = a

StatusInv ==
    /\ status # "up" =>
        /\ \A a \in Appender : pc[a] \in {"idle", "acked", "failed"}
        /\ fl = FlIdle /\ jan = JanIdle
    /\ status # "replay" => rp = RpIdle

(* The active segment exists and has its header; the only segment beyond   *)
(* it is the one a rotation is creating, or failed to install, which holds *)
(* no record.                                                              *)
WriterInv ==
    /\ status \in {"replay", "up"} =>
        /\ CanOpen(writer.id)
        /\ checkpoint.seg <= writer.id
        /\ \A s \in DOMAIN segs :
            s > writer.id => s = writer.id + 1 /\ Len(segs[s].data) <= 1
    /\ \A a \in Appender :
        pc[a] \in {"unlink", "link"} => CanOpen(writer.id + 1)

SyncedInv == \A s \in DOMAIN segs : segs[s].synced <= Len(segs[s].data)

CheckpointInv == checkpoint # NoCheckpoint => checkpoint.seg \in DOMAIN segs

(* Every record of R that a reader could have picked up is in Parquet.     *)
Delivered(R) == \A r \in R : r.app \in shadowed \/ r.app \in parquet

AllOf(s)      == Readable(segs[s].data)
UpTo(s, o)    == {r \in Readable(segs[s].data) : r.off <= o}

(* The checkpoint covers delivered records only: all of the segments       *)
(* before its own, and its own up to its offset.                           *)
CoveredInv ==
    \A s \in DOMAIN segs :
        /\ s < checkpoint.seg => Delivered(AllOf(s))
        /\ s = checkpoint.seg => Delivered(UpTo(s, checkpoint.off))

(* Segments a flusher pass is done with *)
FlushDone(s) ==
    \/ s < fl.start
    \/ s < fl.seg
    \/ fl.pc = "read" /\ s = fl.seg

(* A flusher pass starts at the current checkpoint or has moved it itself. *)
PassStart ==
    /\ \/ fl.start < checkpoint.seg
       \/ fl.start = checkpoint.seg /\ fl.flushed <= checkpoint.off
    /\ \/ checkpoint.seg = fl.start /\ checkpoint.off = fl.flushed
       \/ checkpoint.seg <= fl.seg

(* Segments it did not list come after those it did, and the listed ones   *)
(* it has yet to visit are still there.                                    *)
PassList ==
    /\ \A s \in fl.list : s <= writer.id + 1
    /\ \A t \in DOMAIN segs \ fl.list : \A u \in fl.list : u < t
    /\ \A s \in fl.list : fl.start <= s /\ fl.seg < s => s \in DOMAIN segs

(* It leaves only delivered records behind it. *)
PassDone ==
    /\ fl.start \in DOMAIN segs => Delivered(UpTo(fl.start, fl.flushed))
    /\ \A s \in DOMAIN segs : FlushDone(s) => Delivered(AllOf(s))

(* It goes no further than the segment that was active at its start. *)
PassActive ==
    /\ fl.pc = "active" =>
        /\ fl.seg = -1
        /\ writer.id \in fl.list \/ \A s \in fl.list : s <= writer.id
    /\ fl.pc # "active" =>
        /\ fl.active <= writer.id
        /\ fl.start <= fl.active
        /\ fl.active \in fl.list \/ \A s \in fl.list : s <= fl.active
    /\ fl.pc = "read" => fl.seg < fl.active

(* It is about to store every record of its current segment, except, in    *)
(* the active segment, records above the offset it will checkpoint.        *)
PassSegment ==
    /\ fl.seg \in DOMAIN segs
    /\ fl.start <= fl.seg
    /\ fl.seg <= fl.active
    /\ \/ checkpoint.seg < fl.seg
       \/ checkpoint.seg = fl.seg /\ checkpoint.off < fl.max
    /\ \E r \in Readable(segs[fl.seg].data) : r.off = fl.max
    /\ \A r \in Readable(segs[fl.seg].data) :
        \/ fl.seg = fl.active /\ r.off > fl.max
        \/ r.app \in shadowed
        \/ r.app \in parquet
        \/ fl.pc = "flush" /\ r \in fl.batch

FlusherInv ==
    fl.pc # "idle" =>
        /\ status = "up"
        /\ PassStart
        /\ PassList
        /\ PassDone
        /\ PassActive
        /\ fl.pc \in {"flush", "save"} => PassSegment

JanitorInv ==
    jan.pc # "idle" =>
        /\ status = "up"
        /\ jan.bound <= checkpoint.seg
        /\ jan.pc = "delete" => \A d \in jan.todo : d < jan.bound

(* Replay has delivered the segments it visited; what it will save is one  *)
(* of them and lies beyond the checkpoint.                                 *)
ReplayInv ==
    status = "replay" =>
        /\ \A s \in DOMAIN segs : s <= writer.id
        /\ \A s \in DOMAIN segs : s <= rp.seg => Delivered(AllOf(s))
        /\ rp.seg <= writer.id
        /\ rp.last # NoCheckpoint =>
            /\ rp.last.seg \in DOMAIN segs
            /\ rp.last.seg <= rp.seg
            /\ \/ checkpoint.seg < rp.last.seg
               \/ checkpoint.seg = rp.last.seg /\ checkpoint.off < rp.last.off

(* a's record is in Parquet, or was acknowledged too early, or can be read *)
(* back, and, if acknowledged, from the fsynced part of its segment.       *)
Stored(a) ==
    \/ a \in parquet
    \/ pc[a] = "acked" /\ a \in early_ack
    \/ \E s \in DOMAIN segs : \E i \in ReadablePos(segs[s].data) :
        /\ segs[s].data[i] = RecordOf(a)
        /\ pc[a] = "acked" => i <= segs[s].synced

(* Records that were written and are not shadowed *)
StoredInv ==
    \A a \in Appender :
        pc[a] \in {"register", "wait", "acked"} /\ a \notin shadowed => Stored(a)

(* The inductive invariant: checkpoint, flusher, janitor and replay agree  *)
(* on which records are delivered, so that every written record that the   *)
(* readers can see is in Parquet or still ahead of all of them.            *)
IInv ==
    /\ TypeOK
    /\ LockInv
    /\ StatusInv
    /\ WriterInv
    /\ SyncedInv
    /\ CheckpointInv
    /\ CoveredInv
    /\ FlusherInv
    /\ JanitorInv
    /\ ReplayInv
    /\ StoredInv
----------------------------------------------------------------------------
(* Offsets *)

(* Handlers that have an offset and have not written their record.         *)
Unwritten == {a \in Appender : pc[a] \in {"lock", "seal", "header", "unlink", "link", "write"}}

(* Records are only added to the active segment.  Its offsets are below    *)
(* the counter and differ from those of the handlers still to write there, *)
(* whichever of them gets the writer mutex first; a restarted server,      *)
(* which has no such handler, counts on from what it reads back of the     *)
(* last segment.                                                           *)
OffsetsInv ==
    /\ SegmentOffsetsUnique
    /\ status # "up" => Unwritten = {}
    /\ \A a \in Unwritten : off[a] < offset_counter
    /\ \A a, b \in Unwritten : off[a] = off[b] => a = b
    /\ status \in {"replay", "up"} =>
        \A s \in DOMAIN segs : \A i \in ReadablePos(segs[s].data) :
            /\ s <= writer.id
            /\ s = writer.id =>
                /\ segs[s].data[i].off < offset_counter
                /\ \A a \in Unwritten : segs[s].data[i].off # off[a]

----------------------------------------------------------------------------
(* The rounds of the group commit, until the first crash *)

(* Nothing was written before the server came up. *)
UnstartedInv ==
    status # "up" =>
        /\ gc = GcIdle
        /\ writer.id = 0
        /\ \A a \in Appender : pc[a] = "idle"
        /\ \A s \in DOMAIN segs :
            s = 0 /\ Len(segs[s].data) = 1 /\ current_seg = 0

(* The symlink names the active segment or is missing; a segment that is   *)
(* no longer written, or is about to be replaced, is fsynced to its end.   *)
SealedInv ==
    /\ status \in {"replay", "up"} => current_seg \in {writer.id, NoLink}
    /\ \A s \in DOMAIN segs :
        \/ s < writer.id
        \/ s = writer.id /\ \E a \in Appender : pc[a] \in {"header", "unlink", "link"}
        => segs[s].synced = Len(segs[s].data)

(* The record of a waiting handler is in Parquet, is shadowed, or is read  *)
(* back from a segment up to n.                                            *)
WrittenUpTo(a, n) ==
    \/ a \in parquet \cup shadowed
    \/ \E s \in DOMAIN segs : \E i \in ReadablePos(segs[s].data) :
        /\ s <= n
        /\ segs[s].data[i] = RecordOf(a)

(* A round that found the symlink fsyncs a segment behind which no queued  *)
(* record lies.                                                            *)
RoundInv ==
    /\ \A a \in pending : pc[a] = "wait"
    /\ gc.pc # "idle" => gc.seen \subseteq pending
    /\ gc.pc = "sync" /\ gc.target # NoLink =>
        /\ gc.target <= writer.id
        /\ \A a \in gc.seen : WrittenUpTo(a, gc.target)
    /\ gc.pc = "drain" =>
        \A a \in gc.seen : a \in parquet \cup shadowed \/ Synced(a)

GroupCommitInv == crashes = 0 => UnstartedInv /\ SealedInv /\ RoundInv

(* All that the proofs rest on. *)
WalIInv == IInv /\ OffsetsInv /\ GroupCommitInv
============================================================================
