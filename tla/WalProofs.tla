----------------------------- MODULE WalProofs ------------------------------
(***************************************************************************)
(* Proofs about Wal for every set of handlers, segment size and number of  *)
(* crashes: type correctness, what the operations do to the records that   *)
(* can be read back from segment files, then the inductive invariant of    *)
(* WalInv when the sink writes to Parquet directly, and what it implies:   *)
(* no unexplained loss, needed segments are kept, the checkpoint only      *)
(* advances.                                                               *)
(***************************************************************************)
EXTENDS WalInv, SequenceTheorems, TLAPS

(* Readable positions of a segment file hold records. *)
LEMMA ReadableRecords ==
    ASSUME NEW q \in Seq(Chunk)
    PROVE  /\ ReadablePos(q) \subseteq 2..Len(q)
           /\ \A i \in ReadablePos(q) : q[i] \in Record
           /\ Readable(q) \subseteq Record
  BY DEF ReadablePos, Readable

(* The bytes of a file cut to n chunks, and of a file with c appended. *)
IsCut(q, n, h) ==
    /\ h \in Seq(Chunk)
    /\ Len(h) = n
    /\ \A i \in 1..n : h[i] = q[i]

IsExtended(q, c, h) ==
    /\ h \in Seq(Chunk)
    /\ Len(h) = Len(q) + 1
    /\ h[Len(q) + 1] = c
    /\ \A i \in 1..Len(q) : h[i] = q[i]

LEMMA SubSeqCut ==
    ASSUME NEW q \in Seq(Chunk), NEW n \in 0..Len(q)
    PROVE  IsCut(q, n, SubSeq(q, 1, n))
  BY DEF IsCut

LEMMA AppendExtended ==
    ASSUME NEW q \in Seq(Chunk), NEW c \in Chunk
    PROVE  IsExtended(q, c, Append(q, c))
  BY DEF IsExtended

(* What an append to a segment file does to its readable records: it keeps *)
(* the ones there are and adds at most the new chunk.                      *)
LEMMA ReadableAppend ==
    ASSUME NEW q \in Seq(Chunk), NEW c \in Chunk, NEW h, IsExtended(q, c, h)
    PROVE  /\ \A i \in ReadablePos(q) : i \in ReadablePos(h) /\ h[i] = q[i]
           /\ \A i \in ReadablePos(h) :
                \/ i \in ReadablePos(q) /\ h[i] = q[i]
                \/ i = Len(q) + 1 /\ h[i] = c /\ c \in Record
  BY DEF ReadablePos, IsExtended

(* Cutting a segment file keeps exactly the readable positions before the  *)
(* cut.                                                                    *)
LEMMA ReadableCut ==
    ASSUME NEW q \in Seq(Chunk), NEW n \in 0..Len(q), NEW h, IsCut(q, n, h)
    PROVE  /\ \A i \in ReadablePos(q) : i <= n => i \in ReadablePos(h) /\ h[i] = q[i]
           /\ \A i \in ReadablePos(h) : i \in ReadablePos(q) /\ h[i] = q[i]
  BY DEF ReadablePos, IsCut

----------------------------------------------------------------------------
(* Type correctness *)

LEMMA TypeInit == Init => TypeOK
  BY ConstantsAssumption
     DEF Init, TypeOK, NoLink, NoCheckpoint, GcIdle, FlIdle, JanIdle, RpIdle,
         SegmentFile, Checkpoint, SegmentWriter, HandlerPc, GcState,
         FlusherState, JanitorState, ReplayState

(* The idle task states and the absent checkpoint are well typed. *)
LEMMA IdleTypes ==
    /\ GcIdle \in GcState
    /\ FlIdle \in FlusherState
    /\ JanIdle \in JanitorState
    /\ RpIdle \in ReplayState
    /\ NoCheckpoint \in Checkpoint
  BY DEF GcIdle, FlIdle, JanIdle, RpIdle, NoCheckpoint, NoLink, GcState,
         FlusherState, JanitorState, ReplayState, Checkpoint

(* The batch of a flusher or replay pass consists of records. *)
LEMMA UnflushedType ==
    ASSUME TypeOK, NEW s \in DOMAIN segs, NEW start, NEW flushed
    PROVE  /\ Unflushed(s, start, flushed) \subseteq Record
           /\ \A r \in Unflushed(s, start, flushed) : r.off \in Nat /\ r.app \in Appender
           /\ Apps(Unflushed(s, start, flushed)) \subseteq Appender
  <1>1. segs[s].data \in Seq(Chunk)
    BY DEF TypeOK, SegmentFile
  <1> QED
    BY <1>1, ReadableRecords DEF Unflushed, Record, Apps

(* A truncated segment file is a segment file. *)
LEMMA TruncatedType ==
    ASSUME NEW f \in SegmentFile, NEW n \in 1..Len(f.data)
    PROVE  Truncated(f, n) \in SegmentFile
  BY DEF Truncated, SegmentFile

(* fsync and append map segment files to segment files. *)
LEMMA SegmentTypes ==
    ASSUME TypeOK
    PROVE  /\ \A id \in Nat : Fsynced(id) \in [DOMAIN segs -> SegmentFile]
           /\ \A id \in Nat, c \in Chunk :
                Appended(id, c) \in [DOMAIN segs -> SegmentFile]
  <1>1. ASSUME NEW id \in Nat
        PROVE  Fsynced(id) \in [DOMAIN segs -> SegmentFile]
    <2>1. CASE id \in DOMAIN segs
      <3>1. [segs[id] EXCEPT !.synced = Len(segs[id].data)] \in SegmentFile
        BY <2>1 DEF TypeOK, SegmentFile
      <3> QED
        BY <3>1 DEF TypeOK, Fsynced
    <2>2. CASE id \notin DOMAIN segs
      BY <2>2 DEF TypeOK, Fsynced
    <2> QED
      BY <2>1, <2>2
  <1>2. ASSUME NEW id \in Nat, NEW c \in Chunk
        PROVE  Appended(id, c) \in [DOMAIN segs -> SegmentFile]
    <2>1. CASE id \in DOMAIN segs
      <3>1. Append(segs[id].data, c) \in Seq(Chunk) /\ segs[id] \in SegmentFile
        BY <2>1 DEF TypeOK, SegmentFile
      <3>2. [segs[id] EXCEPT !.data = Append(segs[id].data, c)] \in SegmentFile
        BY <3>1 DEF SegmentFile
      <3>3. Appended(id, c) = [segs EXCEPT ![id] =
                                  [segs[id] EXCEPT !.data = Append(segs[id].data, c)]]
        BY DEF Appended
      <3> QED
        BY <3>2, <3>3 DEF TypeOK
    <2>2. CASE id \notin DOMAIN segs
      BY <2>2 DEF TypeOK, Appended
    <2> QED
      BY <2>1, <2>2
  <1> QED
    BY <1>1, <1>2

(* A handler's step keeps the types. *)
LEMMA TypeHandler ==
    ASSUME TypeOK, NEW a \in Appender, FetchOffset(a) \/ Handler(a)
    PROVE  TypeOK'
  <1> USE ConstantsAssumption DEF TypeOK, tasks, stored, history
  <1>1. CASE FetchOffset(a)
    BY <1>1 DEF FetchOffset, HandlerPc
  <1>2. CASE LockWriter(a)
    BY <1>2 DEF LockWriter, HandlerPc
  <1>3. CASE SealSegment(a)
    <2>1. [data |-> <<>>, synced |-> 0] \in SegmentFile
      BY DEF SegmentFile
    <2>2. writer.id \in Nat
      BY DEF SegmentWriter
    <2>3. segs' \in [DOMAIN segs' -> SegmentFile] /\ DOMAIN segs' \subseteq Nat
      BY <1>3, <2>1, <2>2, SegmentTypes DEF SealSegment
    <2> QED
      BY <1>3, <2>3 DEF SealSegment, HandlerPc
  <1>4. CASE WriteHeader(a)
    BY <1>4 DEF WriteHeader, Created, Chunk, HandlerPc, SegmentFile, SegmentWriter
  <1>5. CASE RemoveLink(a)
    BY <1>5 DEF RemoveLink, HandlerPc
  <1>6. CASE CreateLink(a)
    BY <1>6 DEF CreateLink, HandlerPc, SegmentWriter
  <1>7. CASE RotationFails(a)
    BY <1>7 DEF RotationFails, HandlerPc
  <1>8. CASE WriteRecord(a)
    <2>1. RecordOf(a) \in Chunk
      BY DEF RecordOf, Chunk, Record
    <2>2. writer.id \in Nat /\ writer' \in SegmentWriter
      BY <1>8 DEF WriteRecord, SegmentWriter
    <2>3. segs' \in [DOMAIN segs -> SegmentFile] /\ DOMAIN segs' = DOMAIN segs
      BY <1>8, <2>1, <2>2, SegmentTypes DEF WriteRecord
    <2>4. pc' \in [Appender -> HandlerPc] /\ shadowed' \subseteq Appender
      BY <1>8 DEF WriteRecord, HandlerPc
    <2> QED
      BY <1>8, <2>2, <2>3, <2>4 DEF WriteRecord
  <1>9. CASE WriteFails(a)
    <2>1. Torn \in Chunk
      BY DEF Chunk
    <2>2. writer.id \in Nat
      BY DEF SegmentWriter
    <2>3. segs' \in [DOMAIN segs -> SegmentFile] /\ DOMAIN segs' = DOMAIN segs
      BY <1>9, <2>1, <2>2, SegmentTypes DEF WriteFails
    <2> QED
      BY <1>9, <2>3 DEF WriteFails, HandlerPc
  <1>10. CASE Register(a)
    BY <1>10 DEF Register, HandlerPc
  <1> QED
    BY <1>1, <1>2, <1>3, <1>4, <1>5, <1>6, <1>7, <1>8, <1>9, <1>10 DEF Handler

(* A group-commit step keeps the types. *)
LEMMA TypeGroupCommit ==
    ASSUME TypeOK, GroupCommit
    PROVE  TypeOK'
  <1> USE ConstantsAssumption, IdleTypes DEF TypeOK, tasks, stored, history
  <1>1. CASE GcReadLink
    BY <1>1 DEF GcReadLink, GcState
  <1>2. CASE GcFsync
    BY <1>2, SegmentTypes DEF GcFsync, GcState
  <1>3. CASE GcFsyncFails
    BY <1>3 DEF GcFsyncFails
  <1>4. CASE GcDrain
    BY <1>4 DEF GcDrain, HandlerPc
  <1> QED
    BY <1>1, <1>2, <1>3, <1>4 DEF GroupCommit

(* A flusher step keeps the types. *)
LEMMA TypeFlusher ==
    ASSUME TypeOK, Flusher
    PROVE  TypeOK'
  <1> USE ConstantsAssumption, IdleTypes DEF TypeOK, tasks, stored, history
  <1>1. CASE FlushList
    <2>1. fl' \in FlusherState
      BY <1>1 DEF FlushList, FlIdle, FlusherState, Checkpoint
    <2> QED
      BY <1>1, <2>1 DEF FlushList
  <1>2. CASE FlushActive
    BY <1>2 DEF FlushActive, FlusherState, SegmentWriter
  <1>3. CASE FlushRead
    <2>1. PICK s \in FlushTodo :
            \/ ~CanOpen(s) /\ fl' = FlIdle
            \/ CanOpen(s) /\ fl' = FlushNext(s)
            \/ /\ CanOpen(s)
               /\ \E m \in {r.off : r \in Unflushed(s, fl.start, fl.flushed)} :
                    fl' = [fl EXCEPT !.pc = "flush", !.seg = s, !.max = m,
                             !.batch = Unflushed(s, fl.start, fl.flushed)]
      BY <1>3 DEF FlushRead
    <2>2. s \in Nat
      BY DEF FlushTodo, FlusherState
    <2>3. CASE fl' = FlIdle
      BY <1>3, <2>3 DEF FlushRead
    <2>4. CASE fl' = FlushNext(s)
      <3>1. fl' \in FlusherState
        BY <2>2, <2>4 DEF FlushNext, FlusherState
      <3> QED
        BY <1>3, <3>1 DEF FlushRead
    <2>5. CASE CanOpen(s) /\ \E m \in {r.off : r \in Unflushed(s, fl.start, fl.flushed)} :
                 fl' = [fl EXCEPT !.pc = "flush", !.seg = s, !.max = m,
                          !.batch = Unflushed(s, fl.start, fl.flushed)]
      <3>1. s \in DOMAIN segs
        BY <2>5 DEF CanOpen
      <3>2. Unflushed(s, fl.start, fl.flushed) \subseteq Record
        BY <3>1, UnflushedType
      <3>3. {r.off : r \in Unflushed(s, fl.start, fl.flushed)} \subseteq Nat
        BY <3>1, UnflushedType
      <3>4. PICK m \in Nat :
              fl' = [fl EXCEPT !.pc = "flush", !.seg = s, !.max = m,
                       !.batch = Unflushed(s, fl.start, fl.flushed)]
        BY <2>5, <3>3
      <3>5. fl' \in FlusherState
        BY <2>2, <3>2, <3>4 DEF FlusherState
      <3> QED
        BY <1>3, <3>5 DEF FlushRead
    <2> QED
      BY <2>1, <2>3, <2>4, <2>5
  <1>4. CASE FlushEnd
    BY <1>4 DEF FlushEnd
  <1>5. CASE FlushRecords
    <2>1. Apps(fl.batch) \subseteq Appender
      BY DEF Apps, FlusherState, Record
    <2>2. buffer' \subseteq Appender /\ parquet' \subseteq Appender
      BY <1>5, <2>1 DEF FlushRecords, Deliver
    <2> QED
      BY <1>5, <2>2 DEF FlushRecords, FlusherState
  <1>6. CASE FlushRecordsFails
    <2>1. \A R \in SUBSET fl.batch : Apps(R) \subseteq Appender
      BY DEF Apps, FlusherState, Record
    <2>2. buffer' \subseteq Appender /\ parquet' \subseteq Appender
      BY <1>6, <2>1 DEF FlushRecordsFails, Deliver
    <2> QED
      BY <1>6, <2>2 DEF FlushRecordsFails
  <1>7. CASE FlushSave
    <2>1. checkpoint' \in Checkpoint
      BY <1>7 DEF FlushSave, Checkpoint, FlusherState
    <2>2. fl' \in FlusherState
      BY <1>7 DEF FlushSave, FlushNext, FlIdle, FlusherState
    <2> QED
      BY <1>7, <2>1, <2>2 DEF FlushSave
  <1>8. CASE FlushSaveFails
    BY <1>8 DEF FlushSaveFails
  <1> QED
    BY <1>1, <1>2, <1>3, <1>4, <1>5, <1>6, <1>7, <1>8 DEF Flusher

(* A janitor step keeps the types. *)
LEMMA TypeJanitor ==
    ASSUME TypeOK, Janitor
    PROVE  TypeOK'
  <1> USE ConstantsAssumption, IdleTypes DEF TypeOK, tasks, stored, history
  <1>1. CASE JanitorList
    BY <1>1 DEF JanitorList, JanitorState, Checkpoint
  <1>2. CASE JanitorActive
    BY <1>2 DEF JanitorActive, Deletable, JanitorState
  <1>3. CASE JanitorDelete
    BY <1>3 DEF JanitorDelete, JanitorState
  <1> QED
    BY <1>1, <1>2, <1>3 DEF Janitor

(* A step of startup keeps the types. *)
LEMMA TypeStartup ==
    ASSUME TypeOK, Startup
    PROVE  TypeOK'
  <1> USE ConstantsAssumption, IdleTypes DEF TypeOK, tasks, stored, history
  <1>1. CASE OpenFresh
    BY <1>1 DEF OpenFresh, Created, Chunk, SegmentFile, SegmentWriter
  <1>2. CASE OpenRecover
    <2>1. PICK last \in DOMAIN segs : \E n \in 1..Len(segs[last].data) :
            /\ CanOpen(last)
            /\ \E m \in {0} \cup {r.off : r \in Readable(segs[last].data)} :
                    offset_counter' = m + 1
            /\ \/ /\ segs' = [s \in DOMAIN segs \cup {last + 1} |->
                                CASE s = last + 1 -> [data |-> <<Header>>, synced |-> 0]
                                  [] s = last     -> Truncated(segs[last], n)
                                  [] OTHER        -> segs[s]]
                  /\ current_seg' = last + 1
                  /\ writer' = [id |-> last + 1, size |-> 0]
               \/ /\ segs' = [segs EXCEPT ![last] = Truncated(@, n)]
                  /\ current_seg' = current_seg
                  /\ writer' = [id |-> last, size |-> n - 1]
      BY <1>2 DEF OpenRecover, OffsetAfter
    <2>2. PICK n \in 1..Len(segs[last].data) :
            /\ CanOpen(last)
            /\ \E m \in {0} \cup {r.off : r \in Readable(segs[last].data)} :
                    offset_counter' = m + 1
            /\ \/ /\ segs' = [s \in DOMAIN segs \cup {last + 1} |->
                                CASE s = last + 1 -> [data |-> <<Header>>, synced |-> 0]
                                  [] s = last     -> Truncated(segs[last], n)
                                  [] OTHER        -> segs[s]]
                  /\ current_seg' = last + 1
                  /\ writer' = [id |-> last + 1, size |-> 0]
               \/ /\ segs' = [segs EXCEPT ![last] = Truncated(@, n)]
                  /\ current_seg' = current_seg
                  /\ writer' = [id |-> last, size |-> n - 1]
      BY <2>1
    <2>3. last \in Nat /\ segs[last] \in SegmentFile /\ segs[last].data \in Seq(Chunk)
      BY DEF SegmentFile
    <2>4. \A r \in Readable(segs[last].data) : r.off \in Nat
      BY <2>3, ReadableRecords DEF Record
    <2>5. offset_counter' \in Nat
      BY <2>2, <2>4
    <2>6. Truncated(segs[last], n) \in SegmentFile
      BY <2>3, TruncatedType
    <2>7. [data |-> <<Header>>, synced |-> 0] \in SegmentFile
      BY DEF SegmentFile, Chunk
    <2>8. DOMAIN segs' \subseteq Nat /\ segs' \in [DOMAIN segs' -> SegmentFile]
      <3>1. CASE segs' = [segs EXCEPT ![last] = Truncated(@, n)]
        BY <3>1, <2>6
      <3>2. CASE segs' = [s \in DOMAIN segs \cup {last + 1} |->
                            CASE s = last + 1 -> [data |-> <<Header>>, synced |-> 0]
                              [] s = last     -> Truncated(segs[last], n)
                              [] OTHER        -> segs[s]]
        BY <3>2, <2>3, <2>6, <2>7
      <3> QED
        BY <2>2, <3>1, <3>2
    <2>9. current_seg' \in Nat \cup {NoLink} /\ writer' \in SegmentWriter
      BY <2>2, <2>3 DEF SegmentWriter
    <2> QED
      BY <1>2, <2>5, <2>8, <2>9 DEF OpenRecover
  <1>3. CASE OpenRefused
    BY <1>3 DEF OpenRefused
  <1>4. CASE Restart
    BY <1>4 DEF Restart
  <1>5. CASE ReplaySegment
    <2>1. PICK s \in ReplayTodo :
            /\ CanOpen(s)
            /\ \E n \in 1..Len(segs[s].data) :
                    segs' = [segs EXCEPT ![s] = Truncated(@, n)]
            /\ Deliver(Apps(Unflushed(s, checkpoint.seg, checkpoint.off)))
            /\ \/ rp' = [rp EXCEPT !.seg = s]
               \/ \E m \in {r.off : r \in Unflushed(s, checkpoint.seg, checkpoint.off)} :
                     rp' = [seg |-> s, last |-> [seg |-> s, off |-> m]]
      BY <1>5 DEF ReplaySegment
    <2>2. s \in DOMAIN segs /\ s \in Nat
      BY DEF ReplayTodo
    <2>3. \A n \in 1..Len(segs[s].data) : Truncated(segs[s], n) \in SegmentFile
      BY <2>2, TruncatedType
    <2>4. segs' \in [DOMAIN segs' -> SegmentFile] /\ DOMAIN segs' \subseteq Nat
      BY <2>1, <2>2, <2>3
    <2>5. buffer' \subseteq Appender /\ parquet' \subseteq Appender
      BY <2>1, <2>2, UnflushedType DEF Deliver
    <2>6. \A r \in Unflushed(s, checkpoint.seg, checkpoint.off) : r.off \in Nat
      BY <2>2, UnflushedType
    <2>7. rp' \in ReplayState
      <3>1. CASE rp' = [rp EXCEPT !.seg = s]
        BY <3>1, <2>2 DEF ReplayState
      <3>2. ASSUME NEW m \in Nat, rp' = [seg |-> s, last |-> [seg |-> s, off |-> m]]
            PROVE  rp' \in ReplayState
        BY <3>2, <2>2 DEF ReplayState, Checkpoint
      <3> QED
        BY <2>1, <2>6, <3>1, <3>2
    <2> QED
      BY <1>5, <2>4, <2>5, <2>7 DEF ReplaySegment
  <1>6. CASE ReplayDone
    BY <1>6 DEF ReplayDone, ReplayCheckpoint, ReplayState
  <1>7. CASE ReplayFails
    <2>1. \A s \in ReplayTodo : \A R \in SUBSET Unflushed(s, checkpoint.seg, checkpoint.off) :
            Apps(R) \subseteq Appender
      BY UnflushedType DEF ReplayTodo, Apps
    <2>2. parquet' \subseteq Appender
      BY <1>7, <2>1 DEF ReplayFails
    <2> QED
      BY <1>7, <2>2 DEF ReplayFails, ProcessDies, HandlerPc
  <1> QED
    BY <1>1, <1>2, <1>3, <1>4, <1>5, <1>6, <1>7 DEF Startup

(* A crash or a power loss keeps the types. *)
LEMMA TypeCrash ==
    ASSUME TypeOK, Crash \/ PowerLoss
    PROVE  TypeOK'
  <1> USE ConstantsAssumption, IdleTypes DEF TypeOK
  <1>1. \A s \in DOMAIN segs : PowerCut(segs[s]) \subseteq SegmentFile
    <2> SUFFICES ASSUME NEW f \in SegmentFile
                 PROVE  PowerCut(f) \subseteq SegmentFile
      OBVIOUS
    <2>1. f.data \in Seq(Chunk) /\ f.synced \in Nat /\ Torn \in Chunk
      BY DEF SegmentFile, Chunk
    <2>2. \A n \in 0..Len(f.data) : SubSeq(f.data, 1, n) \in Seq(Chunk)
      BY <2>1
    <2>3. \A n \in 0..Len(f.data) : Append(SubSeq(f.data, 1, n), Torn) \in Seq(Chunk)
      BY <2>1, <2>2
    <2>4. \A n \in f.synced..Len(f.data) :
            [data |-> SubSeq(f.data, 1, n), synced |-> n] \in SegmentFile
      BY <2>1, <2>2 DEF SegmentFile
    <2>5. \A n \in f.synced..(Len(f.data) - 1) :
            [data |-> Append(SubSeq(f.data, 1, n), Torn), synced |-> n + 1] \in SegmentFile
      BY <2>1, <2>3 DEF SegmentFile
    <2> QED
      BY <2>4, <2>5 DEF PowerCut
  <1>2. segs' \in [DOMAIN segs' -> SegmentFile] /\ DOMAIN segs' \subseteq Nat
    <2>1. CASE Crash
      BY <2>1, SegmentTypes DEF Crash, SegmentWriter, Chunk
    <2>2. CASE PowerLoss
      BY <2>2, <1>1 DEF PowerLoss
    <2> QED
      BY <2>1, <2>2
  <1> QED
    BY <1>2 DEF Crash, PowerLoss, ProcessDies, HandlerPc

(* Every step keeps the types. *)
LEMMA TypeNext == TypeOK /\ [Next]_vars => TypeOK'
  <1> SUFFICES ASSUME TypeOK, [Next]_vars
               PROVE  TypeOK'
    OBVIOUS
  <1>1. CASE UNCHANGED vars
    BY <1>1 DEF TypeOK, vars, tasks, stored, history
  <1>2. CASE BufferFlush
    BY <1>2 DEF BufferFlush, TypeOK, tasks, history
  <1> QED
    BY <1>1, <1>2, TypeHandler, TypeGroupCommit, TypeFlusher, TypeJanitor,
       TypeStartup, TypeCrash DEF Next

(* Type correctness: every reachable state of the write-ahead log is well  *)
(* typed, for all handlers, segment sizes, numbers of crashes and faults.  *)
THEOREM TypeCorrect == Spec => []TypeOK
  BY TypeInit, TypeNext, PTL DEF Spec

(***************************************************************************)
(* What appends, fsyncs, rotations, truncations, deletions and power       *)
(* losses do to the records that can be read back from segment files.      *)
(***************************************************************************)
(* g keeps the readable records of file f, and their being fsynced *)
FileKeeps(f, g) ==
    \A i \in ReadablePos(f.data) :
        /\ i \in ReadablePos(g.data)
        /\ g.data[i] = f.data[i]
        /\ i <= f.synced => i <= g.synced

(* g keeps the fsynced readable records of file f *)
FileKeepsSynced(f, g) ==
    \A i \in ReadablePos(f.data) :
        i <= f.synced =>
            /\ i \in ReadablePos(g.data)
            /\ g.data[i] = f.data[i]
            /\ i <= g.synced

(* No fsync covers more than there is *)
FileSynced(f) == f.synced <= Len(f.data)

(* An fsync changes no record. *)
LEMMA FsyncFile ==
    ASSUME NEW f \in SegmentFile, NEW g,
           g = [f EXCEPT !.synced = Len(f.data)]
    PROVE  /\ FileKeeps(f, g)
           /\ g.data = f.data
           /\ FileSynced(g)
  BY ReadableRecords DEF FileKeeps, FileSynced, SegmentFile

(* An appended chunk changes no earlier record; a torn chunk adds none. *)
LEMMA AppendFile ==
    ASSUME NEW f \in SegmentFile, FileSynced(f), NEW c \in Chunk, NEW g,
           IsExtended(f.data, c, g.data), g.synced = f.synced
    PROVE  /\ FileKeeps(f, g)
           /\ Readable(g.data) \subseteq Readable(f.data) \cup {c}
           /\ c \notin Record => Readable(g.data) \subseteq Readable(f.data)
           /\ FileSynced(g)
           /\ Len(g.data) = Len(f.data) + 1
           /\ (f.data # <<>> /\ c \in Record /\ \A i \in 2..Len(f.data) : f.data[i] \in Record)
                => Len(g.data) \in ReadablePos(g.data) /\ g.data[Len(g.data)] = c
  <1>1. /\ f.data \in Seq(Chunk) /\ f.synced \in Nat /\ g.synced = f.synced
    BY DEF SegmentFile
  <1>2. IsExtended(f.data, c, g.data)
    OBVIOUS
  <1>3. /\ \A i \in ReadablePos(f.data) : i \in ReadablePos(g.data) /\ g.data[i] = f.data[i]
        /\ \A i \in ReadablePos(g.data) :
             \/ i \in ReadablePos(f.data) /\ g.data[i] = f.data[i]
             \/ i = Len(f.data) + 1 /\ g.data[i] = c /\ c \in Record
    BY <1>1, <1>2, ReadableAppend
  <1>4. FileKeeps(f, g)
    BY <1>1, <1>3 DEF FileKeeps
  <1>5. /\ Readable(g.data) \subseteq Readable(f.data) \cup {c}
        /\ c \notin Record => Readable(g.data) \subseteq Readable(f.data)
    BY <1>3 DEF Readable
  <1>6. FileSynced(g) /\ Len(g.data) = Len(f.data) + 1
    BY <1>1, <1>2 DEF FileSynced, IsExtended
  <1>7. ASSUME f.data # <<>>, c \in Record, \A i \in 2..Len(f.data) : f.data[i] \in Record
        PROVE  Len(g.data) \in ReadablePos(g.data) /\ g.data[Len(g.data)] = c
    <2>1. Len(f.data) \in Nat \ {0}
      BY <1>1, <1>7
    <2>2. \A j \in 2..Len(g.data) : g.data[j] \in Record
      BY <1>2, <1>7, <2>1 DEF IsExtended
    <2> QED
      BY <1>2, <2>1, <2>2 DEF ReadablePos, IsExtended
  <1> QED
    BY <1>4, <1>5, <1>6, <1>7

(* Truncation at the first torn chunk keeps every readable record. *)
LEMMA TruncFile ==
    ASSUME NEW f \in SegmentFile, FileSynced(f), NEW n, IsReadablePrefix(f.data, n),
           NEW g, g = Truncated(f, n)
    PROVE  /\ FileKeeps(f, g)
           /\ Readable(g.data) \subseteq Readable(f.data)
           /\ FileSynced(g)
           /\ g.data # <<>>
           /\ Len(g.data) = n
  <1>1. f.data \in Seq(Chunk) /\ f.synced \in Nat /\ n \in 1..Len(f.data)
    BY DEF SegmentFile, IsReadablePrefix
  <1>2. CASE n = Len(f.data)
    <2>1. g = f
      BY <1>2 DEF Truncated
    <2> QED
      BY <1>1, <1>2, <2>1 DEF FileKeeps
  <1>3. CASE n # Len(f.data)
    <2>1. g.data = SubSeq(f.data, 1, n) /\ g.synced = n
      BY <1>3 DEF Truncated
    <2>2. \A i \in ReadablePos(f.data) : i <= n
      BY <1>1, <1>3 DEF ReadablePos, IsReadablePrefix
    <2>3. n \in 0..Len(f.data)
      BY <1>1
    <2>4. IsCut(f.data, n, g.data)
      BY <1>1, <2>1, <2>3, SubSeqCut
    <2>5. /\ \A i \in ReadablePos(f.data) :
                i <= n => i \in ReadablePos(g.data) /\ g.data[i] = f.data[i]
          /\ \A i \in ReadablePos(g.data) :
                i \in ReadablePos(f.data) /\ g.data[i] = f.data[i]
      BY <1>1, <2>3, <2>4, ReadableCut
    <2>6. FileKeeps(f, g)
      BY <2>1, <2>2, <2>5 DEF FileKeeps
    <2>7. Readable(g.data) \subseteq Readable(f.data)
      BY <2>5 DEF Readable
    <2>8. Len(g.data) = n /\ g.data # <<>> /\ FileSynced(g)
      BY <1>1, <2>1, <2>4 DEF FileSynced, IsCut
    <2> QED
      BY <2>6, <2>7, <2>8
  <1> QED
    BY <1>2, <1>3

(* A power loss keeps the fsynced records and adds none. *)
LEMMA PowerFile ==
    ASSUME NEW f \in SegmentFile, FileSynced(f), NEW g \in PowerCut(f)
    PROVE  /\ FileKeepsSynced(f, g)
           /\ Readable(g.data) \subseteq Readable(f.data)
           /\ FileSynced(g)
  <1>1. f.data \in Seq(Chunk) /\ f.synced \in Nat /\ Torn \in Chunk /\ Torn \notin Record
    BY ConstantsAssumption DEF SegmentFile, Chunk
  <1>2. \A i \in ReadablePos(f.data) : i \in Nat
    BY <1>1, ReadableRecords
  <1>3. ASSUME NEW n \in f.synced..Len(f.data), NEW h, h = SubSeq(f.data, 1, n)
        PROVE  /\ n \in 0..Len(f.data) /\ n \in Nat
               /\ IsCut(f.data, n, h)
               /\ \A i \in ReadablePos(f.data) : i <= n => i \in ReadablePos(h) /\ h[i] = f.data[i]
               /\ \A i \in ReadablePos(h) : i \in ReadablePos(f.data) /\ h[i] = f.data[i]
    <2>1. n \in 0..Len(f.data) /\ n \in Nat
      BY <1>1
    <2>2. IsCut(f.data, n, h)
      BY <1>1, <1>3, <2>1, SubSeqCut
    <2> QED
      BY <1>1, <2>1, <2>2, ReadableCut
  <1>4. ASSUME NEW n \in f.synced..Len(f.data), g.data = SubSeq(f.data, 1, n), g.synced = n
        PROVE  /\ FileKeepsSynced(f, g)
               /\ Readable(g.data) \subseteq Readable(f.data)
               /\ FileSynced(g)
    <2>1. /\ n \in 0..Len(f.data) /\ n \in Nat
          /\ IsCut(f.data, n, g.data)
          /\ \A i \in ReadablePos(f.data) :
                i <= n => i \in ReadablePos(g.data) /\ g.data[i] = f.data[i]
          /\ \A i \in ReadablePos(g.data) :
                i \in ReadablePos(f.data) /\ g.data[i] = f.data[i]
      BY <1>3, <1>4
    <2>2. \A i \in ReadablePos(f.data) : i <= f.synced => i <= n
      BY <1>1, <1>2
    <2>3. FileKeepsSynced(f, g)
      BY <1>4, <2>1, <2>2 DEF FileKeepsSynced
    <2>4. Readable(g.data) \subseteq Readable(f.data)
      BY <2>1 DEF Readable
    <2> QED
      BY <1>4, <2>1, <2>3, <2>4 DEF FileSynced, IsCut
  <1>5. ASSUME NEW n \in f.synced..(Len(f.data) - 1), NEW h, h = SubSeq(f.data, 1, n),
               g.data = Append(h, Torn), g.synced = n + 1
        PROVE  /\ FileKeepsSynced(f, g)
               /\ Readable(g.data) \subseteq Readable(f.data)
               /\ FileSynced(g)
    <2>1. /\ n \in Nat
          /\ IsCut(f.data, n, h)
          /\ \A i \in ReadablePos(f.data) : i <= n => i \in ReadablePos(h) /\ h[i] = f.data[i]
          /\ \A i \in ReadablePos(h) : i \in ReadablePos(f.data) /\ h[i] = f.data[i]
      <3>1. n \in f.synced..Len(f.data)
        BY <1>1
      <3> QED
        BY <1>3, <1>5, <3>1
    <2>2. h \in Seq(Chunk) /\ Len(h) = n
      BY <2>1 DEF IsCut
    <2>3. IsExtended(h, Torn, g.data)
      BY <1>1, <1>5, <2>2, AppendExtended
    <2>4. /\ \A i \in ReadablePos(h) : i \in ReadablePos(g.data) /\ g.data[i] = h[i]
          /\ \A i \in ReadablePos(g.data) : i \in ReadablePos(h) /\ g.data[i] = h[i]
      BY <1>1, <2>2, <2>3, ReadableAppend
    <2>5. \A i \in ReadablePos(f.data) : i <= f.synced => i <= n /\ i <= n + 1
      BY <1>1, <1>2
    <2>6. FileKeepsSynced(f, g)
      BY <1>5, <2>1, <2>4, <2>5 DEF FileKeepsSynced
    <2>7. Readable(g.data) \subseteq Readable(f.data)
      BY <2>1, <2>4 DEF Readable
    <2>8. FileSynced(g)
      BY <1>5, <2>2, <2>3 DEF FileSynced, IsExtended
    <2> QED
      BY <2>6, <2>7, <2>8
  <1>6. \/ \E n \in f.synced..Len(f.data) : g.data = SubSeq(f.data, 1, n) /\ g.synced = n
        \/ \E n \in f.synced..(Len(f.data) - 1) :
              g.data = Append(SubSeq(f.data, 1, n), Torn) /\ g.synced = n + 1
    BY DEF PowerCut
  <1> QED
    BY <1>4, <1>5, <1>6

----------------------------------------------------------------------------
(* What the steps that change files do to the directory *)

(* Every record that can be read can still be read, at its place *)
SegsKept ==
    \A s \in DOMAIN segs : s \in DOMAIN segs' /\ FileKeeps(segs[s], segs'[s])

(* Every record that can be read could be read before *)
SegsNoNew ==
    \A s \in DOMAIN segs' : \A r \in Readable(segs'[s].data) :
        s \in DOMAIN segs /\ r \in Readable(segs[s].data)

(* A file with a header and nothing else has no record. *)
LEMMA ShortFile ==
    ASSUME NEW q \in Seq(Chunk), Len(q) <= 1
    PROVE  ReadablePos(q) = {} /\ Readable(q) = {}
  BY DEF ReadablePos, Readable

(* What TypeOK and SyncedInv say of one segment. *)
LEMMA SegType ==
    ASSUME TypeOK, SyncedInv, NEW s \in DOMAIN segs
    PROVE  /\ s \in Nat
           /\ segs[s] \in SegmentFile
           /\ segs[s].data \in Seq(Chunk)
           /\ segs[s].synced \in Nat
           /\ FileSynced(segs[s])
  BY DEF TypeOK, SyncedInv, SegmentFile, FileSynced

(* A file keeps its own records. *)
LEMMA SameFile ==
    ASSUME NEW f
    PROVE  FileKeeps(f, f)
  BY DEF FileKeeps

(* A step that leaves the files alone. *)
LEMMA SegsUnchanged ==
    ASSUME segs' = segs
    PROVE  SegsKept /\ SegsNoNew /\ (SyncedInv => SyncedInv')
  BY SameFile DEF SegsKept, SegsNoNew, SyncedInv

(* A rotation fsyncs the active segment and creates, or truncates, the     *)
(* next file, which holds no record.                                       *)
LEMMA SegsRotate ==
    ASSUME IInv, NEW a \in Appender, SealSegment(a) \/ WriteHeader(a)
    PROVE  /\ SegsKept
           /\ SegsNoNew
           /\ SyncedInv'
           /\ DOMAIN segs' = DOMAIN segs \cup {writer.id + 1}
           /\ \A s \in DOMAIN segs : s # writer.id + 1 => segs'[s].data = segs[s].data
           /\ Len(segs'[writer.id + 1].data) <= 1
           /\ WriteHeader(a) => segs'[writer.id + 1].data # <<>>
  <1>1. status = "up" /\ writer.id \in DOMAIN segs /\ writer.id \in Nat
    BY DEF IInv, StatusInv, WriterInv, CanOpen, SealSegment, WriteHeader, TypeOK, SegmentWriter
  <1>2. writer.id + 1 \in DOMAIN segs => Len(segs[writer.id + 1].data) <= 1
    BY <1>1 DEF IInv, WriterInv
  <1>3. DOMAIN segs' = DOMAIN segs \cup {writer.id + 1}
    BY DEF SealSegment, WriteHeader, Created
  <1>4. /\ segs'[writer.id + 1].data \in {<<>>, <<Header>>}
        /\ segs'[writer.id + 1].synced = 0
        /\ WriteHeader(a) => segs'[writer.id + 1].data # <<>>
    BY DEF SealSegment, WriteHeader, Created
  <1>5. /\ segs'[writer.id + 1].data \in Seq(Chunk)
        /\ Len(segs'[writer.id + 1].data) <= 1
        /\ 0 <= Len(segs'[writer.id + 1].data)
    <2>1. /\ <<>> \in Seq(Chunk) /\ Len(<<>>) = 0
          /\ <<Header>> \in Seq(Chunk) /\ Len(<<Header>>) = 1
      BY DEF Chunk
    <2>2. CASE segs'[writer.id + 1].data = <<>>
      BY <2>1, <2>2
    <2>3. CASE segs'[writer.id + 1].data = <<Header>>
      BY <2>1, <2>3
    <2> QED
      BY <1>4, <2>2, <2>3
  <1>6. \A s \in DOMAIN segs : s # writer.id + 1 =>
            \/ segs'[s] = segs[s]
            \/ segs'[s] = [segs[s] EXCEPT !.synced = Len(segs[s].data)]
    BY <1>1 DEF SealSegment, WriteHeader, Created, Fsynced, IInv, TypeOK
  <1>7. ASSUME NEW s \in DOMAIN segs, s # writer.id + 1
        PROVE  /\ FileKeeps(segs[s], segs'[s])
               /\ segs'[s].data = segs[s].data
               /\ FileSynced(segs'[s])
    BY <1>6, <1>7, FsyncFile, SameFile, SegType DEF IInv
  <1>8. writer.id + 1 \in DOMAIN segs =>
          /\ ReadablePos(segs[writer.id + 1].data) = {}
          /\ FileKeeps(segs[writer.id + 1], segs'[writer.id + 1])
    <2> SUFFICES ASSUME writer.id + 1 \in DOMAIN segs
                 PROVE  /\ ReadablePos(segs[writer.id + 1].data) = {}
                        /\ FileKeeps(segs[writer.id + 1], segs'[writer.id + 1])
      OBVIOUS
    <2>1. segs[writer.id + 1].data \in Seq(Chunk)
      BY SegType DEF IInv
    <2>2. ReadablePos(segs[writer.id + 1].data) = {}
      BY <1>2, <2>1, ShortFile
    <2> QED
      BY <2>2 DEF FileKeeps
  <1>9. Readable(segs'[writer.id + 1].data) = {}
    BY <1>5, ShortFile
  <1>10. SegsKept
    BY <1>3, <1>7, <1>8 DEF SegsKept
  <1>11. SegsNoNew
    BY <1>3, <1>7, <1>9 DEF SegsNoNew
  <1>12. SyncedInv'
    <2>1. segs'[writer.id + 1].synced <= Len(segs'[writer.id + 1].data)
      BY <1>4, <1>5
    <2>2. \A s \in DOMAIN segs : s # writer.id + 1 => segs'[s].synced <= Len(segs'[s].data)
      BY <1>7 DEF FileSynced
    <2> QED
      BY <1>3, <2>1, <2>2 DEF SyncedInv
  <1> QED
    BY <1>3, <1>4, <1>5, <1>7, <1>10, <1>11, <1>12

(* An append to the active segment. *)
LEMMA SegsAppend ==
    ASSUME IInv, status = "up", NEW c \in Chunk, segs' = Appended(writer.id, c)
    PROVE  /\ SegsKept
           /\ c \notin Record => SegsNoNew
           /\ SyncedInv'
           /\ DOMAIN segs' = DOMAIN segs
           /\ \A s \in DOMAIN segs : s # writer.id => segs'[s] = segs[s]
           /\ segs[writer.id].data # <<>> /\ segs'[writer.id].data # <<>>
           /\ Readable(segs'[writer.id].data) \subseteq Readable(segs[writer.id].data) \cup {c}
           /\ (c \in Record /\ \A i \in 2..Len(segs[writer.id].data) : segs[writer.id].data[i] \in Record)
                => \E i \in ReadablePos(segs'[writer.id].data) : segs'[writer.id].data[i] = c
  <1> DEFINE w == writer.id
  <1>1. w \in DOMAIN segs /\ segs[w].data # <<>>
    BY DEF IInv, WriterInv, CanOpen
  <1>2. segs[w] \in SegmentFile /\ segs[w].data \in Seq(Chunk) /\ FileSynced(segs[w])
    BY <1>1, SegType DEF IInv
  <1>3. /\ DOMAIN segs' = DOMAIN segs
        /\ \A s \in DOMAIN segs : s # w => segs'[s] = segs[s]
        /\ segs'[w] = [segs[w] EXCEPT !.data = Append(segs[w].data, c)]
    BY <1>1 DEF Appended, IInv, TypeOK
  <1>4. IsExtended(segs[w].data, c, segs'[w].data) /\ segs'[w].synced = segs[w].synced
    <2>1. segs'[w].data = Append(segs[w].data, c) /\ segs'[w].synced = segs[w].synced
      BY <1>2, <1>3 DEF SegmentFile
    <2> QED
      BY <1>2, <2>1, AppendExtended
  <1>5. /\ FileKeeps(segs[w], segs'[w])
        /\ Readable(segs'[w].data) \subseteq Readable(segs[w].data) \cup {c}
        /\ c \notin Record => Readable(segs'[w].data) \subseteq Readable(segs[w].data)
        /\ FileSynced(segs'[w])
        /\ Len(segs'[w].data) = Len(segs[w].data) + 1
        /\ (segs[w].data # <<>> /\ c \in Record
              /\ \A i \in 2..Len(segs[w].data) : segs[w].data[i] \in Record)
             => /\ Len(segs'[w].data) \in ReadablePos(segs'[w].data)
                /\ segs'[w].data[Len(segs'[w].data)] = c
    BY <1>2, <1>4, AppendFile
  <1>6. segs'[w].data # <<>>
    BY <1>2, <1>5
  <1> HIDE DEF w
  <1>7. SegsKept
    BY <1>1, <1>3, <1>5, SameFile DEF SegsKept
  <1>8. c \notin Record => SegsNoNew
    BY <1>1, <1>3, <1>5 DEF SegsNoNew
  <1>9. \A s \in DOMAIN segs : s # w => segs'[s].synced <= Len(segs'[s].data)
    BY <1>3 DEF IInv, SyncedInv
  <1>10. SyncedInv'
    BY <1>3, <1>5, <1>9 DEF SyncedInv, FileSynced
  <1> QED
    BY <1>1, <1>3, <1>5, <1>6, <1>7, <1>8, <1>10 DEF w

(* The group commit's fsync. *)
LEMMA SegsFsync ==
    ASSUME IInv, NEW id \in DOMAIN segs, segs' = Fsynced(id)
    PROVE  /\ SegsKept
           /\ SegsNoNew
           /\ SyncedInv'
           /\ DOMAIN segs' = DOMAIN segs
           /\ \A s \in DOMAIN segs : segs'[s].data = segs[s].data
  <1>1. /\ DOMAIN segs' = DOMAIN segs
        /\ \A s \in DOMAIN segs :
            \/ segs'[s] = segs[s]
            \/ segs'[s] = [segs[s] EXCEPT !.synced = Len(segs[s].data)]
    BY DEF Fsynced, IInv, TypeOK
  <1>2. ASSUME NEW s \in DOMAIN segs
        PROVE  /\ FileKeeps(segs[s], segs'[s])
               /\ segs'[s].data = segs[s].data
               /\ FileSynced(segs'[s])
    BY <1>1, FsyncFile, SameFile, SegType DEF IInv
  <1>3. SegsKept /\ SegsNoNew
    BY <1>1, <1>2 DEF SegsKept, SegsNoNew
  <1>4. SyncedInv'
    BY <1>1, <1>2 DEF SyncedInv, FileSynced
  <1> QED
    BY <1>1, <1>2, <1>3, <1>4

(* The janitor's remove_file. *)
LEMMA SegsDelete ==
    ASSUME IInv, NEW d, segs' = [s \in DOMAIN segs \ {d} |-> segs[s]]
    PROVE  /\ DOMAIN segs' = DOMAIN segs \ {d}
           /\ \A s \in DOMAIN segs : s # d => segs'[s] = segs[s]
           /\ SegsNoNew
           /\ SyncedInv'
  <1>1. /\ DOMAIN segs' = DOMAIN segs \ {d}
        /\ \A s \in DOMAIN segs : s # d => segs'[s] = segs[s]
    OBVIOUS
  <1>2. SegsNoNew
    BY <1>1 DEF SegsNoNew
  <1>3. SyncedInv'
    BY <1>1 DEF IInv, SyncedInv
  <1> QED
    BY <1>1, <1>2, <1>3

(* A power loss, for every segment. *)
LEMMA SegsPower ==
    ASSUME IInv, PowerLoss
    PROVE  /\ DOMAIN segs' = DOMAIN segs
           /\ \A s \in DOMAIN segs : FileKeepsSynced(segs[s], segs'[s])
           /\ SegsNoNew
           /\ SyncedInv'
  <1>1. /\ DOMAIN segs' = DOMAIN segs
        /\ \A s \in DOMAIN segs : segs'[s] \in PowerCut(segs[s])
    BY DEF PowerLoss
  <1>2. ASSUME NEW s \in DOMAIN segs
        PROVE  /\ FileKeepsSynced(segs[s], segs'[s])
               /\ Readable(segs'[s].data) \subseteq Readable(segs[s].data)
               /\ FileSynced(segs'[s])
    BY <1>1, PowerFile, SegType DEF IInv
  <1>3. SegsNoNew
    BY <1>1, <1>2 DEF SegsNoNew
  <1>4. SyncedInv'
    BY <1>1, <1>2 DEF SyncedInv, FileSynced
  <1> QED
    BY <1>1, <1>2, <1>3, <1>4

(* Cutting the torn tail of segment l, and perhaps creating another one. *)
LEMMA SegsTruncate ==
    ASSUME IInv, NEW l \in DOMAIN segs, NEW n, IsReadablePrefix(segs[l].data, n),
           DOMAIN segs \subseteq DOMAIN segs',
           segs'[l] = Truncated(segs[l], n),
           \A s \in DOMAIN segs : s # l => segs'[s] = segs[s],
           \A s \in DOMAIN segs' : s \in DOMAIN segs \/ segs'[s] = [data |-> <<Header>>, synced |-> 0]
    PROVE  /\ SegsKept
           /\ SegsNoNew
           /\ SyncedInv'
           /\ segs'[l].data # <<>>
           /\ \A s \in DOMAIN segs' : s \in DOMAIN segs \/ segs'[s].data # <<>>
  <1>1. /\ FileKeeps(segs[l], segs'[l])
        /\ Readable(segs'[l].data) \subseteq Readable(segs[l].data)
        /\ FileSynced(segs'[l])
        /\ segs'[l].data # <<>>
    BY TruncFile, SegType DEF IInv
  <1>2. ASSUME NEW s \in DOMAIN segs, s # l
        PROVE  /\ FileKeeps(segs[s], segs'[s])
               /\ Readable(segs'[s].data) \subseteq Readable(segs[s].data)
               /\ FileSynced(segs'[s])
    BY <1>2, SameFile, SegType DEF IInv
  <1>3. ASSUME NEW s \in DOMAIN segs', s \notin DOMAIN segs
        PROVE  /\ Readable(segs'[s].data) = {}
               /\ FileSynced(segs'[s])
               /\ segs'[s].data # <<>>
    <2>1. segs'[s].data = <<Header>> /\ segs'[s].synced = 0
      BY <1>3
    <2>2. <<Header>> \in Seq(Chunk) /\ Len(<<Header>>) = 1 /\ <<Header>> # <<>>
      BY DEF Chunk
    <2>3. segs'[s].data \in Seq(Chunk) /\ Len(segs'[s].data) <= 1
      BY <2>1, <2>2
    <2>4. Readable(segs'[s].data) = {}
      BY <2>3, ShortFile
    <2> QED
      BY <2>1, <2>2, <2>4 DEF FileSynced
  <1>4. SegsKept
    BY <1>1, <1>2 DEF SegsKept
  <1>5. SegsNoNew
    BY <1>1, <1>2, <1>3 DEF SegsNoNew
  <1>6. SyncedInv'
    BY <1>1, <1>2, <1>3 DEF SyncedInv, FileSynced
  <1> QED
    BY <1>1, <1>3, <1>4, <1>5, <1>6

(***************************************************************************)
(* The invariant of WalInv is inductive when the sink writes to Parquet    *)
(* directly, and what it implies.                                          *)
(***************************************************************************)
(* Nothing that can be read is lost, except before the checkpoint *)
KeptFromCheckpoint ==
    \A s \in DOMAIN segs : checkpoint.seg <= s =>
        s \in DOMAIN segs' /\ FileKeeps(segs[s], segs'[s])

(* A record that can be read could be read before, or is shadowed, or      *)
(* follows, in the active segment, all that could be read and the          *)
(* checkpoint.                                                             *)
NewAreBeyond ==
    \A s \in DOMAIN segs' : \A r \in Readable(segs'[s].data) :
        \/ s \in DOMAIN segs /\ r \in Readable(segs[s].data)
        \/ r.app \in shadowed'
        \/ /\ status = "up"
           /\ s = writer.id
           /\ \A q \in Readable(segs[s].data) : q.off < r.off
           /\ checkpoint.seg = s => checkpoint.off < r.off

StoresGrow ==
    /\ parquet \subseteq parquet'
    /\ shadowed \subseteq shadowed'
    /\ early_ack \subseteq early_ack'

LEMMA KeptIsFrom == SegsKept => KeptFromCheckpoint
  BY DEF SegsKept, KeptFromCheckpoint

LEMMA NoNewIsBeyond == SegsNoNew => NewAreBeyond
  BY DEF SegsNoNew, NewAreBeyond

(* Readable records have an offset and a handler. *)
LEMMA RecordTypes ==
    ASSUME TypeOK, NEW s \in DOMAIN segs
    PROVE  \A r \in Readable(segs[s].data) : r.off \in Nat /\ r.app \in Appender
  <1>1. segs[s].data \in Seq(Chunk)
    BY DEF TypeOK, SegmentFile
  <1>2. Readable(segs[s].data) \subseteq Record
    BY <1>1, ReadableRecords
  <1> QED
    BY <1>2 DEF Record

(* What a file keeps can still be read. *)
LEMMA KeptReadable ==
    ASSUME NEW f, NEW g, FileKeeps(f, g)
    PROVE  Readable(f.data) \subseteq Readable(g.data)
  BY DEF FileKeeps, Readable

(* The parts of TypeOK that order segments and offsets. *)
LEMMA OrderTypes ==
    ASSUME TypeOK
    PROVE  /\ DOMAIN segs \subseteq Nat
           /\ checkpoint.seg \in Nat /\ checkpoint.off \in Nat \cup {-1}
           /\ writer.id \in Nat
           /\ fl.start \in Nat /\ fl.flushed \in Nat \cup {-1}
           /\ fl.list \subseteq Nat /\ fl.active \in Nat
           /\ fl.seg \in Nat \cup {-1} /\ fl.max \in Nat \cup {-1}
           /\ fl.batch \subseteq Record
           /\ rp.seg \in Nat \cup {-1}
           /\ rp.last.seg \in Nat /\ rp.last.off \in Nat \cup {-1}
           /\ jan.bound \in Nat /\ jan.todo \subseteq Nat
  BY DEF TypeOK, Checkpoint, SegmentWriter, FlusherState, ReplayState, JanitorState

(* While the checkpoint stays, what it covers stays delivered: new records *)
(* are never behind it.                                                    *)
LEMMA CoveredFrame ==
    ASSUME IInv, TypeOK', checkpoint' = checkpoint, StoresGrow, NewAreBeyond
    PROVE  CoveredInv'
  <1>1. ASSUME NEW s \in DOMAIN segs', NEW r \in Readable(segs'[s].data),
               s < checkpoint.seg \/ (s = checkpoint.seg /\ r.off <= checkpoint.off)
        PROVE  r.app \in shadowed' \/ r.app \in parquet'
    <2>1. /\ s \in Nat /\ checkpoint.seg \in Nat /\ checkpoint.off \in Nat \cup {-1}
          /\ writer.id \in Nat
      BY OrderTypes DEF IInv, TypeOK
    <2>2. r.off \in Nat
      <3>1. segs'[s].data \in Seq(Chunk)
        BY DEF TypeOK, SegmentFile
      <3> QED
        BY <3>1, ReadableRecords DEF Record
    <2>3. CASE s \in DOMAIN segs /\ r \in Readable(segs[s].data)
      BY <1>1, <2>3 DEF IInv, CoveredInv, Delivered, AllOf, UpTo, StoresGrow
    <2>4. CASE /\ status = "up"
               /\ s = writer.id
               /\ checkpoint.seg = s => checkpoint.off < r.off
      BY <1>1, <2>1, <2>2, <2>4 DEF IInv, WriterInv
    <2> QED
      BY <2>3, <2>4 DEF NewAreBeyond
  <1>2. ASSUME NEW s \in DOMAIN segs', s < checkpoint.seg
        PROVE  Delivered(AllOf(s))'
    BY <1>1, <1>2 DEF Delivered, AllOf
  <1>3. ASSUME NEW s \in DOMAIN segs', s = checkpoint.seg
        PROVE  Delivered(UpTo(s, checkpoint.off))'
    BY <1>1, <1>3 DEF Delivered, UpTo
  <1> QED
    BY <1>2, <1>3 DEF CoveredInv


(* A step of another task of the running server does not disturb the       *)
(* flusher's pass.                                                         *)
LEMMA FlusherFrame ==
    ASSUME IInv, TypeOK', fl' = fl, checkpoint' = checkpoint, status' = status,
           StoresGrow, NewAreBeyond, KeptFromCheckpoint,
           DOMAIN segs' \subseteq DOMAIN segs \cup {writer.id + 1},
           writer'.id \in {writer.id, writer.id + 1}
    PROVE  FlusherInv'
  <1> SUFFICES ASSUME fl.pc # "idle"
               PROVE  /\ status' = "up"
                      /\ PassStart' /\ PassList' /\ PassDone' /\ PassActive'
                      /\ fl.pc \in {"flush", "save"} => PassSegment'
    BY DEF FlusherInv
  <1>0. /\ status = "up" /\ checkpoint.seg <= writer.id
        /\ PassStart /\ PassList /\ PassDone /\ PassActive
        /\ fl.pc \in {"flush", "save"} => PassSegment
    BY DEF IInv, FlusherInv, WriterInv
  <1>t. /\ DOMAIN segs \subseteq Nat
        /\ checkpoint.seg \in Nat /\ checkpoint.off \in Nat \cup {-1}
        /\ writer.id \in Nat
        /\ fl.start \in Nat /\ fl.flushed \in Nat \cup {-1}
        /\ fl.list \subseteq Nat /\ fl.active \in Nat
        /\ fl.seg \in Nat \cup {-1} /\ fl.max \in Nat \cup {-1}
        /\ fl.pc \in {"idle", "active", "read", "flush", "save"}
    BY OrderTypes DEF IInv, TypeOK, FlusherState
  <1>r. ASSUME NEW s \in DOMAIN segs', NEW r \in Readable(segs'[s].data)
        PROVE  r.off \in Nat
    <2>1. segs'[s].data \in Seq(Chunk)
      BY DEF TypeOK, SegmentFile
    <2> QED
      BY <2>1, ReadableRecords DEF Record
  <1>1. PassStart'
    BY <1>0 DEF PassStart
  <1>2. PassList'
    <2>1. \A s \in fl.list : s <= writer'.id + 1
      BY <1>0, <1>t DEF PassList
    <2>2. \A t \in DOMAIN segs' \ fl.list : \A u \in fl.list : u < t
      BY <1>0, <1>t DEF PassList
    <2>3. \A s \in fl.list : fl.start <= s /\ fl.seg < s => s \in DOMAIN segs'
      BY <1>0, <1>t DEF PassList, PassStart, KeptFromCheckpoint
    <2> QED
      BY <2>1, <2>2, <2>3 DEF PassList
  <1>3. PassActive'
    <2>1. fl.pc = "active" =>
            /\ fl.seg = -1
            /\ writer'.id \in fl.list \/ \A s \in fl.list : s <= writer'.id
      BY <1>0, <1>t DEF PassActive, PassList
    <2>2. fl.active <= writer.id => fl.active <= writer'.id
      BY <1>t
    <2> QED
      BY <1>0, <2>1, <2>2 DEF PassActive
  <1>4. PassDone'
    <2>1. fl.seg < writer.id \/ (fl.seg = writer.id /\ fl.pc # "read")
      BY <1>0, <1>t DEF PassActive, PassSegment
    <2>2. ASSUME NEW s \in DOMAIN segs', NEW r \in Readable(segs'[s].data),
                 FlushDone(s) \/ (s = fl.start /\ r.off <= fl.flushed)
          PROVE  r.app \in shadowed' \/ r.app \in parquet'
      <3>1. CASE s \in DOMAIN segs /\ r \in Readable(segs[s].data)
        <4>1. r.app \in shadowed \/ r.app \in parquet
          BY <1>0, <2>2, <3>1 DEF PassDone, Delivered, AllOf, UpTo
        <4> QED
          BY <4>1 DEF StoresGrow
      <3>2. CASE s = writer.id /\ (checkpoint.seg = s => checkpoint.off < r.off)
        <4>1. r.off \in Nat
          BY <1>r
        <4>2. ~FlushDone(s)
          BY <1>0, <1>t, <2>1, <3>2 DEF FlushDone, PassStart
        <4>3. ~(s = fl.start /\ r.off <= fl.flushed)
          BY <1>0, <1>t, <3>2, <4>1 DEF PassStart
        <4> QED
          BY <2>2, <4>2, <4>3
      <3> QED
        BY <3>1, <3>2 DEF NewAreBeyond
    <2>3. fl.start \in DOMAIN segs' => Delivered(UpTo(fl.start, fl.flushed))'
      BY <2>2 DEF Delivered, UpTo
    <2>4. ASSUME NEW s \in DOMAIN segs', FlushDone(s)
          PROVE  Delivered(AllOf(s))'
      BY <2>2, <2>4 DEF Delivered, AllOf
    <2> QED
      BY <2>3, <2>4 DEF PassDone, FlushDone
  <1>5. ASSUME fl.pc \in {"flush", "save"}
        PROVE  PassSegment'
    <2>0. PassSegment /\ checkpoint.seg <= fl.seg
      BY <1>0, <1>5, <1>t DEF PassSegment
    <2>1. fl.seg \in DOMAIN segs' /\ FileKeeps(segs[fl.seg], segs'[fl.seg])
      BY <2>0 DEF PassSegment, KeptFromCheckpoint
    <2>2. \E r \in Readable(segs'[fl.seg].data) : r.off = fl.max
      BY <2>0, <2>1, KeptReadable DEF PassSegment
    <2>3. ASSUME NEW r \in Readable(segs'[fl.seg].data)
          PROVE  \/ fl.seg = fl.active /\ r.off > fl.max
                 \/ r.app \in shadowed'
                 \/ r.app \in parquet'
                 \/ fl.pc = "flush" /\ r \in fl.batch
      <3>1. CASE r \in Readable(segs[fl.seg].data)
        BY <2>0, <3>1 DEF PassSegment, StoresGrow
      <3>2. CASE fl.seg = writer.id /\ \A q \in Readable(segs[fl.seg].data) : q.off < r.off
        <4>1. r.off \in Nat
          BY <1>r, <2>1
        <4>2. fl.seg = fl.active
          BY <1>0, <1>5, <1>t, <2>0, <3>2 DEF PassActive, PassSegment
        <4>3. r.off > fl.max
          BY <1>t, <2>0, <3>2, <4>1 DEF PassSegment
        <4> QED
          BY <4>2, <4>3
      <3> QED
        BY <2>1, <3>1, <3>2 DEF NewAreBeyond
    <2> QED
      BY <2>0, <2>1, <2>2, <2>3 DEF PassSegment
  <1> QED
    BY <1>0, <1>1, <1>2, <1>3, <1>4, <1>5

(* A record stays stored while its handler does not proceed to "acked". *)
LEMMA StoredFrame ==
    ASSUME IInv, StoresGrow, KeptFromCheckpoint,
           NEW a \in Appender,
           pc'[a] \in {"register", "wait", "acked"}, a \notin shadowed',
           pc[a] \in {"register", "wait", "acked"},
           (pc'[a] = "acked") <=> (pc[a] = "acked"),
           off'[a] = off[a]
    PROVE  Stored(a)'
  <1>1. a \notin shadowed
    BY DEF StoresGrow
  <1>2. CASE a \in parquet
    BY <1>2 DEF StoresGrow, Stored
  <1>3. CASE pc[a] = "acked" /\ a \in early_ack
    BY <1>3 DEF StoresGrow, Stored
  <1>4. CASE \E s \in DOMAIN segs : \E i \in ReadablePos(segs[s].data) :
                /\ segs[s].data[i] = RecordOf(a)
                /\ pc[a] = "acked" => i <= segs[s].synced
    <2>1. PICK s \in DOMAIN segs : \E i \in ReadablePos(segs[s].data) :
                /\ segs[s].data[i] = RecordOf(a)
                /\ pc[a] = "acked" => i <= segs[s].synced
      BY <1>4
    <2>2. PICK i \in ReadablePos(segs[s].data) :
                /\ segs[s].data[i] = RecordOf(a)
                /\ pc[a] = "acked" => i <= segs[s].synced
      BY <2>1
    <2>3. s \in Nat /\ checkpoint.seg \in Nat
      BY OrderTypes DEF IInv
    <2>4. CASE s < checkpoint.seg
      <3>1. RecordOf(a) \in Readable(segs[s].data) /\ RecordOf(a).app = a
        BY <2>2 DEF Readable, RecordOf
      <3>2. a \in shadowed \/ a \in parquet
        BY <2>4, <3>1 DEF IInv, CoveredInv, Delivered, AllOf
      <3> QED
        BY <1>1, <1>2, <3>2
    <2>5. CASE checkpoint.seg <= s
      <3>1. s \in DOMAIN segs' /\ FileKeeps(segs[s], segs'[s])
        BY <2>5 DEF KeptFromCheckpoint
      <3>2. /\ i \in ReadablePos(segs'[s].data)
            /\ segs'[s].data[i] = segs[s].data[i]
            /\ i <= segs[s].synced => i <= segs'[s].synced
        BY <3>1 DEF FileKeeps
      <3>3. RecordOf(a)' = RecordOf(a)
        BY DEF RecordOf
      <3>4. /\ segs'[s].data[i] = RecordOf(a)'
            /\ pc'[a] = "acked" => i <= segs'[s].synced
        BY <2>2, <3>2, <3>3
      <3> QED
        BY <3>1, <3>2, <3>4 DEF Stored
    <2> QED
      BY <2>3, <2>4, <2>5
  <1> QED
    BY <1>1, <1>2, <1>3, <1>4 DEF IInv, StoredInv, Stored

(* Steps that move only handlers, the lock, the queue or the link. *)
LEMMA WriterFrame ==
    ASSUME IInv, segs' = segs, writer' = writer, status' = status,
           checkpoint' = checkpoint,
           \A a \in Appender : pc'[a] \in {"unlink", "link"} => pc[a] \in {"unlink", "link"}
    PROVE  WriterInv'
  BY DEF IInv, WriterInv, CanOpen

(* The checkpoint's segment survives. *)
LEMMA CheckpointFrame ==
    ASSUME IInv, KeptFromCheckpoint, checkpoint' = checkpoint
    PROVE  CheckpointInv'
  BY OrderTypes DEF IInv, CheckpointInv, KeptFromCheckpoint

----------------------------------------------------------------------------
(* Handlers *)

(* A handler in the middle of append belongs to a running server, and      *)
(* changes only files, the link, the writer, the lock and its own state.   *)
LEMMA HandlerFrame ==
    ASSUME IInv, NEW a \in Appender, FetchOffset(a) \/ Handler(a)
    PROVE  /\ status = "up" /\ status' = "up"
           /\ UNCHANGED <<checkpoint, gc, fl, jan, rp, buffer, parquet, early_ack>>
           /\ shadowed \subseteq shadowed'
           /\ \A b \in Appender : b # a => pc'[b] = pc[b] /\ off'[b] = off[b]
           /\ pc[a] # "idle" => off' = off
  <1>1. status = "up"
    BY DEF IInv, StatusInv, FetchOffset, Handler, LockWriter, SealSegment,
           WriteHeader, RemoveLink, CreateLink, RotationFails, WriteRecord,
           WriteFails, Register
  <1>2. /\ UNCHANGED <<status, checkpoint, gc, fl, jan, rp, buffer, parquet, early_ack>>
        /\ shadowed \subseteq shadowed'
    BY DEF FetchOffset, Handler, LockWriter, SealSegment,
           WriteHeader, RemoveLink, CreateLink, RotationFails, WriteRecord,
           WriteFails, Register, tasks, stored, history
  <1>3. \A b \in Appender : b # a => pc'[b] = pc[b] /\ off'[b] = off[b]
    BY DEF IInv, TypeOK, FetchOffset, Handler, LockWriter, SealSegment,
           WriteHeader, RemoveLink, CreateLink, RotationFails, WriteRecord,
           WriteFails, Register
  <1>4. pc[a] # "idle" => off' = off
    BY DEF FetchOffset, Handler, LockWriter, SealSegment,
           WriteHeader, RemoveLink, CreateLink, RotationFails, WriteRecord,
           WriteFails, Register
  <1> QED
    BY <1>1, <1>2, <1>3, <1>4

LEMMA LockHandler ==
    ASSUME IInv, NEW a \in Appender, FetchOffset(a) \/ Handler(a)
    PROVE  LockInv'
  <1> USE ConstantsAssumption DEF IInv, LockInv, TypeOK
  <1>1. CASE FetchOffset(a) \/ Register(a)
    BY <1>1 DEF FetchOffset, Register
  <1>2. CASE LockWriter(a)
    BY <1>2 DEF LockWriter
  <1>3. CASE SealSegment(a) \/ WriteHeader(a) \/ RemoveLink(a) \/ CreateLink(a)
    BY <1>3 DEF SealSegment, WriteHeader, RemoveLink, CreateLink
  <1>4. CASE RotationFails(a) \/ WriteRecord(a) \/ WriteFails(a)
    BY <1>4 DEF RotationFails, WriteRecord, WriteFails
  <1> QED
    BY <1>1, <1>2, <1>3, <1>4 DEF Handler

(* WriteRecord: a record that is not shadowed is beyond all others, and    *)
(* can be read.                                                            *)
LEMMA WrittenRecord ==
    ASSUME IInv, TypeOK', NEW a \in Appender, WriteRecord(a)
    PROVE  /\ SegsKept
           /\ NewAreBeyond
           /\ SyncedInv'
           /\ DOMAIN segs' = DOMAIN segs
           /\ segs'[writer.id].data # <<>>
           /\ \A s \in DOMAIN segs : s # writer.id => segs'[s] = segs[s]
           /\ a \notin shadowed' =>
                \E i \in ReadablePos(segs'[writer.id].data) :
                    segs'[writer.id].data[i] = RecordOf(a)
  <1> DEFINE w == writer.id
             q == segs[w].data
  <1>0. status = "up" /\ segs' = Appended(w, RecordOf(a)) /\ w \in DOMAIN segs
    BY HandlerFrame DEF Handler, WriteRecord, IInv, WriterInv, CanOpen
  <1>1. RecordOf(a) \in Record /\ RecordOf(a) \in Chunk
        /\ RecordOf(a).app = a /\ RecordOf(a).off = off[a] /\ off[a] \in Nat
    BY DEF IInv, TypeOK, RecordOf, Record, Chunk
  <1>2. /\ SegsKept
        /\ SyncedInv'
        /\ DOMAIN segs' = DOMAIN segs
        /\ \A s \in DOMAIN segs : s # w => segs'[s] = segs[s]
        /\ segs'[w].data # <<>>
        /\ Readable(segs'[w].data) \subseteq Readable(segs[w].data) \cup {RecordOf(a)}
        /\ (\A i \in 2..Len(segs[w].data) : segs[w].data[i] \in Record)
             => \E i \in ReadablePos(segs'[w].data) : segs'[w].data[i] = RecordOf(a)
    BY <1>0, <1>1, SegsAppend
  <1>3. q \in Seq(Chunk) /\ ReadablePos(q) \subseteq 2..Len(q)
    BY <1>0, SegType, ReadableRecords DEF IInv
  <1>4. ASSUME a \notin shadowed'
        PROVE  /\ \A i \in 2..Len(q) : q[i] \in Record /\ ~(q[i].off >= off[a])
               /\ ~(checkpoint.seg = w /\ off[a] <= checkpoint.off)
    BY <1>4 DEF WriteRecord, IsShadowed
  <1>5. ASSUME a \notin shadowed', NEW r \in Readable(q)
        PROVE  r.off < RecordOf(a).off
    <2>1. PICK i \in ReadablePos(q) : r = q[i]
      BY DEF Readable
    <2>2. r.off \in Nat
      BY <1>0, RecordTypes DEF IInv
    <2>3. ~(r.off >= off[a])
      BY <1>3, <1>4, <1>5, <2>1
    <2> QED
      BY <1>1, <2>2, <2>3
  <1>6. a \notin shadowed' => (checkpoint.seg = w => checkpoint.off < RecordOf(a).off)
    <2>1. checkpoint.off \in Nat \cup {-1}
      BY OrderTypes DEF IInv
    <2> QED
      BY <1>1, <1>4, <2>1
  <1>7. NewAreBeyond
    <2> SUFFICES ASSUME NEW s \in DOMAIN segs', NEW r \in Readable(segs'[s].data),
                        ~(s \in DOMAIN segs /\ r \in Readable(segs[s].data)),
                        r.app \notin shadowed'
                 PROVE  /\ status = "up"
                        /\ s = w
                        /\ \A p \in Readable(segs[s].data) : p.off < r.off
                        /\ checkpoint.seg = s => checkpoint.off < r.off
      BY DEF NewAreBeyond
    <2>1. s = w /\ r = RecordOf(a)
      BY <1>2
    <2> QED
      BY <1>0, <1>1, <1>5, <1>6, <2>1
  <1>8. a \notin shadowed' =>
            \E i \in ReadablePos(segs'[w].data) : segs'[w].data[i] = RecordOf(a)
    BY <1>2, <1>4
  <1> QED
    BY <1>2, <1>7, <1>8

(* What any handler step does to the files. *)
LEMMA HandlerFiles ==
    ASSUME IInv, TypeOK', NEW a \in Appender, FetchOffset(a) \/ Handler(a)
    PROVE  /\ SegsKept
           /\ NewAreBeyond
           /\ SyncedInv'
           /\ DOMAIN segs' \subseteq DOMAIN segs \cup {writer.id + 1}
           /\ writer'.id \in {writer.id, writer.id + 1}
  <1>0. status = "up" /\ SyncedInv
    BY HandlerFrame DEF IInv
  <1>1. CASE SealSegment(a) \/ WriteHeader(a)
    <2>1. writer' = writer
      BY <1>1 DEF SealSegment, WriteHeader
    <2> QED
      BY <1>1, <2>1, SegsRotate, NoNewIsBeyond
  <1>2. CASE WriteRecord(a)
    <2>1. writer'.id = writer.id
      BY <1>2 DEF WriteRecord, IInv, TypeOK, SegmentWriter
    <2> QED
      BY <1>2, <2>1, WrittenRecord
  <1>3. CASE WriteFails(a) /\ segs' = Appended(writer.id, Torn)
    <2>1. Torn \in Chunk /\ Torn \notin Record /\ writer' = writer
      BY <1>3, ConstantsAssumption DEF Chunk, WriteFails
    <2> QED
      BY <1>0, <1>3, <2>1, SegsAppend, NoNewIsBeyond
  <1>4. CASE segs' = segs
    <2>1. writer'.id \in {writer.id, writer.id + 1}
      BY DEF FetchOffset, Handler, LockWriter, SealSegment, WriteHeader, RemoveLink,
             CreateLink, RotationFails, WriteRecord, WriteFails, Register,
             IInv, TypeOK, SegmentWriter
    <2> QED
      BY <1>0, <1>4, <2>1, SegsUnchanged, NoNewIsBeyond
  <1> QED
    BY <1>1, <1>2, <1>3, <1>4
       DEF FetchOffset, Handler, LockWriter, RemoveLink, CreateLink, RotationFails,
           WriteFails, Register

LEMMA WriterHandler ==
    ASSUME IInv, TypeOK', NEW a \in Appender, FetchOffset(a) \/ Handler(a)
    PROVE  WriterInv'
  <1> DEFINE w == writer.id
  <1>0. /\ status = "up" /\ status' = "up" /\ checkpoint' = checkpoint
        /\ CanOpen(w) /\ checkpoint.seg <= w
        /\ \A s \in DOMAIN segs : s > w => s = w + 1 /\ Len(segs[s].data) <= 1
        /\ w \in Nat /\ DOMAIN segs \subseteq Nat /\ checkpoint.seg \in Nat
        /\ \A b \in Appender : b # a => pc'[b] = pc[b]
    BY HandlerFrame, OrderTypes DEF IInv, WriterInv
  <1>1. CASE SealSegment(a) \/ WriteHeader(a)
    <2>1. /\ DOMAIN segs' = DOMAIN segs \cup {w + 1}
          /\ \A s \in DOMAIN segs : s # w + 1 => segs'[s].data = segs[s].data
          /\ Len(segs'[w + 1].data) <= 1
          /\ WriteHeader(a) => segs'[w + 1].data # <<>>
          /\ writer' = writer
      BY <1>1, SegsRotate DEF SealSegment, WriteHeader
    <2>2. CanOpen(w)' /\ \A s \in DOMAIN segs' : s > w => s = w + 1 /\ Len(segs'[s].data) <= 1
      BY <1>0, <2>1 DEF CanOpen
    <2>3. ASSUME NEW b \in Appender, pc'[b] \in {"unlink", "link"}
          PROVE  CanOpen(w + 1)'
      <3>1. b = a
        BY <1>0, <1>1, <2>3, ConstantsAssumption
           DEF IInv, LockInv, SealSegment, WriteHeader
      <3>2. WriteHeader(a)
        BY <1>1, <2>3, <3>1 DEF SealSegment, IInv, TypeOK
      <3> QED
        BY <2>1, <3>2 DEF CanOpen
    <2> QED
      BY <1>0, <2>1, <2>2, <2>3 DEF WriterInv, CanOpen
  <1>2. CASE WriteRecord(a) \/ WriteFails(a)
    <2>1. /\ DOMAIN segs' = DOMAIN segs
          /\ segs'[w].data # <<>>
          /\ \A s \in DOMAIN segs : s # w => segs'[s] = segs[s]
          /\ writer'.id = w
      <3>1. CASE WriteRecord(a)
        BY <3>1, WrittenRecord DEF WriteRecord, IInv, TypeOK, SegmentWriter
      <3>2. CASE WriteFails(a) /\ segs' = segs
        BY <1>0, <3>2 DEF WriteFails, CanOpen
      <3>3. CASE WriteFails(a) /\ segs' = Appended(w, Torn)
        <4>1. Torn \in Chunk /\ writer' = writer
          BY <3>3 DEF Chunk, WriteFails
        <4> QED
          BY <1>0, <3>3, <4>1, SegsAppend
      <3> QED
        BY <1>2, <3>1, <3>2, <3>3 DEF WriteFails
    <2>2. CanOpen(w)' /\ \A s \in DOMAIN segs' : s > w => s = w + 1 /\ Len(segs'[s].data) <= 1
      BY <1>0, <2>1 DEF CanOpen
    <2>3. ASSUME NEW b \in Appender, pc'[b] \in {"unlink", "link"}
          PROVE  FALSE
      BY <1>0, <1>2, <2>3 DEF IInv, LockInv, WriteRecord, WriteFails, TypeOK
    <2> QED
      BY <1>0, <2>1, <2>2, <2>3 DEF WriterInv, CanOpen
  <1>3. CASE CreateLink(a)
    <2>1. CanOpen(w + 1) /\ segs' = segs /\ writer'.id = w + 1
      BY <1>3 DEF CreateLink, IInv, WriterInv
    <2>2. ASSUME NEW b \in Appender, pc'[b] \in {"unlink", "link"}
          PROVE  FALSE
      BY <1>0, <1>3, <2>2 DEF IInv, LockInv, CreateLink, TypeOK
    <2>3. checkpoint.seg <= w + 1 /\ \A s \in DOMAIN segs : ~(s > w + 1)
      BY <1>0
    <2> QED
      BY <1>0, <2>1, <2>2, <2>3 DEF WriterInv, CanOpen
  <1>4. CASE FetchOffset(a) \/ LockWriter(a) \/ RemoveLink(a) \/ RotationFails(a) \/ Register(a)
    <2>1. /\ segs' = segs /\ writer' = writer
          /\ \A b \in Appender :
                pc'[b] \in {"unlink", "link"} => pc[b] \in {"unlink", "link"}
      BY <1>4 DEF FetchOffset, LockWriter, RemoveLink, RotationFails, Register, IInv, TypeOK
    <2> QED
      BY <1>0, <2>1, WriterFrame
  <1> QED
    BY <1>1, <1>2, <1>3, <1>4 DEF Handler

LEMMA StoredHandler ==
    ASSUME IInv, TypeOK', NEW a \in Appender, FetchOffset(a) \/ Handler(a)
    PROVE  StoredInv'
  <1> SUFFICES ASSUME NEW b \in Appender,
                      pc'[b] \in {"register", "wait", "acked"}, b \notin shadowed'
               PROVE  Stored(b)'
    BY DEF StoredInv
  <1>1. StoresGrow /\ KeptFromCheckpoint
    BY HandlerFrame, HandlerFiles, KeptIsFrom DEF StoresGrow
  <1>2. CASE b # a
    BY <1>1, <1>2, StoredFrame, HandlerFrame
  <1>3. CASE b = a /\ Register(a)
    <2>1. pc[a] = "register" /\ pc'[a] = "wait" /\ off' = off
      BY <1>3 DEF Register, IInv, TypeOK
    <2> QED
      BY <1>1, <1>3, <2>1, StoredFrame
  <1>4. CASE b = a /\ WriteRecord(a)
    <2>1. PICK i \in ReadablePos(segs'[writer.id].data) :
                segs'[writer.id].data[i] = RecordOf(a)
      BY <1>4, WrittenRecord
    <2>2. pc'[a] = "register" /\ off' = off /\ writer.id \in DOMAIN segs'
      BY <1>4, WrittenRecord, HandlerFrame
         DEF WriteRecord, IInv, TypeOK, WriterInv, CanOpen
    <2>3. RecordOf(a)' = RecordOf(a)
      BY <2>2 DEF RecordOf
    <2>4. segs'[writer.id].data[i] = RecordOf(a)' /\ pc'[a] # "acked"
      BY <2>1, <2>2, <2>3
    <2> QED
      BY <1>4, <2>1, <2>2, <2>4 DEF Stored
  <1> QED
    BY <1>2, <1>3, <1>4
       DEF FetchOffset, Handler, LockWriter, SealSegment, WriteHeader, RemoveLink,
           CreateLink, RotationFails, WriteFails, IInv, TypeOK

(* A handler's step preserves the invariant. *)
LEMMA InvHandler ==
    ASSUME IInv, NEW a \in Appender, FetchOffset(a) \/ Handler(a)
    PROVE  IInv'
  <1>1. TypeOK'
    BY TypeHandler DEF IInv
  <1>2. /\ status = "up" /\ status' = "up"
        /\ checkpoint' = checkpoint /\ fl' = fl /\ jan' = jan /\ rp' = rp
        /\ StoresGrow
    BY HandlerFrame DEF StoresGrow
  <1>3. /\ KeptFromCheckpoint /\ NewAreBeyond /\ SyncedInv'
        /\ DOMAIN segs' \subseteq DOMAIN segs \cup {writer.id + 1}
        /\ writer'.id \in {writer.id, writer.id + 1}
    BY <1>1, HandlerFiles, KeptIsFrom
  <1>4. StatusInv' /\ JanitorInv' /\ ReplayInv'
    BY <1>2 DEF IInv, StatusInv, JanitorInv, ReplayInv
  <1>5. CoveredInv' /\ CheckpointInv'
    BY <1>1, <1>2, <1>3, CoveredFrame, CheckpointFrame
  <1>6. FlusherInv'
    BY <1>1, <1>2, <1>3, FlusherFrame
  <1> QED
    BY <1>1, <1>3, <1>4, <1>5, <1>6, LockHandler, WriterHandler, StoredHandler DEF IInv

----------------------------------------------------------------------------
(* Group commit *)

(* A step that moves no handler, keeps the bytes of every segment from the *)
(* checkpoint on and creates no segment.                                   *)
LEMMA QuietStep ==
    ASSUME IInv, TypeOK',
           UNCHANGED <<checkpoint, status, writer, lock, off, rp, shadowed, pc>>,
           fl' = fl \/ (status = "up" /\ FlusherInv'),
           jan' = jan \/ jan' = JanIdle
             \/ (status = "up" /\ jan'.bound <= checkpoint.seg
                   /\ (jan'.pc = "delete" => \A d \in jan'.todo : d < jan'.bound)),
           parquet \subseteq parquet', early_ack \subseteq early_ack',
           DOMAIN segs' \subseteq DOMAIN segs,
           \A s \in DOMAIN segs : checkpoint.seg <= s => s \in DOMAIN segs',
           \A s \in DOMAIN segs' : segs'[s].data = segs[s].data,
           \A s \in DOMAIN segs' : segs[s].synced <= segs'[s].synced,
           SyncedInv'
    PROVE  IInv'
  <1>t. /\ DOMAIN segs \subseteq Nat /\ checkpoint.seg \in Nat /\ writer.id \in Nat
        /\ \A s \in DOMAIN segs : segs[s].data \in Seq(Chunk) /\ segs[s].synced \in Nat
        /\ \A s \in DOMAIN segs' : segs'[s].data \in Seq(Chunk) /\ segs'[s].synced \in Nat
    <2>1. /\ DOMAIN segs \subseteq Nat /\ checkpoint.seg \in Nat /\ writer.id \in Nat
      BY OrderTypes DEF IInv
    <2>2. \A s \in DOMAIN segs : segs[s].data \in Seq(Chunk) /\ segs[s].synced \in Nat
      BY SegType DEF IInv
    <2>3. \A s \in DOMAIN segs' : segs'[s] \in SegmentFile
      BY DEF TypeOK
    <2> QED
      BY <2>1, <2>2, <2>3 DEF SegmentFile
  <1>1. StoresGrow
    BY DEF StoresGrow
  <1>2. KeptFromCheckpoint
    <2> SUFFICES ASSUME NEW s \in DOMAIN segs, s \in DOMAIN segs'
                 PROVE  FileKeeps(segs[s], segs'[s])
      BY DEF KeptFromCheckpoint
    <2>1. \A i \in ReadablePos(segs[s].data) : i \in Nat
      BY <1>t, ReadableRecords
    <2> QED
      BY <1>t, <2>1 DEF FileKeeps
  <1>3. NewAreBeyond
    BY DEF NewAreBeyond
  <1>4. LockInv' /\ StatusInv'
    BY DEF IInv, LockInv, StatusInv
  <1>5. WriterInv'
    <2>1. ASSUME NEW s, CanOpen(s), checkpoint.seg <= s
          PROVE  CanOpen(s)'
      BY <2>1 DEF CanOpen
    <2>2. ASSUME status \in {"replay", "up"}
          PROVE  /\ CanOpen(writer.id)' /\ checkpoint.seg <= writer.id
                 /\ \A s \in DOMAIN segs' :
                        s > writer.id => s = writer.id + 1 /\ Len(segs'[s].data) <= 1
      BY <2>1, <2>2 DEF IInv, WriterInv
    <2>3. ASSUME NEW a \in Appender, pc[a] \in {"unlink", "link"}
          PROVE  CanOpen(writer.id + 1)'
      <3>1. status = "up"
        BY <2>3 DEF IInv, StatusInv
      <3>2. checkpoint.seg <= writer.id + 1 /\ CanOpen(writer.id + 1)
        BY <1>t, <2>3, <3>1 DEF IInv, WriterInv
      <3> QED
        BY <2>1, <3>2
    <2> QED
      BY <2>2, <2>3 DEF WriterInv, CanOpen
  <1>6. CoveredInv' /\ CheckpointInv'
    BY <1>1, <1>2, <1>3, CoveredFrame, CheckpointFrame
  <1>7. FlusherInv'
    BY <1>1, <1>2, <1>3, FlusherFrame
  <1>8. JanitorInv'
    BY DEF IInv, JanitorInv, JanIdle
  <1>9. ReplayInv'
    <2>1. \A s \in DOMAIN segs' : AllOf(s)' = AllOf(s)
      BY DEF AllOf
    <2>2. ASSUME NEW s \in DOMAIN segs', status = "replay", s <= rp.seg
          PROVE  Delivered(AllOf(s))'
      BY <2>2 DEF IInv, ReplayInv, Delivered, AllOf
    <2>3. ASSUME status = "replay"
          PROVE  /\ \A s \in DOMAIN segs' : s <= writer.id
                 /\ rp.seg <= writer.id
                 /\ rp.last # NoCheckpoint =>
                      /\ rp.last.seg \in DOMAIN segs'
                      /\ rp.last.seg <= rp.seg
                      /\ \/ checkpoint.seg < rp.last.seg
                         \/ checkpoint.seg = rp.last.seg /\ checkpoint.off < rp.last.off
      <3>1. rp.last.seg \in Nat
        BY OrderTypes DEF IInv
      <3> QED
        BY <1>t, <2>3, <3>1 DEF IInv, ReplayInv
    <2> QED
      BY <2>2, <2>3 DEF ReplayInv
  <1>10. StoredInv'
    BY <1>1, <1>2, StoredFrame DEF StoredInv
  <1> QED
    BY <1>4, <1>5, <1>6, <1>7, <1>8, <1>9, <1>10 DEF IInv

(* A step of the group commit preserves the invariant. *)
LEMMA InvGroupCommit ==
    ASSUME IInv, GroupCommit
    PROVE  IInv'
  <1>t. TypeOK'
    BY TypeGroupCommit DEF IInv
  <1>s. SyncedInv /\ \A s \in DOMAIN segs : segs[s].synced \in Nat
    BY SegType DEF IInv
  <1>1. CASE GcReadLink \/ GcFsyncFails
    <2>1. /\ UNCHANGED <<segs, checkpoint, status, writer, lock, off, fl, rp, shadowed, pc>>
          /\ jan' = jan /\ parquet' = parquet /\ early_ack' = early_ack
      BY <1>1 DEF GcReadLink, GcFsyncFails, stored, history
    <2>2. SyncedInv'
      BY <1>s, <2>1, SegsUnchanged
    <2> QED
      BY <1>t, <1>s, <2>1, <2>2, QuietStep
  <1>2. CASE GcFsync
    <2>1. /\ UNCHANGED <<checkpoint, status, writer, lock, off, fl, rp, shadowed, pc>>
          /\ jan' = jan /\ parquet' = parquet /\ early_ack' = early_ack
          /\ gc.target \in DOMAIN segs /\ segs' = Fsynced(gc.target)
      BY <1>2 DEF GcFsync, stored, history
    <2>2. /\ SyncedInv' /\ DOMAIN segs' = DOMAIN segs
          /\ \A s \in DOMAIN segs : segs'[s].data = segs[s].data
      BY <2>1, SegsFsync
    <2>3. \A s \in DOMAIN segs : segs[s].synced <= segs'[s].synced
      <3> SUFFICES ASSUME NEW s \in DOMAIN segs
                   PROVE  segs[s].synced <= segs'[s].synced
        OBVIOUS
      <3>1. segs[s] \in SegmentFile /\ FileSynced(segs[s])
        BY SegType DEF IInv
      <3>2. \/ segs'[s] = segs[s]
            \/ segs'[s] = [segs[s] EXCEPT !.synced = Len(segs[s].data)]
        BY <2>1 DEF Fsynced, IInv, TypeOK
      <3>3. \/ segs'[s].synced = segs[s].synced
            \/ segs'[s].synced = Len(segs[s].data)
        BY <3>1, <3>2 DEF SegmentFile
      <3> QED
        BY <1>s, <3>1, <3>3 DEF FileSynced
    <2> QED
      BY <1>t, <2>1, <2>2, <2>3, QuietStep
  <1>3. CASE GcDrain
    <2>1. /\ UNCHANGED <<segs, checkpoint, status, writer, lock, off, fl, jan, rp, parquet, shadowed>>
          /\ early_ack' = early_ack \cup {a \in pending : ~Synced(a) /\ a \notin parquet}
          /\ pc' = [a \in Appender |-> IF a \in pending THEN "acked" ELSE pc[a]]
      BY <1>3 DEF GcDrain, stored
    <2>2. StoresGrow /\ KeptFromCheckpoint /\ NewAreBeyond /\ SyncedInv'
      BY <1>s, <2>1, SegsUnchanged, KeptIsFrom, NoNewIsBeyond DEF StoresGrow
    <2>3. LockInv' /\ StatusInv' /\ WriterInv' /\ CheckpointInv'
      BY <2>1, WriterFrame DEF IInv, LockInv, StatusInv, CheckpointInv
    <2>4. CoveredInv' /\ FlusherInv'
      <3>1. writer'.id = writer.id
        BY <2>1
      <3> QED
        BY <1>t, <2>1, <2>2, <3>1, CoveredFrame, FlusherFrame
    <2>5. JanitorInv' /\ ReplayInv'
      BY <2>1 DEF IInv, JanitorInv, ReplayInv, Delivered, AllOf
    <2>6. StoredInv'
      <3> SUFFICES ASSUME NEW a \in Appender,
                          pc'[a] \in {"register", "wait", "acked"}, a \notin shadowed'
                   PROVE  Stored(a)'
        BY DEF StoredInv
      <3>1. CASE a \notin pending
        BY <2>1, <2>2, <3>1, StoredFrame
      <3>2. CASE a \in pending /\ Synced(a)
        <4>1. PICK s \in DOMAIN segs : \E i \in 2..segs[s].synced :
                    i \in ReadablePos(segs[s].data) /\ segs[s].data[i] = RecordOf(a)
          BY <3>2 DEF Synced
        <4>2. PICK i \in 2..segs[s].synced :
                    i \in ReadablePos(segs[s].data) /\ segs[s].data[i] = RecordOf(a)
          BY <4>1
        <4>3. i <= segs[s].synced /\ RecordOf(a)' = RecordOf(a)
          BY <1>s, <2>1, <4>2 DEF RecordOf
        <4> QED
          BY <2>1, <4>2, <4>3 DEF Stored
      <3>3. CASE a \in pending /\ a \in parquet
        BY <2>1, <3>3 DEF Stored
      <3>4. CASE a \in pending /\ a \in early_ack'
        BY <2>1, <3>4 DEF Stored
      <3> QED
        BY <2>1, <3>1, <3>2, <3>3, <3>4
    <2> QED
      BY <1>t, <2>2, <2>3, <2>4, <2>5, <2>6 DEF IInv
  <1> QED
    BY <1>1, <1>2, <1>3 DEF GroupCommit

(* A step of the janitor preserves the invariant: what it deletes is       *)
(* before the checkpoint.                                                  *)
LEMMA InvJanitor ==
    ASSUME IInv, Janitor
    PROVE  IInv'
  <1>t. TypeOK'
    BY TypeJanitor DEF IInv
  <1>s. /\ SyncedInv /\ \A s \in DOMAIN segs : segs[s].synced \in Nat /\ s \in Nat
        /\ checkpoint.seg \in Nat /\ jan.bound \in Nat /\ jan.todo \subseteq Nat
    BY SegType, OrderTypes DEF IInv
  <1>1. UNCHANGED <<checkpoint, status, writer, lock, off, fl, rp, shadowed, pc, parquet, early_ack>>
    BY DEF Janitor, JanitorList, JanitorActive, JanitorDelete, stored, history
  <1>2. CASE JanitorList \/ JanitorActive
    <2>1. segs' = segs
      BY <1>2 DEF JanitorList, JanitorActive
    <2>2. \/ jan' = JanIdle
          \/ /\ status = "up" /\ jan'.bound <= checkpoint.seg
             /\ jan'.pc = "delete" => \A d \in jan'.todo : d < jan'.bound
      <3>1. CASE JanitorList
        BY <1>s, <3>1 DEF JanitorList
      <3>2. CASE JanitorActive
        <4>1. status = "up" /\ jan.bound <= checkpoint.seg
          BY <3>2 DEF JanitorActive, IInv, JanitorInv
        <4>2. \/ jan' = JanIdle
              \/ jan'.bound = jan.bound /\ jan'.todo = Deletable
          BY <3>2 DEF JanitorActive, IInv, TypeOK, JanitorState
        <4> QED
          BY <4>1, <4>2 DEF Deletable
      <3> QED
        BY <1>2, <3>1, <3>2
    <2>3. SyncedInv'
      BY <1>s, <2>1, SegsUnchanged
    <2> QED
      BY <1>t, <1>s, <1>1, <2>1, <2>2, <2>3, QuietStep
  <1>3. CASE JanitorDelete
    <2>1. PICK d \in jan.todo :
            /\ segs' = [s \in DOMAIN segs \ {d} |-> segs[s]] \/ segs' = segs
            /\ jan' = JanIdle \/ jan' = [jan EXCEPT !.todo = @ \ {d}]
      BY <1>3 DEF JanitorDelete
    <2>2. /\ status = "up" /\ jan.bound <= checkpoint.seg
          /\ \A e \in jan.todo : e < jan.bound
      BY <1>3 DEF JanitorDelete, IInv, JanitorInv
    <2>3. d < checkpoint.seg
      BY <1>s, <2>2
    <2>4. \/ jan' = JanIdle
          \/ /\ status = "up" /\ jan'.bound <= checkpoint.seg
             /\ jan'.pc = "delete" => \A e \in jan'.todo : e < jan'.bound
      <3>1. jan' = JanIdle \/ (jan'.bound = jan.bound /\ jan'.todo \subseteq jan.todo)
        BY <2>1 DEF IInv, TypeOK, JanitorState
      <3> QED
        BY <2>2, <3>1
    <2>5. /\ SyncedInv'
          /\ DOMAIN segs' \subseteq DOMAIN segs
          /\ \A s \in DOMAIN segs : s # d => s \in DOMAIN segs'
          /\ \A s \in DOMAIN segs' : segs'[s] = segs[s]
      <3>1. CASE segs' = segs
        BY <1>s, <3>1, SegsUnchanged
      <3>2. CASE segs' = [s \in DOMAIN segs \ {d} |-> segs[s]]
        BY <3>2, SegsDelete
      <3> QED
        BY <2>1, <3>1, <3>2
    <2>6. \A s \in DOMAIN segs : checkpoint.seg <= s => s \in DOMAIN segs'
      BY <1>s, <2>3, <2>5
    <2>7. \A s \in DOMAIN segs' :
            segs'[s].data = segs[s].data /\ segs[s].synced <= segs'[s].synced
      BY <1>s, <2>5
    <2> QED
      BY <1>t, <1>1, <2>4, <2>5, <2>6, <2>7, QuietStep
  <1> QED
    BY <1>2, <1>3 DEF Janitor

(* The write buffer only adds to Parquet. *)
LEMMA InvBufferFlush ==
    ASSUME IInv, TypeOK', BufferFlush
    PROVE  IInv'
  <1>1. /\ UNCHANGED <<segs, checkpoint, status, writer, lock, off, fl, jan, rp, shadowed, pc, early_ack>>
        /\ parquet \subseteq parquet'
    BY DEF BufferFlush, tasks, history
  <1>2. SyncedInv' /\ \A s \in DOMAIN segs : segs[s].synced \in Nat
    BY <1>1, SegsUnchanged, SegType DEF IInv
  <1> QED
    BY <1>1, <1>2, QuietStep

----------------------------------------------------------------------------
(* The flusher *)

(* The fields of the flusher's state after a step that keeps start,        *)
(* flushed and list.                                                       *)
LEMMA PassFields ==
    ASSUME TypeOK
    PROVE  /\ \A s : FlushNext(s) = FlIdle \/
                ( /\ s # fl.active
                  /\ FlushNext(s).pc = "read" /\ FlushNext(s).seg = s
                  /\ FlushNext(s).start = fl.start /\ FlushNext(s).flushed = fl.flushed
                  /\ FlushNext(s).list = fl.list /\ FlushNext(s).active = fl.active )
           /\ FlIdle.pc = "idle"
  BY DEF FlushNext, FlIdle, TypeOK, FlusherState

(* The next segment of a pass: all before it is done, and it is not beyond *)
(* the active one.                                                         *)
LEMMA NextSegment ==
    ASSUME IInv, fl.pc = "read", NEW s \in FlushTodo, IsMin(s, FlushTodo)
    PROVE  /\ s \in Nat /\ fl.start <= s /\ fl.seg < s /\ s <= fl.active
           /\ s \in DOMAIN segs
           /\ \A t \in DOMAIN segs : t < s => FlushDone(t)
           /\ \/ checkpoint.seg = fl.start /\ checkpoint.off = fl.flushed
              \/ checkpoint.seg < s
  <1>0. PassStart /\ PassList /\ PassActive
    BY DEF IInv, FlusherInv
  <1>t. /\ DOMAIN segs \subseteq Nat
        /\ checkpoint.seg \in Nat
        /\ fl.start \in Nat /\ fl.list \subseteq Nat /\ fl.active \in Nat
        /\ fl.seg \in Nat \cup {-1}
    BY OrderTypes DEF IInv
  <1>1. s \in fl.list /\ s \in Nat /\ fl.start <= s /\ fl.seg < s
        /\ \A u \in fl.list : fl.start <= u /\ fl.seg < u => s <= u
    BY <1>t DEF FlushTodo, IsMin
  <1>2. s <= fl.active
    BY <1>0, <1>t, <1>1 DEF PassActive
  <1>3. s \in DOMAIN segs
    BY <1>0, <1>1 DEF PassList
  <1>4. ASSUME NEW t \in DOMAIN segs, t < s
        PROVE  FlushDone(t)
    <2>1. t \in fl.list
      BY <1>0, <1>t, <1>1, <1>4 DEF PassList
    <2>2. t < fl.start \/ t <= fl.seg
      BY <1>t, <1>1, <1>4, <2>1
    <2> QED
      BY <1>t, <2>2 DEF FlushDone
  <1>5. \/ checkpoint.seg = fl.start /\ checkpoint.off = fl.flushed
        \/ checkpoint.seg < s
    BY <1>0, <1>t, <1>1 DEF PassStart
  <1> QED
    BY <1>1, <1>2, <1>3, <1>4, <1>5

(* FlushRead: a segment with nothing to flush is done; the batch of        *)
(* another one is all of it that was not delivered.                        *)
LEMMA FlusherRead ==
    ASSUME IInv, TypeOK', FlushRead
    PROVE  FlusherInv'
  <1>0. PassStart /\ PassList /\ PassDone /\ PassActive /\ status = "up" /\ fl.pc = "read"
    BY DEF IInv, FlusherInv, FlushRead
  <1>u. /\ segs' = segs /\ checkpoint' = checkpoint /\ status' = status /\ writer' = writer
        /\ parquet' = parquet /\ shadowed' = shadowed
    BY DEF FlushRead, stored, history
  <1>t. /\ DOMAIN segs \subseteq Nat
        /\ checkpoint.seg \in Nat /\ checkpoint.off \in Nat \cup {-1}
        /\ fl.start \in Nat /\ fl.list \subseteq Nat /\ fl.active \in Nat
        /\ fl.flushed \in Nat \cup {-1}
        /\ fl.seg \in Nat \cup {-1}
    BY OrderTypes DEF IInv
  <1>1. PICK s \in FlushTodo :
        /\ IsMin(s, FlushTodo)
        /\ \/ fl' = FlIdle
           \/ Unflushed(s, fl.start, fl.flushed) = {} /\ fl' = FlushNext(s)
           \/ \E m \in {r.off : r \in Unflushed(s, fl.start, fl.flushed)} :
                 fl' = [fl EXCEPT !.pc = "flush", !.seg = s, !.max = m,
                                  !.batch = Unflushed(s, fl.start, fl.flushed)]
    BY DEF FlushRead
  <1>2. /\ s \in Nat /\ fl.start <= s /\ fl.seg < s /\ s <= fl.active
        /\ s \in DOMAIN segs
        /\ \A t \in DOMAIN segs : t < s => FlushDone(t)
        /\ \/ checkpoint.seg = fl.start /\ checkpoint.off = fl.flushed
           \/ checkpoint.seg < s
    BY <1>0, <1>1, NextSegment
  <1>3. ASSUME NEW r \in Readable(segs[s].data), r \notin Unflushed(s, fl.start, fl.flushed)
        PROVE  r.app \in shadowed \/ r.app \in parquet
    <2>1. s = fl.start /\ r \in UpTo(fl.start, fl.flushed)
      BY <1>3 DEF Unflushed, UpTo
    <2> QED
      BY <1>0, <1>2, <2>1 DEF PassDone, Delivered
  <1>4. ASSUME fl'.start = fl.start, fl'.flushed = fl.flushed, fl'.list = fl.list,
               fl'.active = fl.active, fl'.seg = s,
               fl'.pc = "flush" \/ (fl'.pc = "read" /\ s # fl.active
                                     /\ Unflushed(s, fl.start, fl.flushed) = {})
        PROVE  PassStart' /\ PassList' /\ PassDone' /\ PassActive'
    <2>1. PassStart'
      BY <1>0, <1>u, <1>t, <1>2, <1>4 DEF PassStart
    <2>2. PassList'
      BY <1>0, <1>u, <1>t, <1>2, <1>4 DEF PassList
    <2>3. PassActive'
      BY <1>0, <1>u, <1>t, <1>2, <1>4 DEF PassActive
    <2>4. ASSUME NEW t \in DOMAIN segs, FlushDone(t)'
          PROVE  Delivered(AllOf(t))
      <3>1. CASE t < s \/ t < fl.start
        <4>1. FlushDone(t)
          BY <1>2, <3>1 DEF FlushDone
        <4> QED
          BY <1>0, <4>1 DEF PassDone
      <3>2. CASE t = s /\ fl'.pc = "read"
        BY <1>3, <1>4, <3>2 DEF Delivered, AllOf
      <3> QED
        BY <1>4, <2>4, <3>1, <3>2 DEF FlushDone
    <2>5. PassDone'
      BY <1>0, <1>u, <1>4, <2>4 DEF PassDone, Delivered, AllOf, UpTo
    <2> QED
      BY <2>1, <2>2, <2>3, <2>5
  <1>5. CASE fl' = FlIdle
    BY <1>5 DEF FlusherInv, FlIdle
  <1>6. CASE Unflushed(s, fl.start, fl.flushed) = {} /\ fl' = FlushNext(s) /\ fl' # FlIdle
    <2>1. /\ fl'.start = fl.start /\ fl'.flushed = fl.flushed /\ fl'.list = fl.list
          /\ fl'.active = fl.active /\ fl'.seg = s /\ fl'.pc = "read" /\ s # fl.active
      BY <1>6, PassFields DEF IInv
    <2> QED
      BY <1>0, <1>u, <1>4, <1>6, <2>1 DEF FlusherInv
  <1>7. ASSUME NEW m \in {r.off : r \in Unflushed(s, fl.start, fl.flushed)},
               fl' = [fl EXCEPT !.pc = "flush", !.seg = s, !.max = m,
                                !.batch = Unflushed(s, fl.start, fl.flushed)]
        PROVE  FlusherInv'
    <2>1. /\ fl'.start = fl.start /\ fl'.flushed = fl.flushed /\ fl'.list = fl.list
          /\ fl'.active = fl.active /\ fl'.seg = s /\ fl'.pc = "flush" /\ fl'.max = m
          /\ fl'.batch = Unflushed(s, fl.start, fl.flushed)
      BY <1>7 DEF IInv, TypeOK, FlusherState
    <2>2. PICK p \in Unflushed(s, fl.start, fl.flushed) : m = p.off
      BY <1>7
    <2>3. p \in Readable(segs[s].data) /\ p.off \in Nat /\ ~(s = fl.start /\ p.off <= fl.flushed)
      BY <1>2, RecordTypes DEF Unflushed, IInv
    <2>4. \/ checkpoint.seg < s
          \/ checkpoint.seg = s /\ checkpoint.off < m
      BY <1>t, <1>2, <2>2, <2>3
    <2>5. PassSegment'
      BY <1>u, <1>2, <1>3, <2>1, <2>2, <2>3, <2>4 DEF PassSegment
    <2> QED
      BY <1>0, <1>u, <1>4, <2>1, <2>5 DEF FlusherInv
  <1> QED
    BY <1>1, <1>5, <1>6, <1>7

(* FlushList: a pass starts from what the checkpoint covers. *)
LEMMA FlusherList ==
    ASSUME IInv, TypeOK', FlushList
    PROVE  FlusherInv'
  <1>1. /\ segs' = segs /\ checkpoint' = checkpoint /\ status' = "up" /\ writer' = writer
        /\ parquet' = parquet /\ shadowed' = shadowed
        /\ fl'.pc = "active" /\ fl'.start = checkpoint.seg /\ fl'.flushed = checkpoint.off
        /\ fl'.list = DOMAIN segs /\ fl'.seg = -1
    BY DEF FlushList, FlIdle, stored, history
  <1>t. /\ DOMAIN segs \subseteq Nat /\ writer.id \in Nat
        /\ checkpoint.seg \in Nat /\ checkpoint.off \in Nat \cup {-1}
    BY OrderTypes DEF IInv
  <1>2. /\ CanOpen(writer.id)
        /\ \A s \in DOMAIN segs : s > writer.id => s = writer.id + 1
    BY DEF IInv, WriterInv, FlushList
  <1>3. PassStart' /\ PassList' /\ PassActive'
    BY <1>t, <1>1, <1>2 DEF PassStart, PassList, PassActive, CanOpen
  <1>4. \A s \in DOMAIN segs : FlushDone(s)' => s < checkpoint.seg
    BY <1>t, <1>1 DEF FlushDone
  <1>5. PassDone'
    BY <1>1, <1>4 DEF PassDone, IInv, CoveredInv, Delivered, AllOf, UpTo
  <1> QED
    BY <1>1, <1>3, <1>5 DEF FlusherInv

(* FlushActive: the active segment is not before the pass. *)
LEMMA FlusherActive ==
    ASSUME IInv, TypeOK', FlushActive
    PROVE  FlusherInv'
  <1>0. PassStart /\ PassList /\ PassDone /\ PassActive /\ status = "up"
        /\ checkpoint.seg <= writer.id
    BY DEF IInv, FlusherInv, WriterInv, FlushActive
  <1>1. /\ segs' = segs /\ checkpoint' = checkpoint /\ status' = status /\ writer' = writer
        /\ parquet' = parquet /\ shadowed' = shadowed
        /\ fl.pc = "active" /\ fl.seg = -1
        /\ fl'.pc = "read" /\ fl'.start = fl.start /\ fl'.flushed = fl.flushed
        /\ fl'.list = fl.list /\ fl'.seg = fl.seg /\ fl'.active = writer.id
    BY <1>0 DEF FlushActive, PassActive, stored, history, IInv, TypeOK, FlusherState
  <1>t. /\ DOMAIN segs \subseteq Nat /\ writer.id \in Nat
        /\ checkpoint.seg \in Nat /\ fl.start \in Nat
    BY OrderTypes DEF IInv
  <1>2. PassStart' /\ PassList'
    BY <1>0, <1>1 DEF PassStart, PassList
  <1>3. PassActive'
    BY <1>t, <1>0, <1>1 DEF PassActive, PassStart
  <1>4. \A s \in DOMAIN segs : FlushDone(s)' => FlushDone(s)
    BY <1>t, <1>1 DEF FlushDone
  <1>5. PassDone'
    BY <1>0, <1>1, <1>4 DEF PassDone, Delivered, AllOf, UpTo
  <1> QED
    BY <1>0, <1>1, <1>2, <1>3, <1>5 DEF FlusherInv

(* FlushRecords: the batch is in Parquet before the checkpoint is saved. *)
LEMMA FlusherRecords ==
    ASSUME WriteBufferEnabled = FALSE, IInv, TypeOK', FlushRecords
    PROVE  FlusherInv'
  <1>0. PassStart /\ PassList /\ PassDone /\ PassActive /\ status = "up" /\ PassSegment
    BY DEF IInv, FlusherInv, FlushRecords
  <1>1. /\ segs' = segs /\ checkpoint' = checkpoint /\ status' = status /\ writer' = writer
        /\ shadowed' = shadowed /\ parquet' = parquet \cup Apps(fl.batch)
        /\ fl.pc = "flush" /\ fl'.pc = "save"
        /\ fl'.start = fl.start /\ fl'.flushed = fl.flushed
        /\ fl'.list = fl.list /\ fl'.seg = fl.seg /\ fl'.active = fl.active
        /\ fl'.max = fl.max /\ fl'.batch = fl.batch
    BY DEF FlushRecords, Deliver, history, IInv, TypeOK, FlusherState
  <1>2. PassStart' /\ PassList' /\ PassActive'
    BY <1>0, <1>1 DEF PassStart, PassList, PassActive
  <1>3. \A s \in DOMAIN segs : FlushDone(s)' => FlushDone(s)
    BY <1>1 DEF FlushDone
  <1>4. PassDone'
    BY <1>0, <1>1, <1>3 DEF PassDone, Delivered, AllOf, UpTo
  <1>5. \A r \in fl.batch : r.app \in parquet'
    BY <1>1 DEF Apps
  <1>6. PassSegment'
    BY <1>0, <1>1, <1>5 DEF PassSegment
  <1> QED
    BY <1>0, <1>1, <1>2, <1>4, <1>6 DEF FlusherInv

(* FlushSave: the checkpoint moves forward, over delivered records. *)
LEMMA FlusherSave ==
    ASSUME IInv, TypeOK', FlushSave
    PROVE  /\ FlusherInv'
           /\ CoveredInv'
           /\ fl.seg \in DOMAIN segs /\ fl.seg <= writer.id
           /\ \/ checkpoint'.seg > checkpoint.seg
              \/ checkpoint'.seg = checkpoint.seg /\ checkpoint'.off > checkpoint.off
  <1>0. PassStart /\ PassList /\ PassDone /\ PassActive /\ status = "up" /\ PassSegment
    BY DEF IInv, FlusherInv, FlushSave
  <1>1. /\ segs' = segs /\ checkpoint'.seg = fl.seg /\ checkpoint'.off = fl.max
        /\ status' = status /\ writer' = writer
        /\ shadowed' = shadowed /\ parquet' = parquet
        /\ fl.pc = "save" /\ fl' = FlushNext(fl.seg)
    BY DEF FlushSave, stored, history
  <1>t. /\ DOMAIN segs \subseteq Nat /\ writer.id \in Nat
        /\ checkpoint.seg \in Nat /\ checkpoint.off \in Nat \cup {-1}
        /\ fl.start \in Nat /\ fl.flushed \in Nat \cup {-1}
        /\ fl.list \subseteq Nat /\ fl.active \in Nat
        /\ fl.seg \in Nat \cup {-1} /\ fl.max \in Nat \cup {-1}
    BY OrderTypes DEF IInv
  <1>r. \A s \in DOMAIN segs : \A r \in Readable(segs[s].data) : r.off \in Nat
    BY RecordTypes DEF IInv
  <1>2. /\ fl.seg \in DOMAIN segs /\ fl.seg <= writer.id /\ fl.seg <= fl.active
        /\ fl.start <= fl.seg
        /\ \/ checkpoint.seg < fl.seg
           \/ checkpoint.seg = fl.seg /\ checkpoint.off < fl.max
        /\ \A r \in Readable(segs[fl.seg].data) :
              (fl.seg = fl.active /\ r.off > fl.max) \/ r.app \in shadowed \/ r.app \in parquet
    BY <1>t, <1>0, <1>1 DEF PassSegment, PassActive
  <1>3. CoveredInv'
    <2>1. ASSUME NEW s \in DOMAIN segs, s < fl.seg
          PROVE  Delivered(AllOf(s))
      BY <1>0, <2>1 DEF PassDone, FlushDone
    <2>2. \A r \in Readable(segs[fl.seg].data) :
            r.off <= fl.max => r.app \in shadowed \/ r.app \in parquet
      BY <1>t, <1>r, <1>2
    <2> QED
      BY <1>1, <2>1, <2>2 DEF CoveredInv, Delivered, AllOf, UpTo
  <1>4. FlusherInv'
    <2>1. CASE fl' = FlIdle
      BY <2>1 DEF FlusherInv, FlIdle
    <2>2. CASE fl' # FlIdle
      <3>1. /\ fl'.start = fl.start /\ fl'.flushed = fl.flushed /\ fl'.list = fl.list
            /\ fl'.active = fl.active /\ fl'.seg = fl.seg /\ fl'.pc = "read"
            /\ fl.seg # fl.active
        BY <1>1, <2>2, PassFields DEF IInv
      <3>2. PassStart'
        BY <1>t, <1>0, <1>1, <1>2, <3>1 DEF PassStart
      <3>3. PassList' /\ PassActive'
        BY <1>t, <1>0, <1>1, <1>2, <3>1 DEF PassList, PassActive
      <3>4. ASSUME NEW s \in DOMAIN segs, FlushDone(s)'
            PROVE  Delivered(AllOf(s))
        <4>1. CASE FlushDone(s)
          BY <1>0, <4>1 DEF PassDone
        <4>2. CASE s = fl.seg
          BY <1>2, <3>1, <4>2 DEF Delivered, AllOf
        <4> QED
          BY <3>1, <3>4, <4>1, <4>2 DEF FlushDone
      <3>5. PassDone'
        BY <1>0, <1>1, <3>1, <3>4 DEF PassDone, Delivered, AllOf, UpTo
      <3> QED
        BY <1>0, <1>1, <3>1, <3>2, <3>3, <3>5 DEF FlusherInv
    <2> QED
      BY <2>1, <2>2
  <1> QED
    BY <1>t, <1>1, <1>2, <1>3, <1>4

(* A step of the flusher preserves the invariant. *)
LEMMA InvFlusher ==
    ASSUME WriteBufferEnabled = FALSE, IInv, Flusher
    PROVE  IInv'
  <1>t. TypeOK'
    BY TypeFlusher DEF IInv
  <1>1. /\ UNCHANGED <<segs, status, writer, lock, off, jan, rp, shadowed, pc, early_ack>>
        /\ parquet \subseteq parquet'
        /\ FlushSave \/ checkpoint' = checkpoint
        /\ status = "up"
    BY DEF Flusher, FlushList, FlushActive, FlushRead, FlushEnd, FlushRecords,
           FlushRecordsFails, FlushSave, FlushSaveFails, Deliver, stored, history,
           IInv, FlusherInv
  <1>2. SyncedInv' /\ \A s \in DOMAIN segs : segs[s].synced \in Nat
    BY <1>1, SegsUnchanged, SegType DEF IInv
  <1>3. CASE FlushSave
    <2>1. /\ CoveredInv' /\ FlusherInv'
          /\ fl.seg \in DOMAIN segs /\ fl.seg <= writer.id /\ checkpoint'.seg = fl.seg
      BY <1>t, <1>3, FlusherSave DEF FlushSave
    <2>2. checkpoint.seg <= checkpoint'.seg
      <3>1. checkpoint.seg \in Nat /\ checkpoint'.seg \in Nat
        BY <1>t, OrderTypes DEF IInv, TypeOK, Checkpoint
      <3> QED
        BY <1>t, <1>3, <3>1, FlusherSave
    <2>3. LockInv' /\ StatusInv' /\ CheckpointInv'
      BY <1>1, <2>1 DEF IInv, LockInv, StatusInv, CheckpointInv
    <2>4. WriterInv'
      BY <1>1, <2>1 DEF IInv, WriterInv, CanOpen
    <2>5. JanitorInv' /\ ReplayInv'
      <3>1. checkpoint.seg \in Nat /\ checkpoint'.seg \in Nat /\ jan.bound \in Nat
        BY <1>t, OrderTypes DEF IInv, TypeOK, Checkpoint
      <3> QED
        BY <1>1, <2>2, <3>1 DEF IInv, JanitorInv, ReplayInv
    <2>6. StoredInv'
      <3>1. StoresGrow /\ KeptFromCheckpoint
        BY <1>1, SegsUnchanged, KeptIsFrom DEF StoresGrow
      <3> QED
        BY <1>1, <3>1, StoredFrame DEF StoredInv
    <2> QED
      BY <1>t, <1>2, <2>1, <2>3, <2>4, <2>5, <2>6 DEF IInv
  <1>4. CASE ~FlushSave
    <2>1. FlusherInv'
      <3>1. CASE FlushEnd \/ FlushRecordsFails \/ FlushSaveFails
        BY <3>1 DEF FlushEnd, FlushRecordsFails, FlushSaveFails, FlIdle, FlusherInv
      <3> QED
        BY <1>t, <1>4, <3>1, FlusherList, FlusherActive, FlusherRead, FlusherRecords
           DEF Flusher
    <2> QED
      BY <1>t, <1>1, <1>2, <1>4, <2>1, QuietStep
  <1> QED
    BY <1>3, <1>4

----------------------------------------------------------------------------
(* Crash and restart *)

(* When the process dies, the fsynced records and Parquet are all that     *)
(* acknowledged records need.                                              *)
LEMMA DownStep ==
    ASSUME IInv, TypeOK', ProcessDies,
           UNCHANGED <<checkpoint, off, shadowed, early_ack>>, parquet \subseteq parquet',
           DOMAIN segs' = DOMAIN segs, SegsNoNew, SyncedInv',
           \A s \in DOMAIN segs : FileKeepsSynced(segs[s], segs'[s])
    PROVE  IInv'
  <1>1. /\ status' = "down" /\ fl' = FlIdle /\ jan' = JanIdle /\ rp' = RpIdle
        /\ \A a \in Appender : pc'[a] \in {"idle", "acked", "failed"}
        /\ \A a \in Appender : pc'[a] = "acked" => pc[a] = "acked"
    BY DEF ProcessDies
  <1>2. LockInv' /\ StatusInv' /\ WriterInv' /\ CheckpointInv'
    BY <1>1 DEF LockInv, StatusInv, WriterInv, IInv, CheckpointInv
  <1>3. CoveredInv'
    BY NoNewIsBeyond, CoveredFrame DEF StoresGrow
  <1>4. FlusherInv' /\ JanitorInv' /\ ReplayInv'
    BY <1>1 DEF FlusherInv, JanitorInv, ReplayInv, FlIdle, JanIdle
  <1>5. StoredInv'
    <2> SUFFICES ASSUME NEW a \in Appender, pc'[a] = "acked", a \notin shadowed'
                 PROVE  Stored(a)'
      BY <1>1 DEF StoredInv
    <2>1. pc[a] = "acked" /\ Stored(a)
      BY <1>1 DEF IInv, StoredInv
    <2>2. CASE a \in parquet \/ a \in early_ack
      BY <2>2 DEF Stored
    <2>3. CASE \E s \in DOMAIN segs : \E i \in ReadablePos(segs[s].data) :
                  segs[s].data[i] = RecordOf(a) /\ i <= segs[s].synced
      <3>1. PICK s \in DOMAIN segs : \E i \in ReadablePos(segs[s].data) :
                  segs[s].data[i] = RecordOf(a) /\ i <= segs[s].synced
        BY <2>3
      <3>2. PICK i \in ReadablePos(segs[s].data) :
                  segs[s].data[i] = RecordOf(a) /\ i <= segs[s].synced
        BY <3>1
      <3>3. /\ i \in ReadablePos(segs'[s].data)
            /\ segs'[s].data[i] = segs[s].data[i]
            /\ i <= segs'[s].synced
        BY <3>2 DEF FileKeepsSynced
      <3>4. RecordOf(a)' = RecordOf(a)
        BY DEF RecordOf
      <3> QED
        BY <3>2, <3>3, <3>4 DEF Stored
    <2> QED
      BY <2>1, <2>2, <2>3 DEF Stored
  <1> QED
    BY <1>2, <1>3, <1>4, <1>5 DEF IInv

LEMMA KeptIsSynced ==
    ASSUME SegsKept
    PROVE  \A s \in DOMAIN segs : FileKeepsSynced(segs[s], segs'[s])
  BY DEF SegsKept, FileKeeps, FileKeepsSynced

(* A crash, of the process or of the machine, preserves the invariant. *)
LEMMA InvCrash ==
    ASSUME IInv, Crash \/ PowerLoss
    PROVE  IInv'
  <1>t. TypeOK' /\ SyncedInv
    BY TypeCrash DEF IInv
  <1>1. /\ UNCHANGED <<checkpoint, off, shadowed, early_ack, parquet>>
        /\ ProcessDies
    BY DEF Crash, PowerLoss
  <1>2. CASE Crash /\ segs' = segs
    BY <1>t, <1>1, <1>2, SegsUnchanged, KeptIsSynced, DownStep
  <1>3. CASE Crash /\ segs' # segs
    <2>1. segs' = Appended(writer.id, Torn) /\ \E a \in Appender : pc[a] = "write"
      BY <1>3 DEF Crash
    <2>2. status = "up"
      BY <2>1 DEF IInv, StatusInv
    <2>3. Torn \in Chunk /\ Torn \notin Record
      BY ConstantsAssumption DEF Chunk
    <2>4. SegsKept /\ SegsNoNew /\ SyncedInv' /\ DOMAIN segs' = DOMAIN segs
      BY <2>1, <2>2, <2>3, SegsAppend
    <2> QED
      BY <1>t, <1>1, <2>4, KeptIsSynced, DownStep
  <1>4. CASE PowerLoss
    BY <1>t, <1>1, <1>4, SegsPower, DownStep
  <1> QED
    BY <1>2, <1>3, <1>4

(* Wal::open leaves a writable last segment and loses nothing. *)
LEMMA OpenFiles ==
    ASSUME IInv, TypeOK', OpenFresh \/ OpenRecover
    PROVE  /\ SegsKept /\ SegsNoNew /\ SyncedInv'
           /\ CanOpen(writer.id)'
           /\ checkpoint.seg <= writer'.id
           /\ \A s \in DOMAIN segs' : s <= writer'.id
  <1>t. DOMAIN segs \subseteq Nat /\ checkpoint.seg \in Nat
    BY OrderTypes DEF IInv
  <1>c. checkpoint = NoCheckpoint => checkpoint.seg = 0
    BY DEF NoCheckpoint
  <1>1. CASE OpenFresh
    <2>1. /\ DOMAIN segs = {} /\ DOMAIN segs' = {0} /\ writer'.id = 0
          /\ segs'[0].data = <<Header>> /\ segs'[0].synced = 0
      BY <1>1 DEF OpenFresh, Created
    <2>2. <<Header>> \in Seq(Chunk) /\ Len(<<Header>>) = 1 /\ <<Header>> # <<>>
      BY DEF Chunk
    <2>3. segs'[0].data \in Seq(Chunk) /\ Len(segs'[0].data) <= 1
          /\ segs'[0].synced <= Len(segs'[0].data)
      BY <2>1, <2>2
    <2>4. Readable(segs'[0].data) = {}
      BY <2>3, ShortFile
    <2>5. SegsKept /\ SegsNoNew /\ SyncedInv'
      BY <2>1, <2>3, <2>4 DEF SegsKept, SegsNoNew, SyncedInv
    <2>6. checkpoint.seg = 0
      BY <1>c, <2>1 DEF IInv, CheckpointInv
    <2> QED
      BY <2>1, <2>2, <2>5, <2>6 DEF CanOpen
  <1>2. CASE OpenRecover
    <2>1. PICK last \in DOMAIN segs :
            /\ IsMax(last, DOMAIN segs)
            /\ \E n \in 1..Len(segs[last].data) :
                /\ IsReadablePrefix(segs[last].data, n)
                /\ \/ /\ segs' = [s \in DOMAIN segs \cup {last + 1} |->
                                CASE s = last + 1 -> [data |-> <<Header>>, synced |-> 0]
                                  [] s = last     -> Truncated(segs[last], n)
                                  [] OTHER        -> segs[s]]
                      /\ writer' = [id |-> last + 1, size |-> 0]
                   \/ /\ segs' = [segs EXCEPT ![last] = Truncated(@, n)]
                      /\ writer' = [id |-> last, size |-> n - 1]
      BY <1>2 DEF OpenRecover
    <2>2. PICK n \in 1..Len(segs[last].data) :
                /\ IsReadablePrefix(segs[last].data, n)
                /\ \/ /\ segs' = [s \in DOMAIN segs \cup {last + 1} |->
                                CASE s = last + 1 -> [data |-> <<Header>>, synced |-> 0]
                                  [] s = last     -> Truncated(segs[last], n)
                                  [] OTHER        -> segs[s]]
                      /\ writer' = [id |-> last + 1, size |-> 0]
                   \/ /\ segs' = [segs EXCEPT ![last] = Truncated(@, n)]
                      /\ writer' = [id |-> last, size |-> n - 1]
      BY <2>1
    <2>3. last \in Nat /\ last + 1 \in Nat /\ last + 1 # last /\ last + 1 \notin DOMAIN segs
          /\ \A s \in DOMAIN segs : s <= last
      BY <1>t, <2>1 DEF IsMax
    <2>4. /\ DOMAIN segs \subseteq DOMAIN segs'
          /\ DOMAIN segs' \subseteq DOMAIN segs \cup {last + 1}
          /\ segs'[last] = Truncated(segs[last], n)
          /\ \A s \in DOMAIN segs : s # last => segs'[s] = segs[s]
          /\ \A s \in DOMAIN segs' :
                s \in DOMAIN segs \/ segs'[s] = [data |-> <<Header>>, synced |-> 0]
          /\ \/ writer'.id = last /\ DOMAIN segs' = DOMAIN segs
             \/ writer'.id = last + 1 /\ last + 1 \in DOMAIN segs'
      <3>1. CASE /\ segs' = [segs EXCEPT ![last] = Truncated(@, n)]
                 /\ writer' = [id |-> last, size |-> n - 1]
        BY <3>1, <2>3 DEF IInv, TypeOK
      <3>2. CASE /\ segs' = [s \in DOMAIN segs \cup {last + 1} |->
                                CASE s = last + 1 -> [data |-> <<Header>>, synced |-> 0]
                                  [] s = last     -> Truncated(segs[last], n)
                                  [] OTHER        -> segs[s]]
                 /\ writer' = [id |-> last + 1, size |-> 0]
        BY <3>2, <2>3
      <3> QED
        BY <2>2, <3>1, <3>2
    <2>5. /\ SegsKept /\ SegsNoNew /\ SyncedInv'
          /\ segs'[last].data # <<>>
          /\ \A s \in DOMAIN segs' : s \in DOMAIN segs \/ segs'[s].data # <<>>
      BY <2>2, <2>4, SegsTruncate
    <2>6. CanOpen(writer.id)'
      BY <2>3, <2>4, <2>5 DEF CanOpen
    <2>7. checkpoint.seg <= last
      BY <1>t, <1>c, <2>3 DEF IInv, CheckpointInv
    <2>8. checkpoint.seg <= writer'.id /\ \A s \in DOMAIN segs' : s <= writer'.id
      BY <1>t, <2>3, <2>4, <2>7
    <2> QED
      BY <2>5, <2>6, <2>8
  <1> QED
    BY <1>1, <1>2

LEMMA InvOpen ==
    ASSUME IInv, TypeOK', OpenFresh \/ OpenRecover
    PROVE  IInv'
  <1>0. status = "down"
    BY DEF OpenFresh, OpenRecover
  <1>1. /\ fl = FlIdle /\ jan = JanIdle /\ rp = RpIdle
        /\ \A a \in Appender : pc[a] \in {"idle", "acked", "failed"}
    BY <1>0 DEF IInv, StatusInv
  <1>2. /\ UNCHANGED <<checkpoint, lock, pc, off, fl, jan, rp, shadowed, early_ack, parquet>>
        /\ status' = "replay"
    BY DEF OpenFresh, OpenRecover, tasks, stored, history
  <1>3. /\ SegsKept /\ SegsNoNew /\ SyncedInv'
        /\ CanOpen(writer.id)'
        /\ checkpoint.seg <= writer'.id
        /\ \A s \in DOMAIN segs' : s <= writer'.id
    BY OpenFiles
  <1>t. writer'.id \in Nat /\ DOMAIN segs' \subseteq Nat
    BY DEF TypeOK, SegmentWriter
  <1>4. StoresGrow /\ KeptFromCheckpoint /\ NewAreBeyond
    BY <1>2, <1>3, KeptIsFrom, NoNewIsBeyond DEF StoresGrow
  <1>5. LockInv' /\ StatusInv'
    BY <1>1, <1>2 DEF LockInv, StatusInv
  <1>6. WriterInv'
    BY <1>t, <1>1, <1>2, <1>3 DEF WriterInv
  <1>7. CoveredInv' /\ CheckpointInv'
    BY <1>2, <1>4, CoveredFrame, CheckpointFrame
  <1>8. FlusherInv' /\ JanitorInv'
    BY <1>1, <1>2 DEF FlusherInv, JanitorInv, FlIdle, JanIdle
  <1>9. ReplayInv'
    BY <1>t, <1>1, <1>2, <1>3 DEF ReplayInv, RpIdle
  <1>10. StoredInv'
    BY <1>2, <1>4, StoredFrame DEF StoredInv
  <1> QED
    BY <1>3, <1>5, <1>6, <1>7, <1>8, <1>9, <1>10 DEF IInv

(* Replay visits the segments in order and delivers each one. *)
LEMMA InvReplaySegment ==
    ASSUME WriteBufferEnabled = FALSE, IInv, TypeOK', ReplaySegment
    PROVE  IInv'
  <1>0. /\ status = "replay" /\ status' = "replay"
        /\ UNCHANGED <<checkpoint, writer, lock, pc, off, fl, jan, shadowed, early_ack>>
    BY DEF ReplaySegment, history
  <1>1. /\ fl = FlIdle /\ jan = JanIdle
        /\ \A a \in Appender : pc[a] \in {"idle", "acked", "failed"}
    BY <1>0 DEF IInv, StatusInv
  <1>t. /\ DOMAIN segs \subseteq Nat
        /\ checkpoint.seg \in Nat /\ checkpoint.off \in Nat \cup {-1}
        /\ writer.id \in Nat /\ rp.seg \in Nat \cup {-1}
        /\ rp.last.seg \in Nat
    BY OrderTypes DEF IInv
  <1>2. PICK s \in ReplayTodo :
        /\ IsMin(s, ReplayTodo)
        /\ CanOpen(s)
        /\ \E n \in 1..Len(segs[s].data) :
            /\ IsReadablePrefix(segs[s].data, n)
            /\ segs' = [segs EXCEPT ![s] = Truncated(@, n)]
        /\ Deliver(Apps(Unflushed(s, checkpoint.seg, checkpoint.off)))
        /\ \/ rp' = [rp EXCEPT !.seg = s]
           \/ \E m \in {r.off : r \in Unflushed(s, checkpoint.seg, checkpoint.off)} :
                 rp' = [seg |-> s, last |-> [seg |-> s, off |-> m]]
    <2>1. PICK s \in ReplayTodo :
          /\ IsMin(s, ReplayTodo)
          /\ CanOpen(s)
          /\ \E n \in 1..Len(segs[s].data) :
              /\ IsReadablePrefix(segs[s].data, n)
              /\ segs' = [segs EXCEPT ![s] = Truncated(@, n)]
          /\ Deliver(Apps(Unflushed(s, checkpoint.seg, checkpoint.off)))
          /\ \/ rp' = [rp EXCEPT !.seg = s]
             \/ \E k \in 1..Len(segs[s].data) :
                 \E m \in {r.off : r \in {q \in Unflushed(s, checkpoint.seg, checkpoint.off) :
                             \E i \in ReadablePos(segs[s].data) : i > k /\ segs[s].data[i] = q}} :
                   rp' = [seg |-> s, last |-> [seg |-> s, off |-> m]]
      BY Zenon DEF ReplaySegment
    <2> QED
      BY <2>1
  <1>3. PICK n \in 1..Len(segs[s].data) :
            /\ IsReadablePrefix(segs[s].data, n)
            /\ segs' = [segs EXCEPT ![s] = Truncated(@, n)]
    BY <1>2
  <1>4. /\ s \in DOMAIN segs /\ checkpoint.seg <= s /\ rp.seg < s
        /\ \A u \in DOMAIN segs : checkpoint.seg <= u /\ rp.seg < u => s <= u
    BY <1>2 DEF ReplayTodo, IsMin
  <1>5. /\ DOMAIN segs' = DOMAIN segs
        /\ segs'[s] = Truncated(segs[s], n)
        /\ \A u \in DOMAIN segs : u # s => segs'[u] = segs[u]
    BY <1>3, <1>4 DEF IInv, TypeOK
  <1>6. SegsKept /\ SegsNoNew /\ SyncedInv' /\ segs'[s].data # <<>>
    BY <1>3, <1>4, <1>5, SegsTruncate
  <1>7. parquet' = parquet \cup Apps(Unflushed(s, checkpoint.seg, checkpoint.off))
    BY <1>2 DEF Deliver
  <1>8. StoresGrow /\ KeptFromCheckpoint /\ NewAreBeyond
    BY <1>0, <1>6, <1>7, KeptIsFrom, NoNewIsBeyond DEF StoresGrow
  <1>9. LockInv' /\ StatusInv'
    BY <1>0, <1>1 DEF LockInv, StatusInv
  <1>10. WriterInv'
    BY <1>0, <1>1, <1>5, <1>6, <1>t DEF WriterInv, IInv, CanOpen, ReplayInv
  <1>11. CoveredInv' /\ CheckpointInv'
    BY <1>0, <1>8, CoveredFrame, CheckpointFrame
  <1>12. FlusherInv' /\ JanitorInv'
    BY <1>0, <1>1 DEF FlusherInv, JanitorInv, FlIdle, JanIdle
  <1>13. StoredInv'
    BY <1>0, <1>8, StoredFrame DEF StoredInv
  <1>14. ASSUME NEW u \in DOMAIN segs, u <= s, NEW r \in Readable(segs[u].data)
         PROVE  r.app \in shadowed' \/ r.app \in parquet'
    <2>1. CASE r \in Unflushed(u, checkpoint.seg, checkpoint.off) /\ u = s
      BY <1>7, <2>1 DEF Apps
    <2>2. CASE r \notin Unflushed(u, checkpoint.seg, checkpoint.off)
      <3>1. u = checkpoint.seg /\ r \in UpTo(u, checkpoint.off)
        BY <1>14, <2>2 DEF Unflushed, UpTo
      <3> QED
        BY <1>8, <3>1 DEF IInv, CoveredInv, Delivered, StoresGrow
    <2>3. CASE u < s
      <3>1. u < checkpoint.seg \/ u <= rp.seg
        BY <1>t, <1>4, <2>3
      <3>2. Delivered(AllOf(u))
        BY <1>0, <3>1 DEF IInv, CoveredInv, ReplayInv
      <3> QED
        BY <1>8, <1>14, <3>2 DEF Delivered, AllOf, StoresGrow
    <2> QED
      BY <1>t, <1>4, <1>14, <2>1, <2>2, <2>3
  <1>15. rp'.seg = s
    BY <1>2 DEF IInv, TypeOK, ReplayState
  <1>16. \A u \in DOMAIN segs' : u <= rp'.seg => Delivered(AllOf(u))'
    <2> SUFFICES ASSUME NEW u \in DOMAIN segs', u <= s
                 PROVE  \A r \in Readable(segs'[u].data) :
                            r.app \in shadowed' \/ r.app \in parquet'
      BY <1>15 DEF Delivered, AllOf
    <2> QED
      BY <1>5, <1>6, <1>14 DEF SegsNoNew
  <1>17. /\ \A u \in DOMAIN segs : u <= writer.id
         /\ rp.last # NoCheckpoint =>
              /\ rp.last.seg \in DOMAIN segs /\ rp.last.seg <= rp.seg
              /\ \/ checkpoint.seg < rp.last.seg
                 \/ checkpoint.seg = rp.last.seg /\ checkpoint.off < rp.last.off
    BY <1>0 DEF IInv, ReplayInv
  <1>18. rp'.last # NoCheckpoint =>
            /\ rp'.last.seg \in DOMAIN segs /\ rp'.last.seg <= s
            /\ \/ checkpoint.seg < rp'.last.seg
               \/ checkpoint.seg = rp'.last.seg /\ checkpoint.off < rp'.last.off
    <2>1. CASE rp' = [rp EXCEPT !.seg = s]
      <3>1. rp'.last = rp.last
        BY <2>1 DEF IInv, TypeOK, ReplayState
      <3> QED
        BY <1>t, <1>4, <1>17, <3>1
    <2>2. ASSUME NEW m \in {r.off : r \in Unflushed(s, checkpoint.seg, checkpoint.off)},
                 rp' = [seg |-> s, last |-> [seg |-> s, off |-> m]]
          PROVE  /\ rp'.last.seg \in DOMAIN segs /\ rp'.last.seg <= s
                 /\ \/ checkpoint.seg < rp'.last.seg
                    \/ checkpoint.seg = rp'.last.seg /\ checkpoint.off < rp'.last.off
      <3>1. PICK r \in Unflushed(s, checkpoint.seg, checkpoint.off) : m = r.off
        BY <2>2
      <3>2. r \in Readable(segs[s].data) /\ ~(s = checkpoint.seg /\ r.off <= checkpoint.off)
        BY DEF Unflushed
      <3>3. r.off \in Nat
        BY <1>4, <3>2, RecordTypes DEF IInv
      <3>4. rp'.last.seg = s /\ rp'.last.off = r.off
        BY <2>2, <3>1
      <3> QED
        BY <1>t, <1>4, <3>2, <3>3, <3>4
    <2> QED
      BY <1>2, <2>1, <2>2
  <1>19. ReplayInv'
    BY <1>0, <1>4, <1>5, <1>15, <1>16, <1>17, <1>18 DEF ReplayInv
  <1> QED
    BY <1>6, <1>9, <1>10, <1>11, <1>12, <1>13, <1>19 DEF IInv

(* The end of replay moves the checkpoint over delivered segments. *)
LEMMA InvReplayDone ==
    ASSUME IInv, TypeOK', ReplayDone
    PROVE  /\ IInv'
           /\ \/ checkpoint' = checkpoint
              \/ checkpoint'.seg > checkpoint.seg
              \/ checkpoint'.seg = checkpoint.seg /\ checkpoint'.off > checkpoint.off
  <1>0. /\ status = "replay" /\ status' = "up" /\ rp' = RpIdle
        /\ UNCHANGED <<segs, writer, lock, pc, off, fl, jan, parquet, shadowed, early_ack>>
        /\ checkpoint' = ReplayCheckpoint
    BY DEF ReplayDone, stored, history
  <1>1. /\ fl = FlIdle /\ jan = JanIdle
        /\ \A a \in Appender : pc[a] \in {"idle", "acked", "failed"}
    BY <1>0 DEF IInv, StatusInv
  <1>t. /\ DOMAIN segs \subseteq Nat
        /\ checkpoint.seg \in Nat /\ checkpoint.off \in Nat \cup {-1}
        /\ writer.id \in Nat /\ rp.seg \in Nat \cup {-1}
        /\ rp.last.seg \in Nat /\ rp.last.off \in Nat \cup {-1}
    BY OrderTypes DEF IInv
  <1>2. /\ \A s \in DOMAIN segs : s <= rp.seg => Delivered(AllOf(s))
        /\ rp.seg <= writer.id
        /\ rp.last # NoCheckpoint =>
            /\ rp.last.seg \in DOMAIN segs
            /\ rp.last.seg <= rp.seg
            /\ \/ checkpoint.seg < rp.last.seg
               \/ checkpoint.seg = rp.last.seg /\ checkpoint.off < rp.last.off
    BY <1>0 DEF IInv, ReplayInv
  <1>3. \/ checkpoint' = checkpoint
        \/ /\ checkpoint' = rp.last
           /\ rp.last # NoCheckpoint
    BY <1>0 DEF ReplayCheckpoint
  <1>4. \/ checkpoint' = checkpoint
        \/ checkpoint'.seg > checkpoint.seg
        \/ checkpoint'.seg = checkpoint.seg /\ checkpoint'.off > checkpoint.off
    BY <1>t, <1>2, <1>3
  <1>5. CoveredInv'
    <2>1. CASE checkpoint' = checkpoint
      BY <1>0, <2>1 DEF IInv, CoveredInv, Delivered, AllOf, UpTo
    <2>2. CASE checkpoint' = rp.last /\ rp.last # NoCheckpoint
      <3>1. \A s \in DOMAIN segs : s <= rp.last.seg => Delivered(AllOf(s))
        BY <1>t, <1>2, <2>2
      <3>2. \A s \in DOMAIN segs : s < rp.last.seg \/ s = rp.last.seg => s <= rp.last.seg
        BY <1>t
      <3> QED
        BY <1>0, <2>2, <3>1, <3>2 DEF CoveredInv, Delivered, AllOf, UpTo
    <2> QED
      BY <1>3, <2>1, <2>2
  <1>6. checkpoint'.seg <= writer.id /\ CheckpointInv'
    BY <1>t, <1>0, <1>2, <1>3 DEF IInv, WriterInv, CheckpointInv
  <1>7. LockInv' /\ StatusInv' /\ SyncedInv'
    BY <1>0, <1>1 DEF LockInv, StatusInv, IInv, SyncedInv
  <1>8. WriterInv'
    BY <1>0, <1>6 DEF IInv, WriterInv, CanOpen
  <1>9. FlusherInv' /\ JanitorInv' /\ ReplayInv'
    BY <1>0, <1>1 DEF FlusherInv, JanitorInv, FlIdle, JanIdle, ReplayInv
  <1>10. StoredInv'
    <2>1. StoresGrow /\ KeptFromCheckpoint
      BY <1>0, SegsUnchanged, KeptIsFrom DEF StoresGrow
    <2> QED
      BY <1>0, <2>1, StoredFrame DEF StoredInv
  <1> QED
    BY <1>4, <1>5, <1>6, <1>7, <1>8, <1>9, <1>10 DEF IInv

(* A step of the starting server preserves the invariant. *)
LEMMA InvStartup ==
    ASSUME WriteBufferEnabled = FALSE, IInv, Startup
    PROVE  IInv'
  <1>t. TypeOK' /\ SyncedInv
    BY TypeStartup DEF IInv
  <1>1. CASE OpenFresh \/ OpenRecover
    BY <1>t, <1>1, InvOpen
  <1>2. CASE OpenRefused \/ Restart
    <2>1. /\ UNCHANGED <<segs, checkpoint, writer, lock, pc, off, fl, jan, rp, parquet, shadowed, early_ack>>
          /\ status \in {"down", "refused"} /\ status' \in {"down", "refused"}
      BY <1>2 DEF OpenRefused, Restart, tasks, stored, history
    <2>2. fl = FlIdle /\ jan = JanIdle
      BY <2>1 DEF IInv, StatusInv
    <2>3. LockInv' /\ StatusInv' /\ WriterInv' /\ SyncedInv' /\ CheckpointInv'
      BY <2>1 DEF IInv, LockInv, StatusInv, WriterInv, SyncedInv, CheckpointInv, CanOpen
    <2>4. CoveredInv' /\ StoredInv'
      <3>1. StoresGrow /\ KeptFromCheckpoint /\ NewAreBeyond
        BY <2>1, SegsUnchanged, KeptIsFrom, NoNewIsBeyond DEF StoresGrow
      <3> QED
        BY <1>t, <2>1, <3>1, CoveredFrame, StoredFrame DEF StoredInv
    <2>5. FlusherInv' /\ JanitorInv' /\ ReplayInv'
      BY <2>1, <2>2 DEF FlusherInv, JanitorInv, ReplayInv, FlIdle, JanIdle
    <2> QED
      BY <1>t, <2>3, <2>4, <2>5 DEF IInv
  <1>3. CASE ReplaySegment
    BY <1>t, <1>3, InvReplaySegment
  <1>4. CASE ReplayDone
    BY <1>t, <1>4, InvReplayDone
  <1>5. CASE ReplayFails
    <2>1. /\ ProcessDies /\ segs' = segs
          /\ UNCHANGED <<checkpoint, off, shadowed, early_ack>> /\ parquet \subseteq parquet'
      BY <1>5 DEF ReplayFails, history
    <2> QED
      BY <1>t, <2>1, SegsUnchanged, KeptIsSynced, DownStep
  <1> QED
    BY <1>1, <1>2, <1>3, <1>4, <1>5 DEF Startup

----------------------------------------------------------------------------
(* The invariant and its consequences *)

LEMMA InvInit == Init => IInv
  <1> SUFFICES ASSUME Init
               PROVE  IInv
    OBVIOUS
  <1>1. TypeOK
    BY TypeInit
  <1>2. LockInv /\ StatusInv /\ WriterInv /\ SyncedInv /\ CheckpointInv /\ CoveredInv
    BY DEF Init, LockInv, StatusInv, WriterInv, SyncedInv, CheckpointInv, CoveredInv
  <1>3. FlusherInv /\ JanitorInv /\ ReplayInv /\ StoredInv
    BY DEF Init, FlusherInv, JanitorInv, ReplayInv, StoredInv, FlIdle, JanIdle
  <1> QED
    BY <1>1, <1>2, <1>3 DEF IInv

LEMMA InvNext ==
    ASSUME WriteBufferEnabled = FALSE
    PROVE  IInv /\ [Next]_vars => IInv'
  <1> SUFFICES ASSUME IInv, [Next]_vars
               PROVE  IInv'
    OBVIOUS
  <1>t. TypeOK'
    BY TypeNext DEF IInv
  <1>1. CASE UNCHANGED vars
    <2>1. /\ UNCHANGED <<segs, checkpoint, status, writer, lock, off, fl, jan, rp, shadowed, pc, parquet, early_ack>>
      BY <1>1 DEF vars, tasks, stored, history
    <2>2. SyncedInv' /\ \A s \in DOMAIN segs : segs[s].synced \in Nat
      BY <2>1, SegsUnchanged, SegType DEF IInv
    <2> QED
      BY <1>t, <2>1, <2>2, QuietStep
  <1>2. CASE Next
    BY <1>t, <1>2, InvHandler, InvGroupCommit, InvFlusher, InvJanitor, InvBufferFlush,
       InvStartup, InvCrash DEF Next
  <1> QED
    BY <1>1, <1>2

(* Checkpoint, flusher, janitor, replay and files agree in every reachable *)
(* state: no interleaving, I/O error, crash or power loss breaks IInv.     *)
THEOREM Invariant ==
    ASSUME WriteBufferEnabled = FALSE
    PROVE  Spec => []IInv
  <1>1. IInv /\ [Next]_vars => IInv'
    BY InvNext
  <1> QED
    BY <1>1, InvInit, PTL DEF Spec

(* NoUnexplainedLoss from the invariant: what is readable and not covered  *)
(* by the checkpoint is recoverable, what it covers was delivered.         *)
LEMMA LossExplained == IInv => NoUnexplainedLoss
  <1> SUFFICES ASSUME IInv, NEW a \in Appender, pc[a] = "acked",
                      a \notin parquet, a \notin shadowed, a \notin early_ack
               PROVE  Recoverable(a)
    BY DEF NoUnexplainedLoss
  <1>1. Stored(a)
    BY DEF IInv, StoredInv
  <1>2. PICK s \in DOMAIN segs : \E i \in ReadablePos(segs[s].data) : segs[s].data[i] = RecordOf(a)
    BY <1>1 DEF Stored
  <1>3. RecordOf(a) \in Readable(segs[s].data) /\ RecordOf(a).app = a
    BY <1>2 DEF Readable, RecordOf
  <1>t. s \in Nat /\ checkpoint.seg \in Nat
    BY OrderTypes DEF IInv
  <1>4. ~(s < checkpoint.seg)
    BY <1>3 DEF IInv, CoveredInv, Delivered, AllOf
  <1>5. ~(s = checkpoint.seg /\ RecordOf(a).off <= checkpoint.off)
    BY <1>3 DEF IInv, CoveredInv, Delivered, UpTo
  <1>6. RecordOf(a) \in Unflushed(s, checkpoint.seg, checkpoint.off)
    BY <1>3, <1>5 DEF Unflushed
  <1> QED
    BY <1>t, <1>4, <1>6 DEF Recoverable

(* With a sink that writes to Parquet before it returns, an acknowledged   *)
(* record is lost only if it was shadowed or acknowledged before its       *)
(* fsync, for any number of handlers, segments, crashes and power losses.  *)
THEOREM NoLoss ==
    ASSUME WriteBufferEnabled = FALSE
    PROVE  Spec => []NoUnexplainedLoss
  BY Invariant, LossExplained, PTL

LEMMA KeptSegments == IInv => NeededSegmentsKept
  BY DEF IInv, NeededSegmentsKept, WriterInv, CheckpointInv, FlusherInv, PassList, FlushTodo

(* The janitor never removes the active segment, the checkpoint's segment  *)
(* or one the flusher is about to read.                                    *)
THEOREM SegmentsKept ==
    ASSUME WriteBufferEnabled = FALSE
    PROVE  Spec => []NeededSegmentsKept
  BY Invariant, KeptSegments, PTL

LEMMA CheckpointStep ==
    ASSUME IInv, [Next]_vars
    PROVE  \/ checkpoint' = checkpoint
           \/ checkpoint'.seg > checkpoint.seg
           \/ checkpoint'.seg = checkpoint.seg /\ checkpoint'.off > checkpoint.off
  <1>t. TypeOK'
    BY TypeNext DEF IInv
  <1>1. CASE FlushSave
    BY <1>t, <1>1, FlusherSave
  <1>2. CASE ReplayDone
    BY <1>t, <1>2, InvReplayDone
  <1>3. CASE ~FlushSave /\ ~ReplayDone
    <2>1. ASSUME NEW a \in Appender, FetchOffset(a) \/ Handler(a)
          PROVE  checkpoint' = checkpoint
      BY <2>1, HandlerFrame
    <2>2. GroupCommit \/ Janitor \/ BufferFlush \/ Crash \/ PowerLoss => checkpoint' = checkpoint
      BY DEF GroupCommit, GcReadLink, GcFsync, GcFsyncFails, GcDrain,
             Janitor, JanitorList, JanitorActive, JanitorDelete, BufferFlush, Crash, PowerLoss
    <2>3. Flusher => checkpoint' = checkpoint
      BY <1>3 DEF Flusher, FlushList, FlushActive, FlushRead, FlushEnd, FlushRecords,
             FlushRecordsFails, FlushSaveFails
    <2>4. Startup => checkpoint' = checkpoint
      BY <1>3 DEF Startup, OpenFresh, OpenRecover, OpenRefused, Restart,
             ReplaySegment, ReplayFails
    <2>5. UNCHANGED vars => checkpoint' = checkpoint
      BY DEF vars
    <2> QED
      BY <2>1, <2>2, <2>3, <2>4, <2>5 DEF Next
  <1> QED
    BY <1>1, <1>2, <1>3

(* Neither a flusher pass, however late it saves, nor a replay moves the   *)
(* checkpoint backwards.                                                   *)
THEOREM CheckpointMonotone ==
    ASSUME WriteBufferEnabled = FALSE
    PROVE  Spec => CheckpointAdvances
  <1>1. IInv /\ [Next]_vars =>
            [\/ checkpoint'.seg > checkpoint.seg
             \/ checkpoint'.seg = checkpoint.seg /\ checkpoint'.off > checkpoint.off]_checkpoint
    BY CheckpointStep
  <1> QED
    BY <1>1, Invariant, PTL DEF Spec, CheckpointAdvances
----------------------------------------------------------------------------
(* Offsets within a segment *)

(* Every record that can be read back after the step could be before, at   *)
(* the same place.                                                         *)
SegsShrink ==
    \A s \in DOMAIN segs' : \A i \in ReadablePos(segs'[s].data) :
        /\ s \in DOMAIN segs
        /\ i \in ReadablePos(segs[s].data)
        /\ segs'[s].data[i] = segs[s].data[i]

(* Steps that add no record, assign no offset and do not move the writer   *)
(* to another segment keep OffsetsInv.                                     *)
LEMMA OffsetsFrame ==
    ASSUME TypeOK, TypeOK', OffsetsInv, SegsShrink,
           off' = off, Unwritten' \subseteq Unwritten,
           status' \in {"replay", "up"} =>
                /\ status \in {"replay", "up"}
                /\ writer'.id = writer.id
                /\ offset_counter' = offset_counter,
           status' # "up" => Unwritten' = {},
           Unwritten' # {} => offset_counter' = offset_counter
    PROVE  OffsetsInv'
  <1>1. SegmentOffsetsUnique'
    BY DEF OffsetsInv, SegmentOffsetsUnique, SegsShrink
  <1>2. /\ \A a \in Unwritten' : off'[a] < offset_counter'
        /\ \A a, b \in Unwritten' : off'[a] = off'[b] => a = b
    BY DEF OffsetsInv
  <1>3. ASSUME status' \in {"replay", "up"}, NEW s \in DOMAIN segs', NEW i \in ReadablePos(segs'[s].data)
        PROVE  /\ s <= writer'.id
               /\ s = writer'.id =>
                    /\ segs'[s].data[i].off < offset_counter'
                    /\ \A a \in Unwritten' : segs'[s].data[i].off # off'[a]
    <2>1. /\ s \in DOMAIN segs
          /\ i \in ReadablePos(segs[s].data)
          /\ segs'[s].data[i] = segs[s].data[i]
      BY DEF SegsShrink
    <2>2. /\ s <= writer.id
          /\ s = writer.id =>
                /\ segs[s].data[i].off < offset_counter
                /\ \A a \in Unwritten : segs[s].data[i].off # off[a]
      BY <1>3, <2>1 DEF OffsetsInv
    <2> QED
      BY <1>3, <2>1, <2>2
  <1> QED
    BY <1>1, <1>2, <1>3 DEF OffsetsInv

(* Which files shrink. *)
LEMMA ShrinkSame ==
    ASSUME segs' = segs
    PROVE  SegsShrink
  BY DEF SegsShrink

LEMMA ShrinkData ==
    ASSUME \A s \in DOMAIN segs' :
              \/ s \in DOMAIN segs /\ segs'[s].data = segs[s].data
              \/ segs'[s].data \in Seq(Chunk) /\ Len(segs'[s].data) <= 1
    PROVE  SegsShrink
  BY ShortFile DEF SegsShrink

LEMMA ShrinkTruncated ==
    ASSUME NEW f \in SegmentFile, NEW n \in 1..Len(f.data), NEW i \in ReadablePos(Truncated(f, n).data)
    PROVE  i \in ReadablePos(f.data) /\ Truncated(f, n).data[i] = f.data[i]
  <1>0. f.data \in Seq(Chunk)
    BY DEF SegmentFile
  <1>1. CASE n = Len(f.data)
    BY <1>1 DEF Truncated
  <1>2. CASE n # Len(f.data)
    <2>1. Truncated(f, n).data = SubSeq(f.data, 1, n) /\ n \in 0..Len(f.data)
      BY <1>0, <1>2 DEF Truncated
    <2> DEFINE h == Truncated(f, n).data
    <2>2. IsCut(f.data, n, h) /\ i \in ReadablePos(h)
      BY <1>0, <2>1, SubSeqCut
    <2> HIDE DEF h
    <2>3. i \in ReadablePos(f.data) /\ h[i] = f.data[i]
      BY <1>0, <2>1, <2>2, ReadableCut
    <2> QED
      BY <2>3 DEF h
  <1> QED
    BY <1>1, <1>2

LEMMA ShrinkTorn ==
    ASSUME TypeOK, segs' = Appended(writer.id, Torn)
    PROVE  SegsShrink
  <1>1. DOMAIN segs' = DOMAIN segs
    BY DEF Appended
  <1>2. ASSUME NEW s \in DOMAIN segs, NEW i \in ReadablePos(segs'[s].data)
        PROVE  i \in ReadablePos(segs[s].data) /\ segs'[s].data[i] = segs[s].data[i]
    <2>1. CASE s # writer.id
      BY <1>2, <2>1 DEF Appended
    <2>2. CASE s = writer.id
      <3>1. segs[s].data \in Seq(Chunk) /\ Torn \in Chunk /\ Torn \notin Record
        BY ConstantsAssumption DEF TypeOK, SegmentFile, Chunk
      <3>2. segs'[s].data = Append(segs[s].data, Torn)
        BY <2>2 DEF Appended, TypeOK, SegmentFile
      <3>3. IsExtended(segs[s].data, Torn, segs'[s].data)
        BY <3>1, <3>2, AppendExtended
      <3> QED
        BY <1>2, <3>1, <3>3, ReadableAppend
    <2> QED
      BY <2>1, <2>2
  <1> QED
    BY <1>1, <1>2 DEF SegsShrink

LEMMA ShrinkPower ==
    ASSUME TypeOK, PowerLoss
    PROVE  SegsShrink
  <1>1. /\ DOMAIN segs' = DOMAIN segs
        /\ \A s \in DOMAIN segs : segs'[s] \in PowerCut(segs[s])
    BY DEF PowerLoss
  <1>2. ASSUME NEW s \in DOMAIN segs, NEW i \in ReadablePos(segs'[s].data)
        PROVE  i \in ReadablePos(segs[s].data) /\ segs'[s].data[i] = segs[s].data[i]
    <2>0. segs[s].data \in Seq(Chunk) /\ segs[s].synced \in Nat /\ Torn \in Chunk /\ Torn \notin Record
      BY ConstantsAssumption DEF TypeOK, SegmentFile, Chunk
    <2>1. \/ \E n \in segs[s].synced..Len(segs[s].data) :
                segs'[s] = [data |-> SubSeq(segs[s].data, 1, n), synced |-> n]
          \/ \E n \in segs[s].synced..(Len(segs[s].data) - 1) :
                segs'[s] = [data |-> Append(SubSeq(segs[s].data, 1, n), Torn), synced |-> n + 1]
      BY <1>1 DEF PowerCut
    <2>2. CASE \E n \in segs[s].synced..Len(segs[s].data) :
                segs'[s] = [data |-> SubSeq(segs[s].data, 1, n), synced |-> n]
      <3>1. PICK n \in 0..Len(segs[s].data) : segs'[s].data = SubSeq(segs[s].data, 1, n)
        BY <2>0, <2>2
      <3>2. IsCut(segs[s].data, n, segs'[s].data)
        BY <2>0, <3>1, SubSeqCut
      <3> QED
        BY <1>2, <2>0, <3>2, ReadableCut
    <2>3. CASE \E n \in segs[s].synced..(Len(segs[s].data) - 1) :
                segs'[s] = [data |-> Append(SubSeq(segs[s].data, 1, n), Torn), synced |-> n + 1]
      <3>1. PICK n \in 0..Len(segs[s].data) : segs'[s].data = Append(SubSeq(segs[s].data, 1, n), Torn)
        BY <2>0, <2>3
      <3> DEFINE q == SubSeq(segs[s].data, 1, n)
      <3>2. IsCut(segs[s].data, n, q)
        BY <2>0, SubSeqCut
      <3>3. q \in Seq(Chunk)
        BY <3>2 DEF IsCut
      <3>4. IsExtended(q, Torn, segs'[s].data)
        BY <2>0, <3>1, <3>3, AppendExtended
      <3> HIDE DEF q
      <3>5. i \in ReadablePos(q) /\ segs'[s].data[i] = q[i]
        BY <1>2, <2>0, <3>3, <3>4, ReadableAppend
      <3> QED
        BY <2>0, <3>2, <3>5, ReadableCut
    <2> QED
      BY <2>1, <2>2, <2>3
  <1> QED
    BY <1>1, <1>2 DEF SegsShrink
(* Handlers: fetch_add hands out an offset nobody has; only WriteRecord    *)
(* adds a record, to the active segment, under the handler's offset.       *)
LEMMA OffsetsHandler ==
    ASSUME TypeOK, TypeOK', OffsetsInv, NEW a \in Appender, FetchOffset(a) \/ Handler(a)
    PROVE  OffsetsInv'
  <1>0. /\ pc \in [Appender -> HandlerPc] /\ off \in [Appender -> Nat]
        /\ offset_counter \in Nat /\ writer.id \in Nat /\ DOMAIN segs \subseteq Nat
        /\ writer'.id \in Nat
        /\ \A s \in DOMAIN segs : segs[s].data \in Seq(Chunk)
        /\ \A s \in DOMAIN segs : \A i \in ReadablePos(segs[s].data) : segs[s].data[i].off \in Nat
    <2>1. \A s \in DOMAIN segs : segs[s].data \in Seq(Chunk)
      BY DEF TypeOK, SegmentFile
    <2>2. \A r \in Record : r.off \in Nat
      BY DEF Record
    <2> QED
      BY <2>1, <2>2, ReadableRecords DEF TypeOK, SegmentWriter
  <1>1. CASE FetchOffset(a)
    <2>1. /\ segs' = segs /\ status' = status /\ status = "up" /\ writer' = writer
          /\ offset_counter' = offset_counter + 1
          /\ off' = [off EXCEPT ![a] = offset_counter]
          /\ Unwritten' = Unwritten \cup {a} /\ a \notin Unwritten
      BY <1>0, <1>1 DEF FetchOffset, Unwritten
    <2>2. SegmentOffsetsUnique'
      BY <2>1 DEF OffsetsInv, SegmentOffsetsUnique
    <2>3. \A b \in Unwritten' : IF b = a THEN off'[b] = offset_counter
                                ELSE b \in Unwritten /\ off'[b] = off[b] /\ off[b] < offset_counter
      BY <1>0, <2>1 DEF OffsetsInv, Unwritten
    <2>4. /\ \A b \in Unwritten' : off'[b] < offset_counter'
          /\ \A b, c \in Unwritten' : off'[b] = off'[c] => b = c
      <3>1. \A b \in Unwritten : off[b] \in Nat
        BY <1>0 DEF Unwritten
      <3>2. \A b, c \in Unwritten : off[b] = off[c] => b = c
        BY DEF OffsetsInv
      <3> QED
        BY <1>0, <2>1, <2>3, <3>1, <3>2
    <2>5. ASSUME NEW s \in DOMAIN segs, NEW i \in ReadablePos(segs[s].data)
          PROVE  /\ s <= writer.id
                 /\ s = writer.id =>
                    /\ segs[s].data[i].off < offset_counter'
                    /\ \A b \in Unwritten' : segs[s].data[i].off # off'[b]
      <3>1. /\ s <= writer.id
            /\ s = writer.id =>
                    /\ segs[s].data[i].off < offset_counter
                    /\ \A b \in Unwritten : segs[s].data[i].off # off[b]
            /\ segs[s].data[i].off \in Nat
        BY <1>0, <2>1 DEF OffsetsInv
      <3> QED
        BY <1>0, <2>1, <2>3, <3>1
    <2> QED
      BY <2>1, <2>2, <2>4, <2>5 DEF OffsetsInv
  <1>2. CASE WriteRecord(a)
    <2>1. /\ status' = status /\ writer'.id = writer.id /\ off' = off
          /\ offset_counter' = offset_counter
          /\ a \in Unwritten /\ Unwritten' = Unwritten \ {a}
          /\ segs' = Appended(writer.id, RecordOf(a))
      BY <1>0, <1>2 DEF WriteRecord, Unwritten, TypeOK, SegmentWriter
    <2>2. status = "up"
      BY <2>1 DEF OffsetsInv, TypeOK
    <2>3. RecordOf(a) \in Record /\ RecordOf(a) \in Chunk /\ RecordOf(a).off = off[a]
      BY <1>0 DEF RecordOf, Record, Chunk
    <2>4. DOMAIN segs' = DOMAIN segs
      BY <2>1 DEF Appended
    <2>5. ASSUME NEW s \in DOMAIN segs, NEW i \in ReadablePos(segs'[s].data)
          PROVE  \/ i \in ReadablePos(segs[s].data) /\ segs'[s].data[i] = segs[s].data[i]
                 \/ /\ s = writer.id /\ i = Len(segs[s].data) + 1
                    /\ segs'[s].data[i].off = off[a]
      <3>1. CASE s # writer.id
        BY <2>1, <2>5, <3>1 DEF Appended
      <3>2. CASE s = writer.id
        <4>1. segs'[s].data = Append(segs[s].data, RecordOf(a))
          BY <2>1, <3>2 DEF Appended, TypeOK, SegmentFile
        <4>2. IsExtended(segs[s].data, RecordOf(a), segs'[s].data)
          BY <1>0, <2>3, <4>1, AppendExtended
        <4> QED
          BY <1>0, <2>3, <2>5, <3>2, <4>2, ReadableAppend
      <3> QED
        BY <3>1, <3>2
    <2>6. \A s \in DOMAIN segs : \A i \in ReadablePos(segs[s].data) :
            /\ s <= writer.id
            /\ s = writer.id =>
                /\ segs[s].data[i].off < offset_counter
                /\ \A b \in Unwritten : segs[s].data[i].off # off[b]
      BY <2>2 DEF OffsetsInv
    <2>7. SegmentOffsetsUnique'
      <3> SUFFICES ASSUME NEW s \in DOMAIN segs, NEW i \in ReadablePos(segs'[s].data),
                          NEW j \in ReadablePos(segs'[s].data),
                          segs'[s].data[i].off = segs'[s].data[j].off
                   PROVE  i = j
        BY <2>4 DEF SegmentOffsetsUnique
      <3>1. CASE i \in ReadablePos(segs[s].data) /\ segs'[s].data[i] = segs[s].data[i]
                 /\ j \in ReadablePos(segs[s].data) /\ segs'[s].data[j] = segs[s].data[j]
        BY <3>1 DEF OffsetsInv, SegmentOffsetsUnique
      <3> QED
        BY <2>1, <2>5, <2>6, <3>1
    <2>8. off[a] < offset_counter /\ \A b \in Unwritten : off[b] = off[a] => b = a
      BY <2>1 DEF OffsetsInv
    <2>9. ASSUME NEW s \in DOMAIN segs, NEW i \in ReadablePos(segs'[s].data)
          PROVE  /\ s <= writer.id
                 /\ s = writer.id =>
                    /\ segs'[s].data[i].off < offset_counter
                    /\ \A b \in Unwritten' : segs'[s].data[i].off # off[b]
      <3>1. CASE i \in ReadablePos(segs[s].data) /\ segs'[s].data[i] = segs[s].data[i]
        BY <2>1, <2>6, <3>1
      <3>2. CASE s = writer.id /\ segs'[s].data[i].off = off[a]
        BY <1>0, <2>1, <2>8, <3>2
      <3> QED
        BY <2>5, <3>1, <3>2
    <2>10. /\ \A b \in Unwritten' : off[b] < offset_counter
           /\ \A b, c \in Unwritten' : off[b] = off[c] => b = c
      BY <2>1 DEF OffsetsInv
    <2> QED
      BY <2>1, <2>2, <2>4, <2>7, <2>9, <2>10 DEF OffsetsInv
  <1>3. CASE CreateLink(a)
    <2>1. /\ segs' = segs /\ status' = status /\ off' = off /\ offset_counter' = offset_counter
          /\ writer'.id = writer.id + 1 /\ Unwritten' = Unwritten /\ a \in Unwritten
      BY <1>0, <1>3 DEF CreateLink, Unwritten
    <2>2. status = "up"
      BY <2>1 DEF OffsetsInv, TypeOK
    <2>3. \A s \in DOMAIN segs : \A i \in ReadablePos(segs[s].data) : s <= writer.id
      BY <2>2 DEF OffsetsInv
    <2>4. ASSUME NEW s \in DOMAIN segs, NEW i \in ReadablePos(segs[s].data)
          PROVE  s <= writer.id + 1 /\ s # writer.id + 1
      <3>1. s \in Nat /\ s <= writer.id
        BY <1>0, <2>3
      <3> QED
        BY <1>0, <3>1
    <2>5. /\ SegmentOffsetsUnique' /\ \A b \in Unwritten : off[b] < offset_counter
          /\ \A b, c \in Unwritten : off[b] = off[c] => b = c
      BY <2>1 DEF OffsetsInv, SegmentOffsetsUnique
    <2> QED
      BY <2>1, <2>2, <2>4, <2>5 DEF OffsetsInv
  <1>4. CASE /\ ~FetchOffset(a) /\ ~WriteRecord(a) /\ ~CreateLink(a)
    <2>1. /\ off' = off /\ status' = status /\ writer' = writer /\ offset_counter' = offset_counter
      BY <1>4 DEF Handler, LockWriter, SealSegment, WriteHeader, RemoveLink,
             RotationFails, WriteFails, Register
    <2>2. Unwritten' \subseteq Unwritten
      BY <1>0, <1>4 DEF Handler, LockWriter, SealSegment, WriteHeader, RemoveLink,
             RotationFails, WriteFails, Register, Unwritten
    <2>3. CASE SealSegment(a) \/ WriteHeader(a)
      <3>1. \A s \in DOMAIN segs' :
              \/ s \in DOMAIN segs /\ segs'[s].data = segs[s].data
              \/ segs'[s].data = <<>> \/ segs'[s].data = <<Header>>
        <4>1. CASE SealSegment(a)
          <5>1. ASSUME NEW s \in DOMAIN segs', s # writer.id + 1
                PROVE  s \in DOMAIN segs /\ segs'[s] = Fsynced(writer.id)[s]
            BY <4>1, <5>1 DEF SealSegment
          <5>2. \A s \in DOMAIN segs : Fsynced(writer.id)[s].data = segs[s].data
            BY DEF Fsynced, TypeOK, SegmentFile
          <5>3. segs'[writer.id + 1].data = <<>>
            BY <4>1 DEF SealSegment
          <5> QED
            BY <5>1, <5>2, <5>3
        <4>2. CASE WriteHeader(a)
          BY <4>2 DEF WriteHeader, Created
        <4> QED
          BY <2>3, <4>1, <4>2
      <3>2. /\ <<>> \in Seq(Chunk) /\ Len(<<>>) <= 1
            /\ <<Header>> \in Seq(Chunk) /\ Len(<<Header>>) <= 1
        BY DEF Chunk
      <3>3. SegsShrink
        BY <3>1, <3>2, ShrinkData
      <3> QED
        BY <2>1, <2>2, <3>3, OffsetsFrame DEF OffsetsInv
    <2>4. CASE ~SealSegment(a) /\ ~WriteHeader(a)
      <3>1. segs' = segs \/ segs' = Appended(writer.id, Torn)
        BY <1>4, <2>4 DEF Handler, LockWriter, RemoveLink, RotationFails, WriteFails, Register
      <3>2. SegsShrink
        BY <3>1, ShrinkSame, ShrinkTorn
      <3> QED
        BY <2>1, <2>2, <3>2, OffsetsFrame DEF OffsetsInv
    <2> QED
      BY <2>3, <2>4
  <1> QED
    BY <1>1, <1>2, <1>3, <1>4

(* A server that dies leaves no handler behind. *)
LEMMA OffsetsDown ==
    ASSUME TypeOK, TypeOK', OffsetsInv, ProcessDies, off' = off, SegsShrink
    PROVE  OffsetsInv'
  <1>1. status' = "down" /\ Unwritten' = {}
    BY DEF ProcessDies, Unwritten
  <1> QED
    BY <1>1, OffsetsFrame

(* Wal::open: only the last segment is written to again, and the counter   *)
(* goes beyond every offset read back from it.                             *)
LEMMA OffsetsRecover ==
    ASSUME TypeOK, TypeOK', OffsetsInv, OpenRecover
    PROVE  OffsetsInv'
  <1>1. PICK last \in DOMAIN segs :
        /\ IsMax(last, DOMAIN segs)
        /\ CanOpen(last)
        /\ \E m \in {0} \cup {r.off : r \in Readable(segs[last].data)} :
            /\ IsMax(m, {0} \cup {r.off : r \in Readable(segs[last].data)})
            /\ offset_counter' = OffsetAfter(m)
        /\ \E n \in 1..Len(segs[last].data) :
            /\ IsReadablePrefix(segs[last].data, n)
            /\ \/ /\ n - 1 >= SegmentMax
                  /\ segs' = [s \in DOMAIN segs \cup {last + 1} |->
                                CASE s = last + 1 -> [data |-> <<Header>>, synced |-> 0]
                                  [] s = last     -> Truncated(segs[last], n)
                                  [] OTHER        -> segs[s]]
                  /\ current_seg' = last + 1
                  /\ writer' = [id |-> last + 1, size |-> 0]
               \/ /\ segs' = [segs EXCEPT ![last] = Truncated(@, n)]
                  /\ current_seg' = current_seg
                  /\ writer' = [id |-> last, size |-> n - 1]
    BY DEF OpenRecover
  <1>2. /\ status' = "replay" /\ Unwritten' = {} /\ off' = off
    <2>1. status = "down" /\ pc' = pc /\ status' = "replay" /\ off' = off
      BY DEF OpenRecover
    <2> QED
      BY <2>1 DEF OffsetsInv, Unwritten
  <1>3. last \in Nat /\ DOMAIN segs \subseteq Nat /\ segs[last] \in SegmentFile /\ segs[last].data \in Seq(Chunk)
    BY DEF TypeOK, SegmentFile
  <1>4. \A i \in ReadablePos(segs[last].data) : segs[last].data[i].off < offset_counter'
    <2>1. PICK m \in {0} \cup {r.off : r \in Readable(segs[last].data)} :
            /\ IsMax(m, {0} \cup {r.off : r \in Readable(segs[last].data)})
            /\ offset_counter' = OffsetAfter(m)
      BY <1>1
    <2>2. \A r \in Readable(segs[last].data) : r.off \in Nat /\ r.off <= m
      BY <1>3, <2>1, ReadableRecords DEF IsMax, Record
    <2>3. m \in Nat
      BY <2>2
    <2>4. offset_counter' = m + 1
      BY <2>1 DEF OffsetAfter
    <2>5. \A i \in ReadablePos(segs[last].data) : segs[last].data[i] \in Readable(segs[last].data)
      BY DEF Readable
    <2> QED
      BY <2>2, <2>3, <2>4, <2>5
  <1>5. PICK n \in 1..Len(segs[last].data) :
            \/ /\ segs' = [s \in DOMAIN segs \cup {last + 1} |->
                                CASE s = last + 1 -> [data |-> <<Header>>, synced |-> 0]
                                  [] s = last     -> Truncated(segs[last], n)
                                  [] OTHER        -> segs[s]]
               /\ writer'.id = last + 1
            \/ /\ segs' = [segs EXCEPT ![last] = Truncated(@, n)]
               /\ writer'.id = last
    BY <1>1
  <1>6. \A s \in DOMAIN segs : s <= last
    BY <1>1 DEF IsMax
  <1>7. ASSUME NEW s \in DOMAIN segs', NEW i \in ReadablePos(segs'[s].data)
        PROVE  /\ s \in DOMAIN segs
               /\ i \in ReadablePos(segs[s].data) /\ segs'[s].data[i] = segs[s].data[i]
    <2>1. CASE s = last + 1
      <3>1. s \notin DOMAIN segs
        BY <1>3, <1>6, <2>1
      <3>2. segs'[s].data = <<Header>>
        BY <1>5, <2>1, <3>1
      <3>3. <<Header>> \in Seq(Chunk) /\ Len(<<Header>>) <= 1
        BY DEF Chunk
      <3> QED
        BY <1>7, <3>2, <3>3, ShortFile
    <2>2. CASE s = last
      <3>1. segs'[s] = Truncated(segs[last], n)
        BY <1>3, <1>5, <2>2
      <3> QED
        BY <1>3, <1>7, <2>2, <3>1, ShrinkTruncated
    <2>3. CASE s # last /\ s # last + 1
      <3>1. s \in DOMAIN segs /\ segs'[s] = segs[s]
        BY <1>5, <2>3
      <3> QED
        BY <1>7, <3>1
    <2> QED
      BY <2>1, <2>2, <2>3
  <1>8. SegmentOffsetsUnique'
    BY <1>7 DEF OffsetsInv, SegmentOffsetsUnique
  <1>9. ASSUME NEW s \in DOMAIN segs', NEW i \in ReadablePos(segs'[s].data)
        PROVE  s <= writer'.id /\ (s = writer'.id => segs'[s].data[i].off < offset_counter')
    <2>1. s \in DOMAIN segs /\ s \in Nat /\ s <= last /\ writer'.id \in {last, last + 1}
      BY <1>3, <1>5, <1>6, <1>7
    <2>2. CASE s = last
      BY <1>3, <1>4, <1>7, <2>1, <2>2
    <2>3. CASE s # last
      BY <1>3, <2>1, <2>3
    <2> QED
      BY <2>2, <2>3
  <1> QED
    BY <1>2, <1>8, <1>9 DEF OffsetsInv

LEMMA OffsetsStartup ==
    ASSUME TypeOK, TypeOK', OffsetsInv, Startup
    PROVE  OffsetsInv'
  <1>1. CASE OpenFresh
    <2>1. /\ status' = "replay" /\ off' = off /\ Unwritten' = {}
      <3>1. status = "down" /\ pc' = pc /\ status' = "replay" /\ off' = off
        BY <1>1 DEF OpenFresh
      <3> QED
        BY <3>1 DEF OffsetsInv, Unwritten
    <2>2. \A s \in DOMAIN segs' : segs'[s].data = <<Header>>
      BY <1>1 DEF OpenFresh, Created
    <2>3. <<Header>> \in Seq(Chunk) /\ Len(<<Header>>) <= 1
      BY DEF Chunk
    <2>4. \A s \in DOMAIN segs' : ReadablePos(segs'[s].data) = {}
      BY <2>2, <2>3, ShortFile
    <2> QED
      BY <2>1, <2>4 DEF OffsetsInv, SegmentOffsetsUnique
  <1>2. CASE OpenRecover
    BY <1>2, OffsetsRecover
  <1>3. CASE OpenRefused \/ Restart
    <2>1. segs' = segs /\ off' = off /\ pc' = pc /\ status' \in {"refused", "down"} /\ status \in {"refused", "down"}
      BY <1>3 DEF OpenRefused, Restart
    <2>2. Unwritten' = {}
      BY <2>1 DEF OffsetsInv, Unwritten
    <2> QED
      BY <2>1, <2>2, ShrinkSame, OffsetsFrame
  <1>4. CASE ReplaySegment
    <2>1. /\ off' = off /\ pc' = pc /\ status' = status /\ writer' = writer /\ offset_counter' = offset_counter
          /\ status = "replay"
      BY <1>4 DEF ReplaySegment
    <2>2. PICK s \in ReplayTodo : \E n \in 1..Len(segs[s].data) : segs' = [segs EXCEPT ![s] = Truncated(@, n)]
      BY <1>4 DEF ReplaySegment
    <2>3. PICK n \in 1..Len(segs[s].data) : segs' = [segs EXCEPT ![s] = Truncated(@, n)]
      BY <2>2
    <2>4. s \in DOMAIN segs /\ segs[s] \in SegmentFile
      BY DEF ReplayTodo, TypeOK
    <2>5. SegsShrink
      <3>1. \A t \in DOMAIN segs' : t \in DOMAIN segs /\ (t # s => segs'[t] = segs[t])
        BY <2>3
      <3>2. segs'[s] = Truncated(segs[s], n)
        BY <2>3, <2>4
      <3> QED
        BY <2>4, <3>1, <3>2, ShrinkTruncated DEF SegsShrink
    <2>6. Unwritten' = Unwritten /\ Unwritten = {}
      BY <2>1 DEF OffsetsInv, Unwritten
    <2> QED
      BY <2>1, <2>5, <2>6, OffsetsFrame
  <1>5. CASE ReplayDone
    <2>1. /\ off' = off /\ pc' = pc /\ writer' = writer /\ offset_counter' = offset_counter
          /\ status = "replay" /\ segs' = segs /\ status' = "up"
      BY <1>5 DEF ReplayDone
    <2>2. Unwritten' = Unwritten
      BY <2>1 DEF Unwritten
    <2> QED
      BY <2>1, <2>2, ShrinkSame, OffsetsFrame
  <1>6. CASE ReplayFails
    BY <1>6, ShrinkSame, OffsetsDown DEF ReplayFails
  <1> QED
    BY <1>1, <1>2, <1>3, <1>4, <1>5, <1>6 DEF Startup

(* The flusher's read step changes nothing but the flusher. *)
LEMMA FlushReadFrame ==
    ASSUME FlushRead
    PROVE  /\ segs' = segs /\ status' = status /\ writer' = writer /\ pc' = pc
           /\ off' = off /\ offset_counter' = offset_counter
           /\ current_seg' = current_seg /\ pending' = pending /\ gc' = gc
           /\ parquet' = parquet /\ shadowed' = shadowed /\ crashes' = crashes
  <1>1. UNCHANGED <<segs, current_seg, checkpoint, status, offset_counter, writer,
                   lock, pc, off, pending, gc, jan, rp, stored, history>>
    BY ZenonT(20) DEF FlushRead
  <1> QED
    BY <1>1 DEF stored, history

LEMMA OffsetsNext == TypeOK /\ OffsetsInv /\ [Next]_vars => OffsetsInv'
  <1> SUFFICES ASSUME TypeOK, OffsetsInv, [Next]_vars
               PROVE  OffsetsInv'
    OBVIOUS
  <1>t. TypeOK'
    BY TypeNext
  <1>1. ASSUME UNCHANGED <<off, status, writer, offset_counter, pc>>, SegsShrink
        PROVE  OffsetsInv'
    <2>1. Unwritten' = Unwritten
      BY <1>1 DEF Unwritten
    <2> QED
      BY <1>t, <1>1, <2>1, OffsetsFrame DEF OffsetsInv
  <1>2. CASE \E a \in Appender : FetchOffset(a) \/ Handler(a)
    BY <1>t, <1>2, OffsetsHandler
  <1>3. CASE GroupCommit
    <2>1. UNCHANGED <<off, status, writer, offset_counter>>
      BY <1>3 DEF GroupCommit, GcReadLink, GcFsync, GcFsyncFails, GcDrain
    <2>2. Unwritten' \subseteq Unwritten
      BY <1>3 DEF GroupCommit, GcReadLink, GcFsync, GcFsyncFails, GcDrain, Unwritten, TypeOK
    <2>3. \A s \in DOMAIN segs' : s \in DOMAIN segs /\ segs'[s].data = segs[s].data
      <3>1. CASE segs' = Fsynced(gc.target)
        BY <3>1 DEF Fsynced, TypeOK, SegmentFile
      <3>2. segs' = segs \/ segs' = Fsynced(gc.target)
        BY <1>3 DEF GroupCommit, GcReadLink, GcFsync, GcFsyncFails, GcDrain
      <3> QED
        BY <3>1, <3>2
    <2>4. SegsShrink
      BY <2>3 DEF SegsShrink
    <2> QED
      BY <1>t, <2>1, <2>2, <2>4, OffsetsFrame DEF OffsetsInv
  <1>4. CASE Flusher
    <2>1. UNCHANGED <<off, status, writer, offset_counter, pc, segs>>
      <3>1. FlushList \/ FlushActive \/ FlushEnd => UNCHANGED <<off, status, writer, offset_counter, pc, segs>>
        BY DEF FlushList, FlushActive, FlushEnd
      <3>2. FlushRead => UNCHANGED <<off, status, writer, offset_counter, pc, segs>>
        BY FlushReadFrame
      <3>3. FlushRecords \/ FlushRecordsFails => UNCHANGED <<off, status, writer, offset_counter, pc, segs>>
        BY DEF FlushRecords, FlushRecordsFails
      <3>4. FlushSave \/ FlushSaveFails => UNCHANGED <<off, status, writer, offset_counter, pc, segs>>
        BY DEF FlushSave, FlushSaveFails
      <3> QED
        BY <1>4, <3>1, <3>2, <3>3, <3>4 DEF Flusher
    <2> QED
      BY <1>1, <2>1, ShrinkSame
  <1>5. CASE Janitor
    <2>1. UNCHANGED <<off, status, writer, offset_counter, pc>>
      BY <1>5 DEF Janitor, JanitorList, JanitorActive, JanitorDelete
    <2>2. \A s \in DOMAIN segs' : s \in DOMAIN segs /\ segs'[s] = segs[s]
      BY <1>5 DEF Janitor, JanitorList, JanitorActive, JanitorDelete
    <2>3. SegsShrink
      BY <2>2 DEF SegsShrink
    <2> QED
      BY <1>1, <2>1, <2>3
  <1>6. CASE BufferFlush \/ UNCHANGED vars
    <2>1. UNCHANGED <<off, status, writer, offset_counter, pc, segs>>
      BY <1>6 DEF BufferFlush, vars
    <2> QED
      BY <1>1, <2>1, ShrinkSame
  <1>7. CASE Startup
    BY <1>t, <1>7, OffsetsStartup
  <1>8. CASE Crash
    BY <1>t, <1>8, ShrinkSame, ShrinkTorn, OffsetsDown DEF Crash
  <1>9. CASE PowerLoss
    BY <1>t, <1>9, ShrinkPower, OffsetsDown DEF PowerLoss
  <1> QED
    BY <1>2, <1>3, <1>4, <1>5, <1>6, <1>7, <1>8, <1>9 DEF Next

(* Handlers take their offsets before they queue for the writer mutex and  *)
(* may write in another order, fail, or die with the server; still no two  *)
(* readable records of a segment ever share an offset, for any sink, any   *)
(* number of handlers and crashes and every I/O fault.                     *)
THEOREM OffsetsUnique == Spec => []SegmentOffsetsUnique
  <1>1. Init => OffsetsInv
    BY DEF Init, OffsetsInv, SegmentOffsetsUnique, Unwritten
  <1>2. OffsetsInv => SegmentOffsetsUnique
    BY DEF OffsetsInv
  <1> QED
    BY <1>1, <1>2, OffsetsNext, TypeCorrect, PTL DEF Spec
----------------------------------------------------------------------------
(* The group commit *)

(* A record that was written, or fsynced, stays so or is delivered: only   *)
(* files behind the checkpoint go.                                         *)
LEMMA WrittenFrame ==
    ASSUME IInv, KeptFromCheckpoint, parquet \subseteq parquet', shadowed \subseteq shadowed',
           NEW a \in Appender, off'[a] = off[a]
    PROVE  /\ \A n : WrittenUpTo(a, n) => WrittenUpTo(a, n)'
           /\ a \in parquet \cup shadowed \/ Synced(a) =>
                a \in parquet' \cup shadowed' \/ Synced(a)'
  <1>0. RecordOf(a)' = RecordOf(a) /\ RecordOf(a).app = a
    BY DEF RecordOf
  <1>t. /\ checkpoint.seg \in Nat /\ DOMAIN segs \subseteq Nat
    BY OrderTypes DEF IInv
  <1>1. ASSUME NEW s \in DOMAIN segs, NEW i \in ReadablePos(segs[s].data), segs[s].data[i] = RecordOf(a)
        PROVE  \/ a \in parquet' \cup shadowed'
               \/ /\ s \in DOMAIN segs' /\ i \in ReadablePos(segs'[s].data)
                  /\ segs'[s].data[i] = RecordOf(a)'
                  /\ i <= segs[s].synced => i <= segs'[s].synced
    <2>1. CASE checkpoint.seg <= s
      BY <1>0, <1>1, <2>1 DEF KeptFromCheckpoint, FileKeeps
    <2>2. CASE s < checkpoint.seg
      <3>1. Delivered(AllOf(s)) /\ RecordOf(a) \in AllOf(s)
        BY <1>1, <2>2 DEF IInv, CoveredInv, AllOf, Readable
      <3> QED
        BY <1>0, <3>1 DEF Delivered
    <2> QED
      BY <1>t, <2>1, <2>2
  <1>2. ASSUME NEW n, WrittenUpTo(a, n)
        PROVE  WrittenUpTo(a, n)'
    BY <1>1, <1>2 DEF WrittenUpTo
  <1>3. ASSUME Synced(a)
        PROVE  a \in parquet' \cup shadowed' \/ Synced(a)'
    <2>1. PICK s \in DOMAIN segs : \E i \in 2..segs[s].synced :
            i \in ReadablePos(segs[s].data) /\ segs[s].data[i] = RecordOf(a)
      BY <1>3 DEF Synced
    <2>2. PICK i \in 2..segs[s].synced :
            i \in ReadablePos(segs[s].data) /\ segs[s].data[i] = RecordOf(a)
      BY <2>1
    <2>3. i \in Int /\ 2 <= i /\ i <= segs[s].synced
      BY <2>2
    <2>4. CASE s \in DOMAIN segs' /\ i \in ReadablePos(segs'[s].data)
               /\ segs'[s].data[i] = RecordOf(a)' /\ i <= segs'[s].synced
      <3>1. i \in 2..segs'[s].synced
        BY <2>3, <2>4
      <3> QED
        BY <2>4, <3>1 DEF Synced
    <2> QED
      BY <1>1, <2>2, <2>3, <2>4
  <1> QED
    BY <1>2, <1>3

(* Steps outside the group commit keep its round. *)
LEMMA RoundFrame ==
    ASSUME IInv, RoundInv, KeptFromCheckpoint, gc' = gc,
           parquet \subseteq parquet', shadowed \subseteq shadowed',
           writer.id \in Nat, writer'.id \in Nat, writer.id <= writer'.id,
           \A a \in pending : a \in pending' /\ off'[a] = off[a],
           \A a \in pending' : pc'[a] = "wait"
    PROVE  RoundInv'
  <1>0. pending \subseteq Appender /\ gc.target \in Nat \cup {NoLink}
    BY DEF IInv, TypeOK, GcState
  <1>1. gc.pc # "idle" => gc.seen \subseteq pending
    BY DEF RoundInv
  <1>2. ASSUME gc.pc # "idle", NEW a \in gc.seen
        PROVE  /\ \A n : WrittenUpTo(a, n) => WrittenUpTo(a, n)'
               /\ a \in parquet \cup shadowed \/ Synced(a) =>
                    a \in parquet' \cup shadowed' \/ Synced(a)'
    <2>1. a \in Appender /\ off'[a] = off[a]
      BY <1>0, <1>1, <1>2
    <2> QED
      BY <2>1, WrittenFrame
  <1>3. gc'.pc # "idle" => gc'.seen \subseteq pending'
    BY <1>1
  <1>4. ASSUME gc'.pc = "sync", gc'.target # NoLink
        PROVE  /\ gc'.target <= writer'.id
               /\ \A a \in gc'.seen : WrittenUpTo(a, gc.target)'
    <2>1. /\ gc.target <= writer.id /\ gc.target \in Nat
          /\ \A a \in gc.seen : WrittenUpTo(a, gc.target)
      BY <1>0, <1>4 DEF RoundInv
    <2> QED
      BY <1>2, <1>4, <2>1
  <1>5. ASSUME gc'.pc = "drain", NEW a \in gc'.seen
        PROVE  a \in parquet' \cup shadowed' \/ Synced(a)'
    BY <1>2, <1>5 DEF RoundInv
  <1> QED
    BY <1>3, <1>4, <1>5 DEF RoundInv

(* Handlers: the symlink follows the writer, and a segment is sealed       *)
(* before the next one is created.                                         *)
LEMMA SealedHandler ==
    ASSUME IInv, IInv', SealedInv, NEW a \in Appender, FetchOffset(a) \/ Handler(a)
    PROVE  SealedInv'
  <1>0. /\ pc \in [Appender -> HandlerPc] /\ writer.id \in Nat /\ DOMAIN segs \subseteq Nat
        /\ writer'.id \in Nat
        /\ \A s \in DOMAIN segs : segs[s] \in SegmentFile
    BY DEF IInv, TypeOK, SegmentWriter
  <1>1. status = "up" /\ status' = "up" /\ \A b \in Appender : b # a => pc'[b] = pc[b]
    BY HandlerFrame
  <1>l. /\ current_seg \in {writer.id, NoLink}
        /\ \A s \in DOMAIN segs : s < writer.id => segs[s].synced = Len(segs[s].data)
        /\ \A s \in DOMAIN segs : s = writer.id /\ (\E b \in Appender : pc[b] \in {"header", "unlink", "link"})
                => segs[s].synced = Len(segs[s].data)
    BY <1>1 DEF SealedInv
  <1>2. CASE SealSegment(a)
    <2>1. /\ writer' = writer /\ current_seg' = current_seg
          /\ \A s \in DOMAIN segs' : s # writer.id + 1 => s \in DOMAIN segs /\ segs'[s] = Fsynced(writer.id)[s]
      BY <1>2 DEF SealSegment
    <2>2. \A s \in DOMAIN segs : s # writer.id => Fsynced(writer.id)[s] = segs[s]
      BY DEF Fsynced
    <2>3. \A s \in DOMAIN segs : s = writer.id =>
             /\ Fsynced(writer.id)[s].data = segs[s].data
             /\ Fsynced(writer.id)[s].synced = Len(segs[s].data)
      BY <1>0 DEF Fsynced, SegmentFile
    <2>4. ASSUME NEW s \in DOMAIN segs', s <= writer.id
          PROVE  segs'[s].synced = Len(segs'[s].data)
      <3>1. s \in DOMAIN segs /\ segs'[s] = Fsynced(writer.id)[s] /\ s \in Nat
        <4>1. s # writer.id + 1
          BY <1>0, <2>4
        <4> QED
          BY <1>0, <2>1, <4>1
      <3>2. CASE s = writer.id
        BY <2>3, <3>1, <3>2
      <3>3. CASE s # writer.id
        BY <1>0, <1>l, <2>2, <2>4, <3>1, <3>3
      <3> QED
        BY <3>2, <3>3
    <2>5. \A s \in DOMAIN segs' : s \in Nat /\ (s < writer.id \/ s = writer.id => s <= writer.id)
      BY <1>0 DEF IInv, TypeOK
    <2> QED
      BY <1>l, <2>1, <2>4, <2>5 DEF SealedInv
  <1>3. CASE WriteHeader(a)
    <2>1. /\ writer' = writer /\ current_seg' = current_seg /\ pc[a] = "header"
          /\ \A s \in DOMAIN segs' : s # writer.id + 1 => s \in DOMAIN segs /\ segs'[s] = segs[s]
      BY <1>3 DEF WriteHeader, Created
    <2>2. ASSUME NEW s \in DOMAIN segs', s < writer.id \/ s = writer.id
          PROVE  segs'[s].synced = Len(segs'[s].data)
      <3>1. s # writer.id + 1
        BY <1>0, <2>2
      <3> QED
        BY <1>l, <2>1, <2>2, <3>1
    <2> QED
      BY <1>l, <2>1, <2>2 DEF SealedInv
  <1>4. CASE RemoveLink(a)
    <2>1. /\ writer' = writer /\ current_seg' = NoLink /\ pc[a] = "unlink" /\ segs' = segs
      BY <1>4 DEF RemoveLink
    <2> QED
      BY <1>l, <2>1 DEF SealedInv
  <1>5. CASE CreateLink(a)
    <2>1. /\ writer'.id = writer.id + 1 /\ current_seg' = writer'.id /\ pc[a] = "link" /\ segs' = segs
          /\ pc'[a] = "write"
      BY <1>0, <1>5 DEF CreateLink
    <2>2. \A b \in Appender : pc'[b] \notin {"header", "unlink", "link"}
      BY <2>1 DEF IInv, LockInv
    <2>3. \A s \in DOMAIN segs : s < writer.id + 1 => s < writer.id \/ s = writer.id
      BY <1>0
    <2> QED
      BY <1>l, <2>1, <2>2, <2>3 DEF SealedInv
  <1>6. CASE WriteRecord(a) \/ WriteFails(a)
    <2>1. /\ writer'.id = writer.id /\ current_seg' = current_seg /\ pc[a] = "write"
          /\ pc'[a] \in {"register", "failed"}
          /\ \E c : segs' = segs \/ segs' = Appended(writer.id, c)
      <3>1. CASE WriteRecord(a)
        BY <1>0, <3>1 DEF WriteRecord, IInv, TypeOK, SegmentWriter
      <3>2. CASE WriteFails(a)
        BY <1>0, <3>2 DEF WriteFails
      <3> QED
        BY <1>6, <3>1, <3>2
    <2>2. \A b \in Appender : pc'[b] \notin {"header", "unlink", "link"}
      BY <1>1, <2>1 DEF IInv, LockInv
    <2>3. \A s \in DOMAIN segs' : s \in DOMAIN segs /\ (s # writer.id => segs'[s] = segs[s])
      BY <2>1 DEF Appended
    <2>4. \A s \in DOMAIN segs' : s \in Nat /\ (s < writer.id => s # writer.id)
      BY <1>0, <2>3
    <2> QED
      BY <1>l, <2>1, <2>2, <2>3, <2>4 DEF SealedInv
  <1>7. CASE FetchOffset(a) \/ LockWriter(a) \/ RotationFails(a) \/ Register(a)
    <2>1. /\ writer' = writer /\ current_seg' = current_seg /\ segs' = segs
          /\ pc'[a] \notin {"header", "unlink", "link"}
      BY <1>0, <1>7 DEF FetchOffset, LockWriter, RotationFails, Register
    <2>2. (\E b \in Appender : pc'[b] \in {"header", "unlink", "link"}) =>
              \E b \in Appender : pc[b] \in {"header", "unlink", "link"}
      BY <1>1, <2>1
    <2> QED
      BY <1>l, <2>1, <2>2 DEF SealedInv
  <1> QED
    BY <1>2, <1>3, <1>4, <1>5, <1>6, <1>7 DEF Handler

LEMMA GroupCommitHandler ==
    ASSUME IInv, IInv', UnstartedInv, SealedInv, RoundInv,
           NEW a \in Appender, FetchOffset(a) \/ Handler(a)
    PROVE  UnstartedInv' /\ SealedInv' /\ RoundInv'
  <1>1. /\ status' = "up" /\ gc' = gc /\ parquet' = parquet /\ shadowed \subseteq shadowed'
        /\ \A b \in Appender : b # a => pc'[b] = pc[b] /\ off'[b] = off[b]
    BY HandlerFrame
  <1>2. UnstartedInv' /\ SealedInv'
    BY <1>1, SealedHandler DEF UnstartedInv
  <1>3. pc[a] # "wait" /\ pc \in [Appender -> HandlerPc]
    BY DEF IInv, TypeOK, FetchOffset, Handler, LockWriter, SealSegment, WriteHeader, RemoveLink,
           CreateLink, RotationFails, WriteRecord, WriteFails, Register
  <1>4. /\ pending \subseteq pending'
        /\ \A b \in pending' : b \in pending \/ (b = a /\ pc'[a] = "wait")
    <2>1. CASE Register(a)
      BY <1>3, <2>1 DEF Register
    <2>2. CASE ~Register(a)
      BY <2>2 DEF FetchOffset, Handler, LockWriter, SealSegment, WriteHeader, RemoveLink,
           CreateLink, RotationFails, WriteRecord, WriteFails
    <2> QED
      BY <2>1, <2>2
  <1>5. \A b \in pending : b \in Appender /\ b # a /\ pc[b] = "wait"
    BY <1>3 DEF RoundInv, IInv, TypeOK
  <1>6. /\ KeptFromCheckpoint /\ writer.id \in Nat /\ writer'.id \in Nat /\ writer.id <= writer'.id
    <2>1. SegsKept /\ writer'.id \in {writer.id, writer.id + 1} /\ writer.id \in Nat
      BY HandlerFiles, OrderTypes DEF IInv
    <2> QED
      BY <2>1, KeptIsFrom
  <1>7. RoundInv'
    BY <1>1, <1>4, <1>5, <1>6, RoundFrame
  <1> QED
    BY <1>2, <1>7
(* The group commit's own steps: the record of every handle a round saw is *)
(* in the segment it fsyncs, or in one that was sealed.                    *)
LEMMA GroupCommitRound ==
    ASSUME IInv, IInv', UnstartedInv, SealedInv, RoundInv, GroupCommit
    PROVE  UnstartedInv' /\ SealedInv' /\ RoundInv'
  <1>t. /\ writer.id \in Nat /\ DOMAIN segs \subseteq Nat /\ pending \subseteq Appender
        /\ gc.target \in Nat \cup {NoLink} /\ pc \in [Appender -> HandlerPc]
    BY OrderTypes DEF IInv, TypeOK, GcState
  <1>1. /\ status' = status /\ current_seg' = current_seg /\ writer' = writer /\ off' = off
        /\ parquet' = parquet /\ shadowed' = shadowed
    BY DEF GroupCommit, GcReadLink, GcFsync, GcFsyncFails, GcDrain, stored, history
  <1>2. status = "up"
    BY DEF GroupCommit, GcReadLink, GcFsync, GcFsyncFails, GcDrain, UnstartedInv, GcIdle
  <1>u. UnstartedInv'
    BY <1>1, <1>2 DEF UnstartedInv
  <1>p. \A b \in Appender : pc'[b] = pc[b] \/ pc'[b] = "acked"
    BY <1>t DEF GroupCommit, GcReadLink, GcFsync, GcFsyncFails, GcDrain
  <1>3. CASE GcReadLink
    <2>1. /\ gc'.pc = "sync" /\ gc'.target = current_seg /\ gc'.seen = pending
          /\ segs' = segs /\ pending' = pending /\ pc' = pc
      BY <1>3 DEF GcReadLink
    <2>2. SealedInv'
      BY <1>1, <2>1 DEF SealedInv
    <2>3. ASSUME NEW a \in pending
          PROVE  WrittenUpTo(a, writer.id)
      <3>1. a \in Appender /\ pc[a] = "wait"
        BY <1>t DEF RoundInv
      <3>2. CASE a \in shadowed
        BY <3>2 DEF WrittenUpTo
      <3>3. CASE a \notin shadowed
        <4>1. Stored(a)
          BY <3>1, <3>3 DEF IInv, StoredInv
        <4>2. ASSUME NEW s \in DOMAIN segs, NEW i \in ReadablePos(segs[s].data)
              PROVE  s <= writer.id
          <5>1. segs[s].data \in Seq(Chunk)
            BY DEF IInv, TypeOK, SegmentFile
          <5>2. ~(Len(segs[s].data) <= 1)
            BY <4>2, <5>1, ShortFile
          <5>3. ~(s > writer.id)
            BY <1>2, <5>2 DEF IInv, WriterInv
          <5> QED
            BY <1>t, <5>3
        <4> QED
          BY <3>1, <4>1, <4>2 DEF Stored, WrittenUpTo
      <3> QED
        BY <3>2, <3>3
    <2>4. current_seg # NoLink => current_seg = writer.id
      BY <1>2 DEF SealedInv
    <2>5. RoundInv'
      <3>1. \A a \in pending' : pc'[a] = "wait"
        BY <2>1 DEF RoundInv
      <3>2. ASSUME gc'.target # NoLink
            PROVE  /\ gc'.target <= writer'.id
                   /\ \A a \in gc'.seen : WrittenUpTo(a, gc.target)'
        <4>1. gc'.target = writer.id
          BY <2>1, <2>4, <3>2
        <4>2. ASSUME NEW a \in pending
              PROVE  WrittenUpTo(a, gc.target)'
          <5>1. WrittenUpTo(a, writer.id)
            BY <2>3
          <5> QED
            BY <1>1, <2>1, <4>1, <5>1 DEF WrittenUpTo, RecordOf
        <4> QED
          BY <1>t, <1>1, <2>1, <4>1, <4>2
      <3> QED
        BY <2>1, <3>1, <3>2 DEF RoundInv
    <2> QED
      BY <1>u, <2>2, <2>5
  <1>4. CASE GcFsync
    <2>1. /\ gc.pc = "sync" /\ gc'.pc = "drain" /\ gc'.seen = gc.seen
          /\ pending' = pending /\ pc' = pc /\ gc.target \in DOMAIN segs /\ segs' = Fsynced(gc.target)
      BY <1>4 DEF GcFsync, IInv, TypeOK, GcState
    <2>2. /\ DOMAIN segs' = DOMAIN segs
          /\ \A s \in DOMAIN segs : s # gc.target => segs'[s] = segs[s]
          /\ segs'[gc.target].data = segs[gc.target].data
          /\ segs'[gc.target].synced = Len(segs[gc.target].data)
      BY <2>1 DEF Fsynced, IInv, TypeOK, SegmentFile
    <2>3. SealedInv'
      BY <1>1, <2>1, <2>2 DEF SealedInv
    <2>4. gc.target # NoLink
      BY <1>t, <2>1 DEF NoLink
    <2>5. /\ gc.target <= writer.id /\ gc.target \in Nat
          /\ \A a \in gc.seen : WrittenUpTo(a, gc.target)
      BY <1>t, <2>1, <2>4 DEF RoundInv
    <2>6. ASSUME NEW a \in gc.seen
          PROVE  a \in parquet' \cup shadowed' \/ Synced(a)'
      <3>1. CASE a \in parquet \cup shadowed
        BY <1>1, <3>1
      <3>2. CASE a \notin parquet \cup shadowed
        <4>1. PICK s \in DOMAIN segs : \E i \in ReadablePos(segs[s].data) :
                    s <= gc.target /\ segs[s].data[i] = RecordOf(a)
          BY <2>5, <3>2 DEF WrittenUpTo
        <4>2. PICK i \in ReadablePos(segs[s].data) :
                    s <= gc.target /\ segs[s].data[i] = RecordOf(a)
          BY <4>1
        <4>3. segs'[s].data = segs[s].data /\ segs'[s].synced = Len(segs[s].data)
          <5>1. CASE s = gc.target
            BY <2>2, <5>1
          <5>2. CASE s # gc.target
            <6>1. s < writer.id
              BY <1>t, <2>5, <4>2, <5>2
            <6> QED
              BY <2>2, <5>2, <6>1 DEF SealedInv
          <5> QED
            BY <5>1, <5>2
        <4>4. i \in 2..Len(segs[s].data)
          BY <4>2, ReadableRecords DEF IInv, TypeOK, SegmentFile
        <4>5. RecordOf(a)' = RecordOf(a)
          BY <1>1 DEF RecordOf
        <4> QED
          BY <2>2, <4>2, <4>3, <4>4, <4>5 DEF Synced
      <3> QED
        BY <3>1, <3>2
    <2>7. RoundInv'
      BY <2>1, <2>6 DEF RoundInv
    <2> QED
      BY <1>u, <2>3, <2>7
  <1>5. CASE GcFsyncFails \/ GcDrain
    <2>1. /\ segs' = segs /\ gc' = GcIdle
          /\ pending' = {} \/ (pending' = pending /\ pc' = pc)
      BY <1>5 DEF GcFsyncFails, GcDrain
    <2>2. SealedInv'
      <3>1. (\E b \in Appender : pc'[b] \in {"header", "unlink", "link"}) =>
              \E b \in Appender : pc[b] \in {"header", "unlink", "link"}
        BY <1>p
      <3> QED
        BY <1>1, <2>1, <3>1 DEF SealedInv
    <2>3. RoundInv'
      BY <2>1 DEF RoundInv, GcIdle
    <2> QED
      BY <1>u, <2>2, <2>3
  <1> QED
    BY <1>3, <1>4, <1>5 DEF GroupCommit

(* The flusher, the janitor and the sink touch no handler, writer or link; *)
(* the files they remove lie behind the checkpoint.                        *)
LEMMA GroupCommitQuiet ==
    ASSUME IInv, IInv', UnstartedInv, SealedInv, RoundInv,
           UNCHANGED <<current_seg, status, writer, pc, off, pending, gc, shadowed>>,
           parquet \subseteq parquet', KeptFromCheckpoint,
           \A s \in DOMAIN segs' : s \in DOMAIN segs /\ segs'[s] = segs[s]
    PROVE  UnstartedInv' /\ SealedInv' /\ RoundInv'
  <1>1. UnstartedInv'
    BY DEF UnstartedInv
  <1>2. SealedInv'
    BY DEF SealedInv
  <1>3. writer.id \in Nat
    BY OrderTypes DEF IInv
  <1>4. RoundInv'
    BY <1>3, RoundFrame DEF RoundInv
  <1> QED
    BY <1>1, <1>2, <1>4

LEMMA GroupCommitTasks ==
    ASSUME IInv, IInv', UnstartedInv, SealedInv, RoundInv, Flusher \/ Janitor \/ BufferFlush
    PROVE  UnstartedInv' /\ SealedInv' /\ RoundInv'
  <1>1. CASE Flusher
    <2>1. /\ UNCHANGED <<current_seg, status, writer, pc, off, pending, gc, shadowed, segs>>
          /\ parquet \subseteq parquet'
      <3>1. FlushList \/ FlushActive \/ FlushEnd \/ FlushSave \/ FlushSaveFails =>
              UNCHANGED <<current_seg, status, writer, pc, off, pending, gc, shadowed, segs, parquet>>
        BY DEF FlushList, FlushActive, FlushEnd, FlushSave, FlushSaveFails, stored, history
      <3>2. FlushRead =>
              UNCHANGED <<current_seg, status, writer, pc, off, pending, gc, shadowed, segs, parquet>>
        BY FlushReadFrame
      <3>3. FlushRecords \/ FlushRecordsFails =>
              /\ UNCHANGED <<current_seg, status, writer, pc, off, pending, gc, shadowed, segs>>
              /\ parquet \subseteq parquet'
        BY DEF FlushRecords, FlushRecordsFails, Deliver, history
      <3> QED
        BY <1>1, <3>1, <3>2, <3>3 DEF Flusher
    <2>2. KeptFromCheckpoint
      BY <2>1, SegsUnchanged, KeptIsFrom
    <2> QED
      BY <2>1, <2>2, GroupCommitQuiet
  <1>2. CASE Janitor
    <2>1. /\ UNCHANGED <<current_seg, status, writer, pc, off, pending, gc, shadowed, parquet>>
      BY <1>2 DEF Janitor, JanitorList, JanitorActive, JanitorDelete, stored, history
    <2>2. /\ \A s \in DOMAIN segs' : s \in DOMAIN segs /\ segs'[s] = segs[s]
          /\ \A s \in DOMAIN segs : checkpoint.seg <= s => s \in DOMAIN segs'
      <3>1. CASE segs' = segs
        BY <3>1
      <3>2. CASE segs' # segs
        <4>1. PICK d \in jan.todo : segs' = [s \in DOMAIN segs \ {d} |-> segs[s]]
          BY <1>2, <3>2 DEF Janitor, JanitorList, JanitorActive, JanitorDelete
        <4>2. jan.pc = "delete"
          BY <1>2, <3>2 DEF Janitor, JanitorList, JanitorActive, JanitorDelete
        <4>3. d < jan.bound /\ jan.bound <= checkpoint.seg
          BY <4>2 DEF IInv, JanitorInv
        <4>4. d \in Nat /\ jan.bound \in Nat /\ checkpoint.seg \in Nat
          BY OrderTypes DEF IInv
        <4>5. ~(checkpoint.seg <= d)
          BY <4>3, <4>4
        <4> QED
          BY <4>1, <4>5
      <3> QED
        BY <3>1, <3>2
    <2>3. KeptFromCheckpoint
      BY <2>2, SameFile DEF KeptFromCheckpoint
    <2> QED
      BY <2>1, <2>2, <2>3, GroupCommitQuiet
  <1>3. CASE BufferFlush
    <2>1. /\ UNCHANGED <<current_seg, status, writer, pc, off, pending, gc, shadowed, segs>>
          /\ parquet \subseteq parquet'
      BY <1>3 DEF BufferFlush, tasks, history
    <2>2. KeptFromCheckpoint
      BY <2>1, SegsUnchanged, KeptIsFrom
    <2> QED
      BY <2>1, <2>2, GroupCommitQuiet
  <1> QED
    BY <1>1, <1>2, <1>3

(* Before the first crash a start finds nothing, or one empty segment that *)
(* a failed start left behind.                                             *)
LEMMA GroupCommitStartup ==
    ASSUME IInv, IInv', UnstartedInv, SealedInv, RoundInv, Startup
    PROVE  UnstartedInv' /\ SealedInv' /\ RoundInv'
  <1>0. status # "up"
    BY DEF Startup, OpenFresh, OpenRecover, OpenRefused, Restart, ReplaySegment, ReplayDone, ReplayFails
  <1>1. /\ gc = GcIdle
        /\ \A a \in Appender : pc[a] = "idle"
        /\ \A s \in DOMAIN segs : s = 0 /\ Len(segs[s].data) = 1 /\ current_seg = 0
        /\ writer.id = 0
    BY <1>0 DEF UnstartedInv
  <1>2. pending = {}
    BY <1>1 DEF RoundInv, IInv, TypeOK
  <1>3. /\ gc' = GcIdle /\ pending' = {} /\ \A a \in Appender : pc'[a] = "idle"
    <2>1. CASE ReplayFails
      BY <1>1, <2>1 DEF ReplayFails, ProcessDies
    <2>2. CASE ~ReplayFails
      BY <1>1, <1>2, <2>2 DEF Startup, OpenFresh, OpenRecover, OpenRefused, Restart, ReplaySegment,
            ReplayDone, tasks
    <2> QED
      BY <2>1, <2>2
  <1>4. RoundInv'
    BY <1>3 DEF RoundInv, GcIdle
  <1>5. ASSUME NEW s \in DOMAIN segs, NEW n \in 1..Len(segs[s].data)
        PROVE  n = 1 /\ Truncated(segs[s], n) = segs[s]
    <2>1. Len(segs[s].data) = 1
      BY <1>1
    <2>2. n = 1
      BY <1>5, <2>1
    <2> QED
      BY <2>1, <2>2 DEF Truncated
  <1>6. /\ \A s \in DOMAIN segs' : s = 0 /\ Len(segs'[s].data) = 1 /\ current_seg' = 0
        /\ writer'.id = 0
        /\ status' \in {"replay", "up"} => current_seg' = 0
    <2>1. CASE OpenFresh
      BY <2>1 DEF OpenFresh, Created
    <2>2. CASE OpenRecover
      <3>1. PICK last \in DOMAIN segs :
              \E n \in 1..Len(segs[last].data) :
                \/ n - 1 >= SegmentMax
                \/ /\ segs' = [segs EXCEPT ![last] = Truncated(@, n)]
                   /\ current_seg' = current_seg
                   /\ writer' = [id |-> last, size |-> n - 1]
        BY <2>2 DEF OpenRecover
      <3>2. ~(1 - 1 >= SegmentMax)
        BY ConstantsAssumption
      <3>3. /\ segs' = [segs EXCEPT ![last] = segs[last]]
            /\ current_seg' = current_seg /\ writer'.id = last
        BY <1>5, <3>1, <3>2
      <3> QED
        BY <1>1, <3>3
    <2>3. CASE ReplaySegment
      <3>1. PICK s \in ReplayTodo : \E n \in 1..Len(segs[s].data) : segs' = [segs EXCEPT ![s] = Truncated(@, n)]
        BY <2>3 DEF ReplaySegment
      <3>2. s \in DOMAIN segs
        BY DEF ReplayTodo
      <3>3. segs' = segs
        <4>1. PICK n \in 1..Len(segs[s].data) : segs' = [segs EXCEPT ![s] = Truncated(segs[s], n)]
          BY <3>1
        <4>2. Truncated(segs[s], n) = segs[s]
          BY <1>5, <3>2
        <4>3. segs = [t \in DOMAIN segs |-> segs[t]]
          BY DEF IInv, TypeOK
        <4> QED
          BY <3>2, <4>1, <4>2, <4>3
      <3>4. writer' = writer /\ current_seg' = current_seg /\ status = "replay"
        BY <2>3 DEF ReplaySegment
      <3>5. writer.id \in DOMAIN segs
        BY <3>4 DEF IInv, WriterInv, CanOpen
      <3> QED
        BY <1>1, <3>3, <3>4, <3>5
    <2>4. CASE ReplayDone
      <3>1. segs' = segs /\ writer' = writer /\ current_seg' = current_seg /\ status = "replay"
        BY <2>4 DEF ReplayDone
      <3>2. writer.id \in DOMAIN segs
        BY <3>1 DEF IInv, WriterInv, CanOpen
      <3> QED
        BY <1>1, <3>1, <3>2
    <2>5. CASE OpenRefused \/ Restart \/ ReplayFails
      <3>1. segs' = segs /\ current_seg' = current_seg /\ writer' = writer /\ status' \notin {"replay", "up"}
        BY <2>5 DEF OpenRefused, Restart, ReplayFails, ProcessDies
      <3> QED
        BY <1>1, <3>1
    <2> QED
      BY <2>1, <2>2, <2>3, <2>4, <2>5 DEF Startup
  <1>7. UnstartedInv'
    BY <1>3, <1>6 DEF UnstartedInv
  <1>8. SealedInv'
    <2>1. \A s \in DOMAIN segs' : ~(s < writer'.id)
      BY <1>6
    <2> QED
      BY <1>3, <1>6, <2>1 DEF SealedInv
  <1> QED
    BY <1>4, <1>7, <1>8
LEMMA GroupCommitNext ==
    ASSUME IInv, IInv', GroupCommitInv, [Next]_vars
    PROVE  GroupCommitInv'
  <1> SUFFICES ASSUME crashes' = 0
               PROVE  UnstartedInv' /\ SealedInv' /\ RoundInv'
    BY DEF GroupCommitInv
  <1>1. CASE UNCHANGED vars
    <2>1. /\ UNCHANGED <<current_seg, status, writer, pc, off, pending, gc, shadowed, segs, parquet, crashes>>
      BY <1>1 DEF vars, tasks, stored, history
    <2>2. KeptFromCheckpoint
      BY <2>1, SegsUnchanged, KeptIsFrom
    <2>3. UnstartedInv /\ SealedInv /\ RoundInv
      BY <2>1 DEF GroupCommitInv
    <2> QED
      BY <2>1, <2>2, <2>3, GroupCommitQuiet
  <1>2. CASE Next
    <2>1. ~Crash /\ ~PowerLoss
      BY DEF Crash, PowerLoss, IInv, TypeOK
    <2>2. crashes = 0
      <3>1. ASSUME NEW a \in Appender, FetchOffset(a) \/ Handler(a)
            PROVE  crashes' = crashes
        BY <3>1 DEF FetchOffset, Handler, LockWriter, SealSegment, WriteHeader, RemoveLink,
             CreateLink, RotationFails, WriteRecord, WriteFails, Register, history
      <3>2. GroupCommit \/ Janitor \/ BufferFlush => crashes' = crashes
        BY DEF GroupCommit, GcReadLink, GcFsync, GcFsyncFails, GcDrain, Janitor, JanitorList,
             JanitorActive, JanitorDelete, BufferFlush, history
      <3>3. Flusher => crashes' = crashes
        <4>1. FlushRead => crashes' = crashes
          BY FlushReadFrame
        <4> QED
          BY <4>1 DEF Flusher, FlushList, FlushActive, FlushEnd, FlushRecords, FlushRecordsFails,
               FlushSave, FlushSaveFails, history
      <3>4. Startup => crashes' = crashes
        BY DEF Startup, OpenFresh, OpenRecover, OpenRefused, Restart, ReplaySegment, ReplayDone,
             ReplayFails, history
      <3> QED
        BY <1>2, <2>1, <3>1, <3>2, <3>3, <3>4 DEF Next
    <2>3. UnstartedInv /\ SealedInv /\ RoundInv
      BY <2>2 DEF GroupCommitInv
    <2> QED
      BY <1>2, <2>1, <2>3, GroupCommitHandler, GroupCommitRound, GroupCommitTasks,
         GroupCommitStartup DEF Next
  <1> QED
    BY <1>1, <1>2

(* Until the first crash, whatever I/O fails and however rotations, the    *)
(* flusher and the janitor interleave with a round of the group commit,    *)
(* the handles the round found queued are on disk when it resolves them.   *)
THEOREM RoundCoversQueue ==
    ASSUME WriteBufferEnabled = FALSE
    PROVE  Spec => []FsyncCoversQueue
  <1>1. Init => GroupCommitInv
    BY DEF Init, GroupCommitInv, UnstartedInv, SealedInv, RoundInv, GcIdle
  <1>2. GroupCommitInv => FsyncCoversQueue
    BY DEF GroupCommitInv, RoundInv, FsyncCoversQueue
  <1>3. IInv /\ IInv' /\ GroupCommitInv /\ [Next]_vars => GroupCommitInv'
    BY GroupCommitNext
  <1> QED
    BY <1>1, <1>2, <1>3, Invariant, PTL DEF Spec

(* The three invariants together, on a sink that stores before it returns. *)
THEOREM WalInvariant ==
    ASSUME WriteBufferEnabled = FALSE
    PROVE  Spec => []WalIInv
  <1>1. Init => OffsetsInv
    BY DEF Init, OffsetsInv, SegmentOffsetsUnique, Unwritten
  <1>2. Init => GroupCommitInv
    BY DEF Init, GroupCommitInv, UnstartedInv, SealedInv, RoundInv, GcIdle
  <1>3. IInv /\ IInv' /\ GroupCommitInv /\ [Next]_vars => GroupCommitInv'
    BY GroupCommitNext
  <1>4. IInv /\ OffsetsInv /\ GroupCommitInv => WalIInv
    BY DEF WalIInv
  <1> QED
    BY <1>1, <1>2, <1>3, <1>4, OffsetsNext, TypeCorrect, Invariant, PTL DEF Spec
=============================================================================
