----------------------------- MODULE FileProofs -----------------------------
(***************************************************************************)
(* Proofs about FileLifecycle for every set of files, rows, writers,       *)
(* queries and reclaimers: type correctness, the inductive invariant of    *)
(* FileInv and what follows from it when files are fsynced before they are *)
(* renamed; then what holds on local storage, with one reclaimer, and      *)
(* without failures.                                                       *)
(***************************************************************************)
EXTENDS FileInv, FiniteSetTheorems, TLAPS

(* The idle task states are well typed. *)
LEMMA FileIdleTypes ==
    /\ WrIdle \in WriteCall
    /\ CmpIdle \in CompactState
    /\ MvIdle \in MoverState
    /\ ClIdle \in CleanupState
    /\ RcIdle \in ReclaimState
    /\ RdIdle \in QueryState
  BY DEF WrIdle, CmpIdle, MvIdle, ClIdle, RcIdle, RdIdle, WriteCall, CompactState,
         MoverState, CleanupState, ReclaimState, QueryState, Location

LEMMA FileTypeInit == Init => TypeOK
  BY FileIdleTypes DEF Init, TypeOK, FileState, Location

(* The tables' updates keep their types. *)
LEMMA TableTypes ==
    ASSUME TypeOK, NEW ids
    PROVE  /\ MarkDeleted(ids) \in [Files -> FileState]
           /\ DeleteEntries(ids) \in [Files -> FileState]
           /\ \A f \in Files : UpdateLocation(f) \in [Files -> Location]
           /\ Acquire(ids) \in [Files -> Nat]
           /\ Release(ids) \in [Files -> Nat]
  BY DEF TypeOK, MarkDeleted, DeleteEntries, UpdateLocation, Acquire, Release,
         FileState, Location

(* Steps of a call of write_batch. *)
LEMMA TypeCreateTemp ==
    ASSUME TypeOK, NEW t \in Task, NEW rows \in SUBSET Rows, NEW ts \in Nat,
           CreateTemp(t, rows, ts)
    PROVE  /\ content' \in [Files -> SUBSET Rows]
           /\ par' \subseteq Files
           /\ wr' \in [Task -> WriteCall]
  <1>1. PICK f \in Files :
          /\ content' = [content EXCEPT ![f] = rows]
          /\ par' = par \cup {f}
          /\ wr' = [wr EXCEPT ![t] = [pc |-> "temp", file |-> f, ts |-> ts]]
    BY DEF CreateTemp
  <1>2. [pc |-> "temp", file |-> f, ts |-> ts] \in WriteCall
    BY DEF WriteCall
  <1> QED
    BY <1>1, <1>2 DEF TypeOK

TypeInv == TypeOK /\ BusyInv

LEMMA TypeWrite ==
    ASSUME TypeInv,
           \/ \E w \in Writers : WriteBatch(w)
           \/ \E t \in Task : WriteStep(t)
    PROVE  TypeInv'
  <1> USE DEF TypeInv
  <1>1. ASSUME NEW w \in Writers, WriteBatch(w) PROVE TypeInv'
    <2>1. PICK rows \in SUBSET Pending : \E ts \in rows : CreateTemp(w, rows, ts)
      BY <1>1 DEF WriteBatch
    <2>2. PICK ts \in rows : CreateTemp(w, rows, ts)
      BY <2>1
    <2>3. rows \in SUBSET Rows /\ ts \in Nat /\ w \in Task
      BY LifecycleAssumption DEF Pending, Task
    <2>4. TypeOK'
      BY <1>1, <2>2, <2>3, TypeCreateTemp DEF TypeOK, WriteBatch, table, history
    <2>5. BusyInv'
      BY <1>1, <2>2, <2>3 DEF BusyInv, TypeOK, WriteBatch, CreateTemp
    <2> QED
      BY <2>4, <2>5
  <1>2. ASSUME NEW t \in Task, Rename(t) PROVE TypeInv'
    <2>1. [wr[t] EXCEPT !.pc = "renamed"] \in WriteCall /\ wr[t].file \in Files
      BY <1>2 DEF TypeOK, WriteCall, BusyInv, Rename
    <2>2. TypeOK'
      BY <1>2, <2>1 DEF TypeOK, Rename, table, history
    <2>3. BusyInv'
      BY <1>2, <2>1 DEF TypeOK, BusyInv, Rename
    <2> QED
      BY <2>2, <2>3
  <1>3. ASSUME NEW t \in Task, RegisterFile(t) PROVE TypeInv'
    <2>1. /\ [wr[t] EXCEPT !.pc = "registered"] \in WriteCall
          /\ wr[t].file \in Files
          /\ wr[t].ts \in Nat
      BY <1>3 DEF TypeOK, WriteCall, BusyInv, RegisterFile
    <2>2. TypeOK'
      BY <1>3, <2>1 DEF TypeOK, RegisterFile, storage, history, FileState, Location
    <2>3. BusyInv'
      BY <1>3, <2>1 DEF TypeOK, BusyInv, RegisterFile
    <2> QED
      BY <2>2, <2>3
  <1>4. ASSUME NEW t \in Task, WriteReturns(t) PROVE TypeInv'
    <2>1. wr[t].file \in Files /\ wr' \in [Task -> WriteCall] /\ wr[t].pc # "idle"
      BY <1>4, FileIdleTypes DEF TypeOK, BusyInv, WriteReturns
    <2>2. cmp' \in CompactState /\ stored' \subseteq Rows
      <3>1. [cmp EXCEPT !.pc = "marking"] \in CompactState
        BY DEF TypeOK, CompactState
      <3> QED
        BY <1>4, <2>1, <3>1 DEF TypeOK, WriteReturns
    <2>3. TypeOK'
      BY <1>4, <2>1, <2>2 DEF TypeOK, WriteReturns, storage, table
    <2>4. BusyInv'
      BY <1>4, <2>1 DEF TypeOK, BusyInv, WriteReturns, WrIdle
    <2> QED
      BY <2>3, <2>4
  <1>5. ASSUME NEW t \in Task, WriteFails(t) PROVE TypeInv'
    <2>1. TypeOK'
      BY <1>5, FileIdleTypes DEF TypeOK, WriteFails, storage, table, history
    <2>2. BusyInv'
      BY <1>5 DEF TypeOK, BusyInv, WriteFails, WrIdle
    <2> QED
      BY <2>1, <2>2
  <1> QED
    BY <1>1, <1>2, <1>3, <1>4, <1>5 DEF WriteStep

LEMMA TypeCompact ==
    ASSUME TypeInv, Compact PROVE TypeInv'
  <1> USE DEF TypeInv
  <1>1. CASE CompactQuery
    <2>1. PICK group \in SUBSET Visible : cmp' = [pc |-> "listed",
              ids |-> {f \in group : Cardinality(content[f]) < MaxFileSize}]
      BY <1>1 DEF CompactQuery
    <2>2. cmp' \in CompactState
      BY <2>1 DEF CompactState, Visible
    <2> QED
      BY <1>1, <2>2 DEF TypeOK, BusyInv, CompactQuery, storage, table, history
  <1>2. CASE CompactRead
    <2>1. PICK m \in cmp.ids : CreateTemp("compactor", UNION {content[f] : f \in cmp.ids}, max_ts[m])
      BY <1>2 DEF CompactRead
    <2>2. cmp.ids \subseteq Files
      BY DEF TypeOK, CompactState
    <2>3. /\ UNION {content[f] : f \in cmp.ids} \in SUBSET Rows
          /\ max_ts[m] \in Nat
          /\ "compactor" \in Task
      BY <2>2 DEF TypeOK, Task
    <2>4. cmp' \in CompactState
      BY <1>2 DEF TypeOK, CompactState, CompactRead
    <2>5. TypeOK'
      <3>1. /\ content' \in [Files -> SUBSET Rows]
            /\ par' \subseteq Files
            /\ wr' \in [Task -> WriteCall]
        BY <2>1, <2>3, TypeCreateTemp
      <3> QED
        BY <1>2, <2>4, <3>1 DEF TypeOK, CompactRead, table, history
    <2>6. BusyInv'
      BY <1>2, <2>1, <2>3 DEF BusyInv, TypeOK, CompactRead, CreateTemp
    <2> QED
      BY <2>5, <2>6
  <1>3. CASE CompactReadFails \/ CompactMarkFails
    BY <1>3, FileIdleTypes
       DEF TypeOK, BusyInv, CompactReadFails, CompactMarkFails, storage, table, history
  <1>4. CASE CompactMark
    BY <1>4, FileIdleTypes, TableTypes DEF TypeOK, BusyInv, CompactMark, storage, history
  <1> QED
    BY <1>1, <1>2, <1>3, <1>4 DEF Compact

LEMMA MvNextType ==
    ASSUME NEW todo \in SUBSET Files PROVE MvNext(todo) \in MoverState /\ MvNext(todo).pc \in {"idle", "next"}
  BY FileIdleTypes DEF MvNext, MoverState, MvIdle

LEMMA TypeMove ==
    ASSUME TypeInv, Move \/ \E f \in Files : DelayedRemove(f) \/ DelayedRemoveFails(f)
    PROVE  TypeInv'
  <1> USE DEF TypeInv
  <1>0. mv.todo \subseteq Files
    BY DEF TypeOK, MoverState
  <1>1. CASE MoverQuery
    <2>1. mv' \in MoverState /\ mv'.pc = "filter"
      BY <1>1 DEF MoverQuery, MoverState, Visible
    <2> QED
      BY <1>1, <2>1 DEF TypeOK, BusyInv, MoverQuery, storage, table, history
  <1>2. CASE MoverFilter
    <2>1. mv' \in MoverState /\ mv'.pc \in {"idle", "next"}
      BY <1>0, <1>2, MvNextType DEF MoverFilter
    <2> QED
      BY <1>2, <2>1 DEF TypeOK, BusyInv, MoverFilter, storage, table, history
  <1>3. CASE MoverRead
    <2>1. mv' \in MoverState /\ (mv'.pc \in {"idle", "next"} \/ mv'.file \in Files)
      <3>1. PICK f \in mv.todo :
               \/ mv' = [pc |-> "upload", todo |-> mv.todo \ {f}, file |-> f]
               \/ mv' = MvNext(mv.todo \ {f})
        BY <1>3 DEF MoverRead
      <3>2. CASE mv' = [pc |-> "upload", todo |-> mv.todo \ {f}, file |-> f]
        BY <1>0, <3>2 DEF MoverState
      <3>3. CASE mv' = MvNext(mv.todo \ {f})
        BY <1>0, <3>3, MvNextType
      <3> QED
        BY <3>1, <3>2, <3>3
    <2> QED
      BY <1>3, <2>1 DEF TypeOK, BusyInv, MoverRead, storage, table, history
  <1>4. CASE MoverUpload
    <2>1. mv.file \in Files
      BY <1>4 DEF BusyInv, MoverUpload
    <2>2. mv' \in MoverState /\ mv'.file \in Files
      BY <1>4, <2>1 DEF TypeOK, MoverState, MoverUpload
    <2> QED
      BY <1>4, <2>1, <2>2 DEF TypeOK, BusyInv, MoverUpload, table, history
  <1>5. CASE MoverUploadFails
    <2>1. mv.file \in Files
      BY <1>5 DEF BusyInv, MoverUploadFails
    <2>2. mv' \in MoverState /\ mv'.pc \in {"idle", "next"}
      BY <1>0, <1>5, MvNextType DEF MoverUploadFails
    <2> QED
      BY <1>5, <2>1, <2>2 DEF TypeOK, BusyInv, MoverUploadFails, table, history
  <1>6. CASE MoverUpdate
    <2>1. mv.file \in Files
      BY <1>6 DEF BusyInv, MoverUpdate
    <2>2. mv' \in MoverState /\ mv'.pc \in {"idle", "next"}
      BY <1>0, <1>6, MvNextType DEF MoverUpdate
    <2>3. location' \in [Files -> Location]
      BY <1>6, <2>1, TableTypes DEF MoverUpdate
    <2> QED
      BY <1>6, <2>1, <2>2, <2>3 DEF TypeOK, BusyInv, MoverUpdate, storage, history
  <1>7. CASE MoverUpdateFails
    <2>1. mv.file \in Files
      BY <1>7 DEF BusyInv, MoverUpdateFails
    <2>2. location' \in [Files -> Location]
      BY <1>7, <2>1, TableTypes DEF MoverUpdateFails, TypeOK
    <2>3. mv' \in MoverState /\ mv'.pc = "idle"
      BY <1>7, FileIdleTypes DEF MoverUpdateFails, MvIdle
    <2> QED
      BY <1>7, <2>2, <2>3 DEF TypeOK, BusyInv, MoverUpdateFails, storage, history
  <1>8. CASE \E f \in Files : DelayedRemove(f) \/ DelayedRemoveFails(f)
    BY <1>8 DEF TypeOK, BusyInv, DelayedRemove, DelayedRemoveFails, storage, table, history
  <1> QED
    BY <1>1, <1>2, <1>3, <1>4, <1>5, <1>6, <1>7, <1>8 DEF Move

LEMMA TypeCleanup ==
    ASSUME TypeInv, Cleanup PROVE TypeInv'
  <1> USE DEF TypeInv
  <1>1. CASE CleanupQuery
    <2>1. cl' \in CleanupState
      BY <1>1 DEF CleanupQuery, CleanupState, Visible
    <2> QED
      BY <1>1, <2>1 DEF TypeOK, BusyInv, CleanupQuery, storage, table, history
  <1>2. CASE CleanupMark
    BY <1>2, FileIdleTypes, TableTypes DEF TypeOK, BusyInv, CleanupMark, storage, history
  <1>3. CASE CleanupMarkFails
    BY <1>3, FileIdleTypes DEF TypeOK, BusyInv, CleanupMarkFails, storage, table, history
  <1> QED
    BY <1>1, <1>2, <1>3 DEF Cleanup

(* The reclaimer p is in a state of its type after a step that leaves the  *)
(* other reclaimers alone.                                                 *)
LEMMA TypeReclaim ==
    ASSUME TypeInv, NEW p \in Reclaimers, Reclaim(p) PROVE TypeInv'
  <1> USE DEF TypeInv
  <1>0. /\ rc[p] \in ReclaimState
        /\ rc[p].todo \subseteq Files \X Location
    BY DEF TypeOK, ReclaimState
  <1>1. CASE ReclaimQuery(p)
    <2> DEFINE found == {<<f, location[f]>> : f \in {g \in Files : state[g] = "deleted"}}
    <2>1. found \subseteq Files \X Location
      BY DEF TypeOK
    <2> HIDE DEF found
    <2>2. [RcIdle EXCEPT !.pc = "sweep", !.todo = found] \in ReclaimState
      BY <2>1 DEF RcIdle, ReclaimState, Location
    <2>3. rc' = [rc EXCEPT ![p] = [RcIdle EXCEPT !.pc = "sweep", !.todo = found]]
      BY <1>1 DEF ReclaimQuery, found
    <2>4. rc' \in [Reclaimers -> ReclaimState]
      BY <2>2, <2>3 DEF TypeOK
    <2>5. TypeOK'
      BY <1>1, <2>4 DEF TypeOK, ReclaimQuery, storage, table, history
    <2>6. BusyInv'
      BY <1>1, <2>3 DEF TypeOK, BusyInv, ReclaimQuery, RcIdle
    <2> QED
      BY <2>5, <2>6
  <1>2. CASE ReclaimCheck(p)
    <2>1. PICK x \in rc[p].todo :
            rc' = [rc EXCEPT ![p] =
                     IF leases[x[1]] > 0 THEN [rc[p] EXCEPT !.todo = @ \ {x}]
                     ELSE [[rc[p] EXCEPT !.todo = @ \ {x}] EXCEPT !.pc = "delete", !.item = x]]
      BY <1>2 DEF ReclaimCheck
    <2>2. x \in Files \X Location /\ x[1] \in Files
      BY <1>0
    <2>3. rc'[p] \in ReclaimState /\ (rc'[p].pc = "delete" => rc'[p].item[1] \in Files)
      <3>1. CASE leases[x[1]] > 0
        BY <1>0, <1>2, <2>1, <3>1 DEF ReclaimState, TypeOK, ReclaimCheck
      <3>2. CASE ~(leases[x[1]] > 0)
        BY <1>0, <2>1, <2>2, <3>2 DEF ReclaimState, TypeOK
      <3> QED
        BY <3>1, <3>2
    <2>4. rc' \in [Reclaimers -> ReclaimState] /\ \A u \in Reclaimers : u # p => rc'[u] = rc[u]
      BY <2>1, <2>3 DEF TypeOK
    <2>5. TypeOK'
      BY <1>2, <2>4 DEF TypeOK, ReclaimCheck, storage, table, history
    <2>6. BusyInv'
      BY <1>2, <2>3, <2>4 DEF BusyInv, ReclaimCheck
    <2> QED
      BY <2>5, <2>6
  <1>3. CASE ReclaimDelete(p)
    <2>1. rc[p].item[1] \in Files
      BY <1>3 DEF BusyInv, ReclaimDelete
    <2>2. rc'[p] \in ReclaimState /\ rc'[p].pc = "sweep"
      BY <1>0, <1>3, <2>1 DEF ReclaimState, TypeOK, ReclaimDelete
    <2>3. rc' \in [Reclaimers -> ReclaimState] /\ \A u \in Reclaimers : u # p => rc'[u] = rc[u]
      BY <1>3, <2>2 DEF TypeOK, ReclaimDelete
    <2>4. disk' \subseteq Files /\ s3' \subseteq Files
      BY <1>3 DEF TypeOK, ReclaimDelete
    <2>5. TypeOK'
      BY <1>3, <2>3, <2>4 DEF TypeOK, ReclaimDelete, table, history
    <2>6. BusyInv'
      BY <1>3, <2>2, <2>3 DEF BusyInv, ReclaimDelete
    <2> QED
      BY <2>5, <2>6
  <1>4. CASE ReclaimDeleteFails(p)
    <2>2. rc'[p] \in ReclaimState /\ rc'[p].pc = "sweep"
      BY <1>0, <1>4 DEF ReclaimState, TypeOK, ReclaimDeleteFails
    <2>3. rc' \in [Reclaimers -> ReclaimState] /\ \A u \in Reclaimers : u # p => rc'[u] = rc[u]
      BY <1>4, <2>2 DEF TypeOK, ReclaimDeleteFails
    <2>4. s3' \subseteq Files
      BY <1>4 DEF TypeOK, ReclaimDeleteFails
    <2>5. TypeOK'
      BY <1>4, <2>3, <2>4 DEF TypeOK, ReclaimDeleteFails, table, history
    <2>6. BusyInv'
      BY <1>4, <2>2, <2>3 DEF BusyInv, ReclaimDeleteFails
    <2> QED
      BY <2>5, <2>6
  <1>5. CASE ReclaimCommit(p) \/ ReclaimCommitFails(p)
    <2>1. rc' = [rc EXCEPT ![p] = RcIdle]
      BY <1>5 DEF ReclaimCommit, ReclaimCommitFails
    <2>2. rc' \in [Reclaimers -> ReclaimState]
      BY <2>1, FileIdleTypes DEF TypeOK
    <2>3. state' \in [Files -> FileState] /\ cleaned' \in [Files -> Nat]
      BY <1>5, TableTypes DEF TypeOK, ReclaimCommit, ReclaimCommitFails, table
    <2>4. TypeOK'
      BY <1>5, <2>2, <2>3
         DEF TypeOK, ReclaimCommit, ReclaimCommitFails, storage, table, history
    <2>5. BusyInv'
      BY <1>5, <2>1 DEF TypeOK, BusyInv, ReclaimCommit, ReclaimCommitFails, RcIdle
    <2> QED
      BY <2>4, <2>5
  <1> QED
    BY <1>1, <1>2, <1>3, <1>4, <1>5 DEF Reclaim

(* A query's new state, when the other queries keep theirs. *)
LEMMA TypeReturn ==
    ASSUME TypeOK, NEW q \in Readers, NEW found \in SUBSET (Files \X Location),
           NEW ok \in BOOLEAN, Return(q, found, ok)
    PROVE  rd' \in [Readers -> QueryState] /\ leases' \in [Files -> Nat]
  <1>1. rd[q] \in QueryState
    BY DEF TypeOK
  <1>2. [rd[q] EXCEPT !.pc = "done", !.todo = {}, !.found = found, !.ok = ok] \in QueryState
    BY <1>1 DEF QueryState
  <1> QED
    BY <1>2, TableTypes DEF Return, TypeOK

LEMMA TypeResolved ==
    ASSUME TypeOK, NEW q \in Readers, NEW x \in Files \X Location,
           Resolved(q, x) \/ Skipped(q, x)
    PROVE  rd' \in [Readers -> QueryState]
  <1>1. rd[q] \in QueryState
    BY DEF TypeOK
  <1>2. CASE Resolved(q, x)
    <2>1. [rd[q] EXCEPT !.todo = @ \ {x}, !.found = @ \cup {x}] \in QueryState
      BY <1>1 DEF QueryState
    <2> QED
      BY <1>2, <2>1 DEF Resolved, TypeOK
  <1>3. CASE Skipped(q, x)
    <2>1. [rd[q] EXCEPT !.todo = @ \ {x}] \in QueryState
      BY <1>1 DEF QueryState
    <2> QED
      BY <1>3, <2>1 DEF Skipped, TypeOK
  <1> QED
    BY <1>2, <1>3

LEMMA TypeRead ==
    ASSUME TypeInv, NEW q \in Readers, Read(q) PROVE TypeInv'
  <1> USE DEF TypeInv
  <1>0. /\ rd[q] \in QueryState
        /\ rd[q].todo \subseteq Files \X Location
        /\ rd[q].found \subseteq Files \X Location
    BY DEF TypeOK, QueryState
  <1>1. CASE ReaderQuery(q)
    <2> DEFINE list == {<<f, location[f]>> : f \in Visible}
    <2>1. list \subseteq Files \X Location /\ Visible \subseteq Files
      BY DEF TypeOK, Visible
    <2> HIDE DEF list
    <2>2. [RdIdle EXCEPT !.pc = "listed", !.todo = list, !.listed = Visible] \in QueryState
      BY <2>1 DEF RdIdle, QueryState
    <2>3. rd' = [rd EXCEPT ![q] = [RdIdle EXCEPT !.pc = "listed", !.todo = list, !.listed = Visible]]
      BY <1>1 DEF ReaderQuery, list
    <2>4. rd' \in [Readers -> QueryState]
      BY <2>2, <2>3 DEF TypeOK
    <2> QED
      BY <1>1, <2>4 DEF TypeOK, BusyInv, ReaderQuery, storage, table, history
  <1>2. CASE ReaderAcquire(q)
    <2>1. [rd[q] EXCEPT !.pc = "resolve", !.timely = rd[q].listed \cap Visible] \in QueryState
      BY <1>0 DEF QueryState
    <2>2. rd' \in [Readers -> QueryState] /\ leases' \in [Files -> Nat]
      BY <1>2, <2>1, TableTypes DEF TypeOK, ReaderAcquire
    <2> QED
      BY <1>2, <2>2 DEF TypeOK, BusyInv, ReaderAcquire, storage, table, history
  <1>3. CASE ReaderResolve(q)
    <2>1. PICK x \in rd[q].todo : ResolveLocal(q, x) \/ ResolveS3(q, x)
      BY <1>3 DEF ReaderResolve
    <2>2. x \in Files \X Location /\ x[1] \in Files
      BY <1>0
    <2>3. rd' \in [Readers -> QueryState] /\ leases' \in [Files -> Nat] /\ cache' \subseteq Files
      <3>1. \/ Resolved(q, x) /\ UNCHANGED leases
            \/ Skipped(q, x) /\ UNCHANGED leases
            \/ Return(q, {}, FALSE)
        BY <2>1 DEF ResolveLocal, ResolveS3
      <3>2. cache' \subseteq Files
        BY <2>1, <2>2 DEF ResolveLocal, ResolveS3, TypeOK
      <3>3. rd' \in [Readers -> QueryState] /\ leases' \in [Files -> Nat]
        <4>1. CASE Return(q, {}, FALSE)
          BY <4>1, TypeReturn
        <4>2. CASE (Resolved(q, x) \/ Skipped(q, x)) /\ UNCHANGED leases
          BY <2>2, <4>2, TypeResolved DEF TypeOK
        <4> QED
          BY <3>1, <4>1, <4>2
      <3> QED
        BY <3>2, <3>3
    <2> QED
      BY <1>3, <2>3 DEF TypeOK, BusyInv, ReaderResolve, table, history
  <1>4. CASE ReaderScan(q)
    <2>1. Present(rd[q].found) \subseteq Files \X Location
      BY <1>0 DEF Present
    <2>2. Return(q, Present(rd[q].found), TRUE) \/ Return(q, {}, FALSE)
      BY <1>4 DEF ReaderScan
    <2>3. rd' \in [Readers -> QueryState] /\ leases' \in [Files -> Nat]
      BY <2>1, <2>2, TypeReturn
    <2> QED
      BY <1>4, <2>3 DEF TypeOK, BusyInv, ReaderScan, storage, table, history
  <1> QED
    BY <1>1, <1>2, <1>3, <1>4 DEF Read

LEMMA TypeEnvironment ==
    ASSUME TypeInv, SetCutoff \/ Crash PROVE TypeInv'
  <1> USE DEF TypeInv
  <1>1. CASE SetCutoff
    <2>1. cutoff' \in Nat /\ horizon' \in Nat
      BY <1>1, LifecycleAssumption DEF SetCutoff, TypeOK
    <2> QED
      BY <1>1, <2>1 DEF TypeOK, BusyInv, SetCutoff, storage, table, tasks
  <1>2. CASE Crash
    <2>1. TypeOK'
      BY <1>2, FileIdleTypes DEF TypeOK, Crash, table
    <2>2. BusyInv'
      BY <1>2 DEF BusyInv, Crash, WrIdle, MvIdle, RcIdle
    <2> QED
      BY <2>1, <2>2
  <1> QED
    BY <1>1, <1>2

LEMMA TypeStep == TypeInv /\ [Next]_vars => TypeInv'
  <1> SUFFICES ASSUME TypeInv, [Next]_vars PROVE TypeInv'
    OBVIOUS
  <1>1. CASE UNCHANGED vars
    BY <1>1 DEF TypeInv, TypeOK, BusyInv, vars, storage, table, tasks, history
  <1> QED
    BY <1>1, TypeWrite, TypeCompact, TypeMove, TypeCleanup, TypeReclaim, TypeRead,
       TypeEnvironment DEF Next

(* Type correctness of the file lifecycle: in every configuration, with    *)
(* failures and crashes, a task that works on a file has one and every     *)
(* variable keeps its type.                                                *)
THEOREM FileTypeCorrect == Spec => []TypeOK
  <1>1. Init => TypeInv
    BY FileTypeInit DEF TypeInv, BusyInv, Init, WrIdle, MvIdle, RcIdle
  <1> QED
    BY <1>1, TypeStep, PTL DEF Spec, TypeInv

(***************************************************************************)
(* FileIInv is an invariant when files are fsynced before they are         *)
(* renamed; VisibleHasBytes and StoredRowsVisible follow.                  *)
(***************************************************************************)
(* Each part of the invariant depends on a few variables only. *)
LEMMA FrameBytesSeen ==
    ASSUME VisibleHasBytes, UNCHANGED <<state, location, disk, s3>>
    PROVE  VisibleHasBytes'
  BY DEF VisibleHasBytes, Visible

LEMMA FrameWriter ==
    ASSUME WriterInv, UNCHANGED <<wr, content, state, disk>> PROVE WriterInv'
  BY DEF WriterInv, Registered

LEMMA FrameBytes ==
    ASSUME BytesInv, UNCHANGED <<unsynced, state, content, max_ts>> PROVE BytesInv'
  BY DEF BytesInv, Registered

LEMMA FrameMover ==
    ASSUME MoverInv, UNCHANGED <<mv, doomed, state, location, s3>> PROVE MoverInv'
  BY DEF MoverInv, Registered, Retired

LEMMA FrameReclaim ==
    ASSUME ReclaimInv, UNCHANGED <<rc, state>> PROVE ReclaimInv'
  BY DEF ReclaimInv, Retired

LEMMA FrameCleanup ==
    ASSUME CleanupInv, UNCHANGED <<cutoff, horizon, cl, state, max_ts>> PROVE CleanupInv'
  BY DEF CleanupInv, Registered

LEMMA FrameCompact ==
    ASSUME CompactInv, UNCHANGED <<wr, cmp, state, content, horizon>> PROVE CompactInv'
  BY DEF CompactInv, Registered, CoveredOutside, Visible

LEMMA FrameRows ==
    ASSUME RowsInv, UNCHANGED <<stored, wr, state, content, horizon>> PROVE RowsInv'
  BY DEF RowsInv, CoveredOutside, Visible

(* Everything but the types. *)
SafeInv ==
    /\ VisibleHasBytes
    /\ WriterInv
    /\ BytesInv
    /\ MoverInv
    /\ ReclaimInv
    /\ CleanupInv
    /\ CompactInv
    /\ RowsInv

LEMMA IInvParts == FileIInv <=> TypeInv /\ SafeInv
  BY DEF FileIInv, TypeInv, SafeInv

-----------------------------------------------------------------------------
(* Queries change nothing the invariant is about. *)
LEMMA SafeRead ==
    ASSUME SafeInv, NEW q \in Readers, Read(q) PROVE SafeInv'
  <1>1. UNCHANGED <<content, disk, unsynced, s3, table, wr, cmp, mv, doomed, cl, rc, history>>
    BY DEF Read, ReaderQuery, ReaderAcquire, ReaderResolve, ReaderScan, storage, table, history
  <1> QED
    BY <1>1, FrameBytesSeen, FrameWriter, FrameBytes, FrameMover, FrameReclaim,
       FrameCleanup, FrameCompact, FrameRows DEF SafeInv, table, history

(* A cutoff that moves only ever raises the horizon. *)
LEMMA SafeCutoff ==
    ASSUME TypeInv, SafeInv, SetCutoff PROVE SafeInv'
  <1> USE DEF TypeInv
  <1>1. UNCHANGED <<content, disk, unsynced, s3, table, wr, cmp, mv, doomed, cl, rc, stored>>
    BY DEF SetCutoff, storage, tasks
  <1>2. cutoff' <= horizon' /\ horizon <= horizon' /\ horizon \in Nat /\ horizon' \in Nat
    BY LifecycleAssumption DEF SetCutoff, TypeOK
  <1>3. VisibleHasBytes' /\ WriterInv' /\ BytesInv' /\ MoverInv' /\ ReclaimInv'
    BY <1>1, FrameBytesSeen, FrameWriter, FrameBytes, FrameMover, FrameReclaim
       DEF SafeInv, table
  <1>4. CleanupInv'
    BY <1>1, <1>2 DEF SafeInv, CleanupInv, Registered, TypeOK, CleanupState, table
  <1>5. \A r \in Nat : r > horizon' => r > horizon
    BY <1>2
  <1>6. stored \subseteq Nat /\ \A f \in Files : content[f] \subseteq Nat
    BY LifecycleAssumption DEF TypeOK
  <1>7. cmp.ids \subseteq Files
    BY DEF TypeOK, CompactState
  <1>8. CompactInv'
    BY <1>1, <1>5, <1>6, <1>7 DEF SafeInv, CompactInv, CoveredOutside, Registered, Visible, table
  <1>9. RowsInv'
    <2>1. \A w \in Writers : wr[w].pc = "registered" => wr[w].file \in Files
      BY DEF BusyInv, Task
    <2> QED
      BY <1>1, <1>5, <1>6, <2>1 DEF SafeInv, RowsInv, CoveredOutside, Visible, table
  <1> QED
    BY <1>3, <1>4, <1>8, <1>9 DEF SafeInv

(* A crash loses listings, and no bytes: nothing is unsynced. *)
LEMMA SafeCrash ==
    ASSUME SafeInv, Crash PROVE SafeInv'
  <1>1. UNCHANGED <<content, disk, unsynced, s3, table, cutoff, horizon, stored>>
    BY DEF Crash, SafeInv, BytesInv
  <1>2. VisibleHasBytes' /\ BytesInv'
    BY <1>1, FrameBytesSeen, FrameBytes DEF SafeInv, table
  <1>3. WriterInv'
    BY DEF WriterInv, Crash, WrIdle
  <1>4. MoverInv' /\ ReclaimInv'
    BY DEF MoverInv, ReclaimInv, Crash, MvIdle, RcIdle
  <1>5. CleanupInv'
    BY <1>1 DEF SafeInv, CleanupInv, Crash, ClIdle, Registered, table
  <1>6. CompactInv'
    BY DEF CompactInv, Crash, CmpIdle, WrIdle, Task
  <1>7. RowsInv'
    BY <1>1 DEF SafeInv, RowsInv, CoveredOutside, Visible, Crash, WrIdle, Task, table
  <1> QED
    BY <1>2, <1>3, <1>4, <1>5, <1>6, <1>7 DEF SafeInv

-----------------------------------------------------------------------------
(* Retention and the reclaimer. *)

(* Retiring files of which every unexpired row is visible in a file that   *)
(* stays keeps the rows visible.                                           *)
LEMMA RetireKeeps ==
    ASSUME TypeInv, SafeInv, NEW ids,
           state' = MarkDeleted(ids),
           UNCHANGED <<content, location, max_ts, disk, s3, unsynced, wr, mv, doomed, rc,
                       stored, horizon>>,
           \A r \in Rows : \A f \in ids \cap Visible :
               r > horizon /\ r \in content[f] => \E g \in Visible \ ids : r \in content[g]
    PROVE  /\ VisibleHasBytes'
           /\ WriterInv'
           /\ BytesInv'
           /\ MoverInv'
           /\ ReclaimInv'
           /\ RowsInv'
           /\ Visible' = Visible \ ids
           /\ \A f \in Files : Registered(f) => Registered(f)'
  <1> USE DEF TypeInv
  <1>1. /\ Visible' = Visible \ ids
        /\ \A f \in Files : state[f] = "none" <=> state'[f] = "none"
        /\ \A f \in Files : Retired(f) => Retired(f)'
    BY DEF MarkDeleted, Visible, Retired, TypeOK
  <1>2. VisibleHasBytes' /\ BytesInv'
    BY <1>1 DEF SafeInv, VisibleHasBytes, BytesInv, Visible, Registered
  <1>3. WriterInv'
    BY <1>1 DEF SafeInv, WriterInv, BusyInv, Registered
  <1>4. MoverInv'
    BY <1>1 DEF SafeInv, MoverInv, BusyInv, Registered, TypeOK, MoverState
  <1>5. ReclaimInv'
    <2>1. \A p \in Reclaimers : rc[p].ids \subseteq Files /\ rc[p].todo \subseteq Files \X Location
      BY DEF TypeOK, ReclaimState
    <2>2. \A p \in Reclaimers : \A x \in rc[p].todo : x[1] \in Files
      BY <2>1
    <2> QED
      BY <1>1, <2>1, <2>2 DEF SafeInv, ReclaimInv, BusyInv
  <1>6. ASSUME NEW r \in Rows, r > horizon, \E f \in Visible : r \in content[f]
        PROVE  \E f \in Visible' : r \in content[f]
    BY <1>1, <1>6
  <1>7. RowsInv'
    <2>1. \A w \in Writers : wr[w].pc = "registered" => content[wr[w].file] \subseteq Rows
      BY DEF BusyInv, TypeOK, Task
    <2>2. stored \subseteq Rows
      BY DEF TypeOK
    <2> QED
      BY <1>6, <2>1, <2>2 DEF SafeInv, RowsInv, CoveredOutside
  <1> QED
    BY <1>1, <1>2, <1>3, <1>4, <1>5, <1>7 DEF Registered

LEMMA SafeCleanup ==
    ASSUME TypeInv, SafeInv, Cleanup PROVE SafeInv'
  <1> USE DEF TypeInv
  <1>1. CASE CleanupQuery
    <2>1. CleanupInv'
      <3>1. \A f \in Visible : Expired(f) => Registered(f) /\ max_ts[f] <= horizon
        BY DEF Visible, Expired, Registered, SafeInv, CleanupInv, TypeOK
      <3> QED
        BY <1>1, <3>1 DEF SafeInv, CleanupInv, CleanupQuery, Registered, table, history
    <2> QED
      BY <1>1, <2>1, FrameBytesSeen, FrameWriter, FrameBytes, FrameMover, FrameReclaim,
         FrameCompact, FrameRows DEF SafeInv, CleanupQuery, storage, table, history
  <1>2. CASE CleanupMark
    <2>1. \A f \in cl.ids : \A r \in Rows : r \in content[f] => ~(r > horizon)
      <3>1. cl.ids \subseteq Files /\ Rows \subseteq Nat
        BY LifecycleAssumption DEF TypeOK, CleanupState
      <3> QED
        BY <3>1 DEF SafeInv, CleanupInv, BytesInv, TypeOK
    <2>2. /\ VisibleHasBytes'
          /\ WriterInv'
          /\ BytesInv'
          /\ MoverInv'
          /\ ReclaimInv'
          /\ RowsInv'
          /\ Visible' = Visible \ cl.ids
          /\ \A f \in Files : Registered(f) => Registered(f)'
      BY <1>2, <2>1, RetireKeeps DEF CleanupMark, storage, history
    <2>3. CleanupInv'
      BY <1>2 DEF SafeInv, CleanupInv, CleanupMark, ClIdle, history
    <2>4. CompactInv'
      <3>1. /\ cmp.ids \subseteq Files
            /\ \A f \in Files : content[f] \subseteq Rows
            /\ UNCHANGED <<content, wr, cmp, horizon>>
        BY <1>2 DEF TypeOK, CompactState, CleanupMark, storage, history
      <3>2. ASSUME NEW r \in UNION {content[f] : f \in cmp.ids}, r > horizon,
                   NEW g \in Visible \ cmp.ids, r \in content[g]
            PROVE  g \in Visible' \ cmp.ids
        <4>1. g \notin cl.ids
          BY <2>1, <3>1, <3>2
        <4> QED
          BY <2>2, <4>1
      <3> QED
        BY <2>2, <3>1, <3>2 DEF SafeInv, CompactInv, CoveredOutside
    <2> QED
      BY <2>2, <2>3, <2>4 DEF SafeInv
  <1>3. CASE CleanupMarkFails
    <2>1. CleanupInv'
      BY <1>3 DEF SafeInv, CleanupInv, CleanupMarkFails, ClIdle, history
    <2> QED
      BY <1>3, <2>1, FrameBytesSeen, FrameWriter, FrameBytes, FrameMover, FrameReclaim,
         FrameCompact, FrameRows DEF SafeInv, CleanupMarkFails, storage, table, history
  <1> QED
    BY <1>1, <1>2, <1>3 DEF Cleanup
(* What the reclaimer removes, its listing said was retired, and retired   *)
(* files stay retired.                                                     *)
LEMMA SafeReclaim ==
    ASSUME TypeInv, SafeInv, NEW p \in Reclaimers, Reclaim(p) PROVE SafeInv'
  <1> USE DEF TypeInv
  <1>0. /\ rc[p].todo \subseteq Files \X Location
        /\ rc[p].ids \subseteq Files
        /\ rc[p].pc # "delete" \/ (rc[p].item[1] \in Files /\ Retired(rc[p].item[1]))
    BY DEF TypeOK, ReclaimState, BusyInv, SafeInv, ReclaimInv
  <1>1. CASE ReclaimQuery(p)
    <2>1. /\ \A u \in Reclaimers : u # p => rc'[u] = rc[u]
          /\ rc'[p].todo = {<<f, location[f]>> : f \in {g \in Files : state[g] = "deleted"}}
          /\ rc'[p].pc = "sweep"
          /\ rc'[p].ids = {}
      BY <1>1 DEF ReclaimQuery, TypeOK, RcIdle
    <2>2. \A x \in rc'[p].todo : Retired(x[1])
      BY <2>1 DEF Retired
    <2>3. ReclaimInv'
      BY <1>1, <2>1, <2>2 DEF SafeInv, ReclaimInv, ReclaimQuery, Retired, table
    <2> QED
      BY <1>1, <2>3, FrameBytesSeen, FrameWriter, FrameBytes, FrameMover, FrameCleanup,
         FrameCompact, FrameRows DEF SafeInv, ReclaimQuery, storage, table, history
  <1>2. CASE ReclaimCheck(p)
    <2>1. PICK x \in rc[p].todo :
            rc' = [rc EXCEPT ![p] =
                     IF leases[x[1]] > 0 THEN [rc[p] EXCEPT !.todo = @ \ {x}]
                     ELSE [[rc[p] EXCEPT !.todo = @ \ {x}] EXCEPT !.pc = "delete", !.item = x]]
      BY <1>2 DEF ReclaimCheck
    <2>2. rc[p] \in ReclaimState
      BY DEF TypeOK
    <2>3. /\ \A u \in Reclaimers : u # p => rc'[u] = rc[u]
          /\ rc'[p].todo \subseteq rc[p].todo
          /\ rc'[p].ids = rc[p].ids
          /\ rc'[p].pc = "delete" => rc'[p].item = x
      <3>1. CASE leases[x[1]] > 0
        BY <1>2, <2>1, <2>2, <3>1 DEF TypeOK, ReclaimCheck, ReclaimState
      <3>2. CASE ~(leases[x[1]] > 0)
        BY <2>1, <2>2, <3>2 DEF TypeOK, ReclaimState
      <3> QED
        BY <3>1, <3>2
    <2>4. ReclaimInv'
      BY <1>2, <2>3 DEF SafeInv, ReclaimInv, ReclaimCheck, Retired, table
    <2> QED
      BY <1>2, <2>4, FrameBytesSeen, FrameWriter, FrameBytes, FrameMover, FrameCleanup,
         FrameCompact, FrameRows DEF SafeInv, ReclaimCheck, storage, table, history
  <1>3. CASE ReclaimDelete(p) \/ ReclaimDeleteFails(p)
    <2> DEFINE f == rc[p].item[1]
    <2>1. f \in Files /\ Retired(f)
      BY <1>0, <1>3 DEF ReclaimDelete, ReclaimDeleteFails
    <2>2. \A g \in Files : g # f => (g \in disk <=> g \in disk') /\ (g \in s3 <=> g \in s3')
      <3>1. CASE ReclaimDelete(p)
        BY <3>1 DEF ReclaimDelete
      <3>2. CASE ReclaimDeleteFails(p)
        BY <3>2 DEF ReclaimDeleteFails
      <3> QED
        BY <1>3, <3>1, <3>2
    <2>3. UNCHANGED <<content, unsynced, table, wr, cmp, mv, doomed, cl, history>>
      BY <1>3 DEF ReclaimDelete, ReclaimDeleteFails
    <2> HIDE DEF f
    <2>4. VisibleHasBytes'
      BY <2>1, <2>2, <2>3 DEF SafeInv, VisibleHasBytes, Visible, Retired, table
    <2>5. WriterInv'
      <3>1. \A t \in Task : wr[t].pc \in {"temp", "renamed"} => wr[t].file # f
        BY <2>1 DEF SafeInv, WriterInv, Retired
      <3> QED
        BY <2>2, <2>3, <3>1 DEF SafeInv, WriterInv, BusyInv, Registered, table
    <2>6. MoverInv'
      BY <2>1, <2>2, <2>3 DEF SafeInv, MoverInv, BusyInv, Registered, Retired, table
    <2>7. ReclaimInv'
      <3>1. /\ \A u \in Reclaimers : u # p => rc'[u] = rc[u]
            /\ rc'[p].todo = rc[p].todo
            /\ rc'[p].ids \subseteq rc[p].ids \cup {f}
            /\ rc'[p].pc = "sweep"
        <4>1. CASE ReclaimDelete(p)
          BY <4>1 DEF ReclaimDelete, TypeOK, ReclaimState, f
        <4>2. CASE ReclaimDeleteFails(p)
          BY <4>2 DEF ReclaimDeleteFails, TypeOK, ReclaimState
        <4> QED
          BY <1>3, <4>1, <4>2
      <3> QED
        BY <2>1, <2>3, <3>1 DEF SafeInv, ReclaimInv, Retired, table
    <2> QED
      BY <2>3, <2>4, <2>5, <2>6, <2>7, FrameBytes, FrameCleanup, FrameCompact, FrameRows
         DEF SafeInv, table, history
  <1>4. CASE ReclaimCommit(p)
    <2>1. \A f \in rc[p].ids : Retired(f)
      BY DEF SafeInv, ReclaimInv
    <2>2. /\ \A f \in Files : state[f] = "none" <=> state'[f] = "none"
          /\ \A f \in Files : Retired(f) => Retired(f)'
          /\ Visible' = Visible
      BY <1>4, <2>1 DEF ReclaimCommit, DeleteEntries, Retired, Visible, TypeOK
    <2>3. UNCHANGED <<storage, location, max_ts, wr, cmp, mv, doomed, cl, history>>
      BY <1>4 DEF ReclaimCommit
    <2>4. VisibleHasBytes' /\ BytesInv'
      BY <2>2, <2>3 DEF SafeInv, VisibleHasBytes, BytesInv, Registered, storage
    <2>5. WriterInv'
      BY <2>2, <2>3 DEF SafeInv, WriterInv, BusyInv, Registered, storage
    <2>6. MoverInv'
      BY <2>2, <2>3 DEF SafeInv, MoverInv, BusyInv, Registered, TypeOK, MoverState, storage
    <2>7. ReclaimInv'
      <3>1. \A u \in Reclaimers : rc[u].ids \subseteq Files /\ rc[u].todo \subseteq Files \X Location
        BY DEF TypeOK, ReclaimState
      <3>2. \A u \in Reclaimers : \A x \in rc[u].todo : x[1] \in Files
        BY <3>1
      <3>3. \A u \in Reclaimers : rc'[u] = IF u = p THEN RcIdle ELSE rc[u]
        BY <1>4 DEF ReclaimCommit, TypeOK
      <3>4. ASSUME NEW u \in Reclaimers
            PROVE /\ \A x \in rc'[u].todo : Retired(x[1])'
                  /\ rc'[u].pc = "delete" => Retired(rc[u].item[1])' /\ rc'[u].item = rc[u].item
                  /\ \A f \in rc'[u].ids : Retired(f)'
        <4>1. CASE u = p
          BY <3>3, <4>1 DEF RcIdle
        <4>2. CASE u # p
          BY <2>2, <3>1, <3>2, <3>3, <4>2 DEF SafeInv, ReclaimInv, BusyInv
        <4> QED
          BY <4>1, <4>2
      <3> QED
        BY <3>4 DEF ReclaimInv, Retired
    <2>8. CleanupInv'
      BY <2>2, <2>3 DEF SafeInv, CleanupInv, Registered, TypeOK, CleanupState, history
    <2>9. CompactInv' /\ RowsInv'
      BY <2>2, <2>3 DEF SafeInv, CompactInv, RowsInv, CoveredOutside, Registered, TypeOK,
                        CompactState, storage, history
    <2> QED
      BY <2>4, <2>5, <2>6, <2>7, <2>8, <2>9 DEF SafeInv
  <1>5. CASE ReclaimCommitFails(p)
    <2>1. \A u \in Reclaimers : rc'[u] = IF u = p THEN RcIdle ELSE rc[u]
      BY <1>5 DEF ReclaimCommitFails, TypeOK
    <2>2. ReclaimInv'
      BY <1>5, <2>1 DEF SafeInv, ReclaimInv, ReclaimCommitFails, RcIdle, Retired, table
    <2> QED
      BY <1>5, <2>2, FrameBytesSeen, FrameWriter, FrameBytes, FrameMover, FrameCleanup,
         FrameCompact, FrameRows DEF SafeInv, ReclaimCommitFails, storage, table, history
  <1> QED
    BY <1>1, <1>2, <1>3, <1>4, <1>5 DEF Reclaim

-----------------------------------------------------------------------------
(* The mover. *)

LEMMA MvNextSafe ==
    ASSUME NEW todo
    PROVE  MvNext(todo).todo = todo /\ MvNext(todo).pc \in {"idle", "next"}
  BY DEF MvNext, MvIdle

LEMMA SafeMove ==
    ASSUME TypeInv, SafeInv, Move PROVE SafeInv'
  <1> USE DEF TypeInv
  <1>1. CASE MoverQuery \/ MoverFilter \/ MoverRead
    <2>1. UNCHANGED <<storage, table, wr, cmp, doomed, cl, rc, history>>
      BY <1>1 DEF MoverQuery, MoverFilter, MoverRead
    <2>2. MoverInv'
      <3>1. /\ \A f \in mv'.todo : Registered(f)
            /\ mv'.pc \in {"upload", "update"} => mv'.pc = "upload" /\ Registered(mv'.file)
        <4>1. CASE MoverQuery
          BY <4>1 DEF MoverQuery, Visible, Registered
        <4>2. CASE MoverFilter
          BY <4>2, MvNextSafe DEF MoverFilter, SafeInv, MoverInv
        <4>3. CASE MoverRead
          <5>1. PICK f \in mv.todo :
                   \/ mv' = [pc |-> "upload", todo |-> mv.todo \ {f}, file |-> f]
                   \/ mv' = MvNext(mv.todo \ {f})
            BY <4>3 DEF MoverRead
          <5>2. \A g \in mv.todo : Registered(g)
            BY DEF SafeInv, MoverInv
          <5> QED
            BY <5>1, <5>2, MvNextSafe
        <4> QED
          BY <1>1, <4>1, <4>2, <4>3
      <3> QED
        BY <2>1, <3>1 DEF SafeInv, MoverInv, Registered, Retired, table
    <2> QED
      BY <2>1, <2>2, FrameBytesSeen, FrameWriter, FrameBytes, FrameReclaim, FrameCleanup,
         FrameCompact, FrameRows DEF SafeInv, storage, table, history
  <1>2. CASE MoverUpload \/ MoverUploadFails
    <2>1. UNCHANGED <<content, disk, unsynced, table, wr, cmp, doomed, cl, rc, history>>
      BY <1>2 DEF MoverUpload, MoverUploadFails
    <2>2. s3 \subseteq s3'
      BY <1>2 DEF MoverUpload, MoverUploadFails
    <2>3. VisibleHasBytes'
      BY <2>1, <2>2 DEF SafeInv, VisibleHasBytes, Visible, table
    <2>4. MoverInv'
      <3>1. CASE MoverUpload
        <4>1. mv'.todo = mv.todo /\ mv'.file = mv.file /\ mv'.pc = "update" /\ mv.file \in s3'
          BY <3>1 DEF MoverUpload, TypeOK, MoverState
        <4> QED
          BY <2>1, <3>1, <4>1 DEF SafeInv, MoverInv, MoverUpload, Registered, Retired, table
      <3>2. CASE MoverUploadFails
        <4>1. mv'.todo = mv.todo /\ mv'.pc \in {"idle", "next"}
          BY <3>2, MvNextSafe DEF MoverUploadFails
        <4> QED
          BY <2>1, <4>1 DEF SafeInv, MoverInv, Registered, Retired, table
      <3> QED
        BY <1>2, <3>1, <3>2
    <2> QED
      BY <2>1, <2>3, <2>4, FrameWriter, FrameBytes, FrameReclaim, FrameCleanup,
         FrameCompact, FrameRows DEF SafeInv, table, history
  <1>3. CASE MoverUpdate \/ MoverUpdateFails
    <2>1. UNCHANGED <<storage, state, max_ts, wr, cmp, cl, rc, history>>
      BY <1>3 DEF MoverUpdate, MoverUpdateFails
    <2>2. /\ mv.file \in Files
          /\ Registered(mv.file)
          /\ mv.file \in s3 \/ Retired(mv.file)
      BY <1>3 DEF SafeInv, MoverInv, BusyInv, MoverUpdate, MoverUpdateFails
    <2>3. \A f \in Files : location'[f] = location[f] \/ (f = mv.file /\ location'[f] = "s3")
      BY <1>3, <2>2 DEF MoverUpdate, MoverUpdateFails, UpdateLocation, TypeOK
    <2>4. VisibleHasBytes'
      BY <2>1, <2>2, <2>3 DEF SafeInv, VisibleHasBytes, Visible, Retired, storage
    <2>5. MoverInv'
      <3>1. mv'.todo \subseteq mv.todo /\ mv'.pc \in {"idle", "next"}
        BY <1>3, MvNextSafe DEF MoverUpdate, MoverUpdateFails, MvIdle
      <3>2. \A f \in doomed' : f \in Files /\ Registered(f) /\ (location'[f] = "s3" \/ Retired(f))
        <4>1. \A f \in doomed : f \in Files /\ Registered(f) /\ (location'[f] = "s3" \/ Retired(f))
          BY <2>3 DEF SafeInv, MoverInv, TypeOK
        <4>2. CASE MoverUpdate
          <5>1. location'[mv.file] = "s3" \/ Retired(mv.file)
            BY <2>2, <4>2 DEF MoverUpdate, UpdateLocation, Retired, TypeOK
          <5> QED
            BY <2>2, <4>1, <4>2, <5>1 DEF MoverUpdate
        <4>3. CASE MoverUpdateFails
          BY <4>1, <4>3 DEF MoverUpdateFails
        <4> QED
          BY <1>3, <4>2, <4>3
      <3> QED
        BY <2>1, <3>1, <3>2 DEF SafeInv, MoverInv, Registered, Retired
    <2> QED
      BY <2>1, <2>4, <2>5, FrameWriter, FrameBytes, FrameReclaim, FrameCleanup,
         FrameCompact, FrameRows DEF SafeInv, storage, history
  <1> QED
    BY <1>1, <1>2, <1>3 DEF Move

(* The delayed removal takes a local copy nobody visible points to. *)
LEMMA SafeDelayedRemove ==
    ASSUME TypeInv, SafeInv, NEW f \in Files, DelayedRemove(f) \/ DelayedRemoveFails(f)
    PROVE  SafeInv'
  <1> USE DEF TypeInv
  <1>1. /\ UNCHANGED <<content, unsynced, s3, table, wr, cmp, mv, cl, rc, history>>
        /\ \A g \in Files : g # f => (g \in disk <=> g \in disk')
        /\ doomed' \subseteq doomed
        /\ Registered(f) /\ (location[f] = "s3" \/ Retired(f))
    BY DEF DelayedRemove, DelayedRemoveFails, SafeInv, MoverInv, storage
  <1>2. VisibleHasBytes'
    BY <1>1 DEF SafeInv, VisibleHasBytes, Visible, Retired, table
  <1>3. WriterInv'
    <2>1. \A t \in Task : wr[t].pc \in {"temp", "renamed"} => wr[t].file # f
      BY <1>1 DEF SafeInv, WriterInv, Registered
    <2> QED
      BY <1>1, <2>1 DEF SafeInv, WriterInv, BusyInv, Registered, table
  <1>4. MoverInv'
    BY <1>1 DEF SafeInv, MoverInv, Registered, Retired, table
  <1> QED
    BY <1>1, <1>2, <1>3, <1>4, FrameBytes, FrameReclaim, FrameCleanup, FrameCompact,
       FrameRows DEF SafeInv, table, history
-----------------------------------------------------------------------------
(* Writers and the compactor. *)

(* Creating a file leaves what is registered or being written alone. *)
LEMMA CreateTempSafe ==
    ASSUME TypeInv, SafeInv, NEW t \in Task, NEW rows \in SUBSET Rows, NEW ts \in Nat,
           CreateTemp(t, rows, ts), wr[t].pc = "idle", \A r \in rows : r <= ts,
           UNCHANGED <<disk, unsynced, state, max_ts, stored, horizon>>
    PROVE  /\ WriterInv'
           /\ BytesInv'
           /\ RowsInv'
           /\ \E f \in Files :
                /\ state[f] = "none"
                /\ \A u \in Task : wr[u].file # f
                /\ content' = [content EXCEPT ![f] = rows]
                /\ wr' = [wr EXCEPT ![t] = [pc |-> "temp", file |-> f, ts |-> ts]]
  <1> USE DEF TypeInv
  <1>1. PICK f \in Files :
          /\ Fresh(f)
          /\ content' = [content EXCEPT ![f] = rows]
          /\ wr' = [wr EXCEPT ![t] = [pc |-> "temp", file |-> f, ts |-> ts]]
    BY DEF CreateTemp
  <1>2. state[f] = "none" /\ \A u \in Task : wr[u].file # f
    BY <1>1 DEF Fresh
  <1>3. /\ content'[f] = rows
        /\ \A g \in Files : g # f => content'[g] = content[g]
        /\ wr'[t] = [pc |-> "temp", file |-> f, ts |-> ts]
        /\ \A u \in Task : u # t => wr'[u] = wr[u]
    BY <1>1 DEF TypeOK
  <1>4. WriterInv'
    <2> SUFFICES ASSUME NEW u \in Task
                 PROVE  /\ wr'[u].pc = "idle" => wr'[u].file = NoFile
                        /\ wr'[u].pc # "idle" =>
                              /\ \A v \in Task : wr'[v].file = wr'[u].file => v = u
                              /\ \A r \in content'[wr'[u].file] : r <= wr'[u].ts
                        /\ wr'[u].pc \in {"temp", "renamed"} => state'[wr'[u].file] = "none"
                        /\ wr'[u].pc = "renamed" => wr'[u].file \in disk'
                        /\ wr'[u].pc = "registered" => state'[wr'[u].file] # "none"
      BY DEF WriterInv, Registered
    <2>1. CASE u = t
      BY <1>2, <1>3, <2>1
    <2>2. CASE u # t
      <3>1. wr'[u] = wr[u] /\ (wr[u].pc # "idle" => wr[u].file \in Files /\ content'[wr[u].file] = content[wr[u].file])
        BY <1>2, <1>3, <2>2 DEF BusyInv
      <3>2. \A v \in Task : wr'[v].file = wr[u].file => v # t
        BY <1>2, <1>3
      <3> QED
        BY <1>3, <2>2, <3>1, <3>2 DEF SafeInv, WriterInv, Registered
    <2> QED
      BY <2>1, <2>2
  <1>5. BytesInv'
    BY <1>2, <1>3 DEF SafeInv, BytesInv, Registered
  <1>6. RowsInv'
    <2>1. Visible' = Visible /\ f \notin Visible /\ Visible \subseteq Files
      BY <1>2 DEF Visible
    <2>2. \A w \in Writers : wr'[w].pc = "registered" =>
             wr[w].pc = "registered" /\ content'[wr'[w].file] = content[wr[w].file]
      BY <1>2, <1>3 DEF Task, BusyInv
    <2>3. \A g \in Visible : content'[g] = content[g]
      BY <1>3, <2>1
    <2> QED
      BY <2>1, <2>2, <2>3 DEF SafeInv, RowsInv, CoveredOutside
  <1> QED
    BY <1>1, <1>2, <1>4, <1>5, <1>6

LEMMA SafeWriteBatch ==
    ASSUME TypeInv, SafeInv, NEW w \in Writers, WriteBatch(w) PROVE SafeInv'
  <1> USE DEF TypeInv
  <1>1. PICK rows \in SUBSET Pending :
          \E ts \in rows : (\A r \in rows : r <= ts) /\ CreateTemp(w, rows, ts)
    BY DEF WriteBatch
  <1>2. PICK ts \in rows : (\A r \in rows : r <= ts) /\ CreateTemp(w, rows, ts)
    BY <1>1
  <1>3. rows \in SUBSET Rows /\ ts \in Nat /\ w \in Task /\ w # "compactor" /\ "compactor" \in Task
    BY LifecycleAssumption DEF Pending, Task
  <1>4. UNCHANGED <<disk, unsynced, s3, table, cmp, mv, doomed, cl, rc, history>> /\ wr[w].pc = "idle"
    BY DEF WriteBatch
  <1>5. /\ WriterInv' /\ BytesInv' /\ RowsInv'
        /\ \E f \in Files :
             /\ state[f] = "none"
             /\ \A u \in Task : wr[u].file # f
             /\ content' = [content EXCEPT ![f] = rows]
             /\ wr' = [wr EXCEPT ![w] = [pc |-> "temp", file |-> f, ts |-> ts]]
    BY <1>2, <1>3, <1>4, CreateTempSafe DEF table, history
  <1>6. PICK f \in Files :
             /\ state[f] = "none"
             /\ \A u \in Task : wr[u].file # f
             /\ content' = [content EXCEPT ![f] = rows]
             /\ wr' = [wr EXCEPT ![w] = [pc |-> "temp", file |-> f, ts |-> ts]]
    BY <1>5
  <1>7. CompactInv'
    <2>1. wr'["compactor"] = wr["compactor"]
      BY <1>3, <1>6 DEF TypeOK
    <2>2. cmp.ids \subseteq Files /\ f \notin cmp.ids /\ f \notin Visible
      BY <1>6 DEF TypeOK, CompactState, SafeInv, CompactInv, Registered, Visible
    <2>3. \A g \in Files : g # f => content'[g] = content[g]
      BY <1>6 DEF TypeOK
    <2>4. UNION {content'[g] : g \in cmp.ids} = UNION {content[g] : g \in cmp.ids}
      BY <2>2, <2>3
    <2>5. Visible' = Visible /\ \A g \in Visible : content'[g] = content[g]
      BY <1>4, <2>2, <2>3 DEF Visible, table
    <2>6. wr["compactor"].pc # "idle" => content'[wr["compactor"].file] = content[wr["compactor"].file]
      BY <1>3, <1>6, <2>3 DEF BusyInv
    <2> QED
      BY <1>4, <2>1, <2>4, <2>5, <2>6 DEF SafeInv, CompactInv, CoveredOutside, Registered, table, history
  <1> QED
    BY <1>4, <1>5, <1>7, FrameBytesSeen, FrameMover, FrameReclaim, FrameCleanup
       DEF SafeInv, table, history

LEMMA SafeRename ==
    ASSUME FsyncBeforeRename = TRUE, TypeInv, SafeInv, NEW t \in Task, Rename(t) PROVE SafeInv'
  <1> USE DEF TypeInv
  <1>1. /\ UNCHANGED <<content, unsynced, s3, table, cmp, mv, doomed, cl, rc, history>>
        /\ disk' = disk \cup {wr[t].file}
        /\ wr[t].pc = "temp"
        /\ wr' = [wr EXCEPT ![t].pc = "renamed"]
    BY DEF Rename
  <1>2. /\ \A u \in Task : u # t => wr'[u] = wr[u]
        /\ wr'[t].file = wr[t].file /\ wr'[t].ts = wr[t].ts /\ wr'[t].pc = "renamed"
    BY <1>1 DEF TypeOK, WriteCall
  <1>3. VisibleHasBytes'
    BY <1>1 DEF SafeInv, VisibleHasBytes, Visible, table
  <1>4. WriterInv'
    <2>1. \A u \in Task : wr'[u].file = wr[u].file /\ wr'[u].ts = wr[u].ts
      BY <1>2
    <2>2. \A u \in Task : wr'[u].pc = wr[u].pc \/ (u = t /\ wr[u].pc = "temp" /\ wr'[u].pc = "renamed")
      BY <1>1, <1>2
    <2> QED
      BY <1>1, <2>1, <2>2 DEF SafeInv, WriterInv, Registered, table
  <1>5. CompactInv' /\ RowsInv'
    <2>1. \A u \in Task : wr'[u].file = wr[u].file
      BY <1>2
    <2>2. \A u \in Task : /\ wr'[u].pc = "registered" <=> wr[u].pc = "registered"
                          /\ wr'[u].pc = "idle" <=> wr[u].pc = "idle"
      BY <1>1, <1>2
    <2>3. "compactor" \in Task /\ Writers \subseteq Task
      BY DEF Task
    <2>4. CompactInv'
      BY <1>1, <2>1, <2>2, <2>3
         DEF SafeInv, CompactInv, CoveredOutside, Registered, Visible, table, history
    <2>5. RowsInv'
      BY <1>1, <2>1, <2>2, <2>3 DEF SafeInv, RowsInv, CoveredOutside, Visible, table, history
    <2> QED
      BY <2>4, <2>5
  <1> QED
    BY <1>1, <1>3, <1>4, <1>5, FrameBytes, FrameMover, FrameReclaim, FrameCleanup
       DEF SafeInv, table, history

(* A registered file makes its rows visible: those of a write, and those of *)
(* a compacted group outside the group.                                     *)
LEMMA SafeRegister ==
    ASSUME TypeInv, SafeInv, NEW t \in Task, RegisterFile(t) PROVE SafeInv'
  <1> USE DEF TypeInv
  <1> DEFINE f == wr[t].file
  <1>1. /\ UNCHANGED <<storage, cmp, mv, doomed, cl, rc, history>>
        /\ wr[t].pc = "renamed"
        /\ f \in Files
        /\ state' = [state EXCEPT ![f] = "visible"]
        /\ location' = [location EXCEPT ![f] = "local"]
        /\ max_ts' = [max_ts EXCEPT ![f] = wr[t].ts]
        /\ wr' = [wr EXCEPT ![t].pc = "registered"]
    BY DEF RegisterFile, BusyInv
  <1>2. /\ state[f] = "none" /\ f \in disk
        /\ \A u \in Task : u # t => wr[u].file # f
        /\ \A r \in content[f] : r <= wr[t].ts
    BY <1>1 DEF SafeInv, WriterInv
  <1>3. /\ \A u \in Task : wr'[u].file = wr[u].file /\ wr'[u].ts = wr[u].ts
        /\ \A u \in Task : u # t => wr'[u].pc = wr[u].pc
        /\ wr'[t].pc = "registered"
    BY <1>1 DEF TypeOK, WriteCall
  <1>4. /\ state'[f] = "visible" /\ location'[f] = "local" /\ max_ts'[f] = wr[t].ts
        /\ \A g \in Files : g # f =>
              state'[g] = state[g] /\ location'[g] = location[g] /\ max_ts'[g] = max_ts[g]
        /\ Visible' = Visible \cup {f}
    BY <1>1 DEF TypeOK, Visible
  <1>5. \A g \in Files : Registered(g) => g # f
    BY <1>2 DEF Registered
  <1> HIDE DEF f
  <1>6. VisibleHasBytes' /\ BytesInv'
    BY <1>1, <1>2, <1>4 DEF SafeInv, VisibleHasBytes, BytesInv, Registered, Visible, storage
  <1>7. WriterInv'
    <2> SUFFICES ASSUME NEW u \in Task
                 PROVE  /\ wr'[u].pc = "idle" => wr'[u].file = NoFile
                        /\ wr'[u].pc # "idle" =>
                              /\ \A v \in Task : wr'[v].file = wr'[u].file => v = u
                              /\ \A r \in content'[wr'[u].file] : r <= wr'[u].ts
                        /\ wr'[u].pc \in {"temp", "renamed"} => state'[wr'[u].file] = "none"
                        /\ wr'[u].pc = "renamed" => wr'[u].file \in disk'
                        /\ wr'[u].pc = "registered" => state'[wr'[u].file] # "none"
      BY DEF WriterInv, Registered
    <2>1. CASE u = t
      BY <1>1, <1>3, <1>4, <2>1 DEF SafeInv, WriterInv, storage, f
    <2>2. CASE u # t
      BY <1>1, <1>2, <1>3, <1>4, <2>2 DEF SafeInv, WriterInv, BusyInv, Registered, storage
    <2> QED
      BY <2>1, <2>2
  <1>8. MoverInv'
    BY <1>1, <1>4, <1>5 DEF SafeInv, MoverInv, BusyInv, TypeOK, MoverState, Registered, Retired, storage
  <1>9. ReclaimInv'
    <2>1. \A p \in Reclaimers : rc[p].ids \subseteq Files /\ rc[p].todo \subseteq Files \X Location
      BY DEF TypeOK, ReclaimState
    <2>2. \A p \in Reclaimers : \A x \in rc[p].todo : x[1] \in Files
      BY <2>1
    <2>3. \A g \in Files : Retired(g) => Retired(g)'
      BY <1>2, <1>4 DEF Retired
    <2> QED
      BY <1>1, <2>1, <2>2, <2>3 DEF SafeInv, ReclaimInv, BusyInv
  <1>10. CleanupInv'
    BY <1>1, <1>4, <1>5 DEF SafeInv, CleanupInv, TypeOK, CleanupState, Registered, history
  <1>11. CompactInv'
    <2>1. /\ cmp.ids \subseteq Files
          /\ f \notin cmp.ids
          /\ \A g \in cmp.ids : Registered(g)'
      BY <1>4, <1>5 DEF TypeOK, CompactState, SafeInv, CompactInv, Registered
    <2>2. CASE t = "compactor"
      <3>1. /\ cmp.pc = "writing"
            /\ content[f] = UNION {content[g] : g \in cmp.ids}
            /\ wr'["compactor"].file = f
            /\ wr'["compactor"].pc = "registered"
        BY <1>1, <1>3, <2>2 DEF SafeInv, CompactInv, f
      <3>2. CoveredOutside(UNION {content[g] : g \in cmp.ids}, cmp.ids)'
        BY <1>1, <1>4, <2>1, <3>1 DEF CoveredOutside, storage
      <3> QED
        BY <1>1, <2>1, <3>1, <3>2 DEF CompactInv, storage
    <2>3. CASE t # "compactor"
      <3>1. wr'["compactor"].file = wr["compactor"].file /\ wr'["compactor"].pc = wr["compactor"].pc
        BY <1>3, <2>3 DEF Task
      <3> QED
        BY <1>1, <1>4, <2>1, <3>1 DEF SafeInv, CompactInv, CoveredOutside, storage, history
    <2> QED
      BY <2>2, <2>3
  <1>12. RowsInv'
    <2>1. CoveredOutside(stored, {})'
      BY <1>1, <1>4 DEF SafeInv, RowsInv, CoveredOutside, storage, history
    <2>2. ASSUME NEW w \in Writers, wr'[w].pc = "registered"
          PROVE  CoveredOutside(content[wr[w].file], {})'
      <3>1. wr'[w].file = wr[w].file
        BY <1>3 DEF Task
      <3>2. CASE w = t
        BY <1>1, <1>4, <3>1, <3>2 DEF CoveredOutside, storage, history, f
      <3>3. CASE w # t
        <4>1. wr[w].pc = "registered"
          BY <1>3, <2>2, <3>3 DEF Task
        <4> QED
          BY <1>1, <1>4, <3>1, <4>1 DEF SafeInv, RowsInv, CoveredOutside, storage, history
      <3> QED
        BY <3>2, <3>3
    <2> QED
      BY <2>1, <2>2 DEF RowsInv
  <1> QED
    BY <1>6, <1>7, <1>8, <1>9, <1>10, <1>11, <1>12 DEF SafeInv

(* The end of a call: its file is no longer its own. *)
LEMMA SafeWriteEnds ==
    ASSUME TypeInv, SafeInv, NEW t \in Task, WriteReturns(t) \/ WriteFails(t) PROVE SafeInv'
  <1> USE DEF TypeInv
  <1>1. /\ UNCHANGED <<storage, table, mv, doomed, cl, rc, cutoff, horizon>>
        /\ wr[t].pc # "idle"
        /\ wr' = [wr EXCEPT ![t] = WrIdle]
    BY DEF WriteReturns, WriteFails, history
  <1>2. wr'[t] = WrIdle /\ \A u \in Task : u # t => wr'[u] = wr[u]
    BY <1>1 DEF TypeOK
  <1>3. WriterInv'
    <2> SUFFICES ASSUME NEW u \in Task
                 PROVE  /\ wr'[u].pc = "idle" => wr'[u].file = NoFile
                        /\ wr'[u].pc # "idle" =>
                              /\ \A v \in Task : wr'[v].file = wr'[u].file => v = u
                              /\ \A r \in content'[wr'[u].file] : r <= wr'[u].ts
                        /\ wr'[u].pc \in {"temp", "renamed"} => state'[wr'[u].file] = "none"
                        /\ wr'[u].pc = "renamed" => wr'[u].file \in disk'
                        /\ wr'[u].pc = "registered" => state'[wr'[u].file] # "none"
      BY DEF WriterInv, Registered
    <2>1. CASE u = t
      BY <1>2, <2>1 DEF WrIdle
    <2>2. CASE u # t
      <3>1. wr[u].pc # "idle" => wr[u].file # NoFile
        BY LifecycleAssumption DEF BusyInv
      <3> QED
        BY <1>1, <1>2, <2>2, <3>1 DEF SafeInv, WriterInv, Registered, WrIdle, storage, table
    <2> QED
      BY <2>1, <2>2
  <1>4. CompactInv'
    <2>1. CASE t = "compactor"
      <3>0. wr'["compactor"].pc = "idle" /\ cmp.pc = "writing"
        BY <1>1, <1>2, <2>1 DEF WrIdle, SafeInv, CompactInv
      <3>1. CASE WriteReturns(t)
        <4>1. wr["compactor"].pc = "registered" /\ cmp'.pc = "marking" /\ cmp'.ids = cmp.ids
          BY <2>1, <3>1 DEF WriteReturns, TypeOK, CompactState
        <4> QED
          BY <1>1, <3>0, <4>1
             DEF SafeInv, CompactInv, CoveredOutside, Registered, Visible, storage, table
      <3>2. CASE WriteFails(t)
        <4>1. cmp'.pc = "idle" /\ cmp'.ids = {}
          BY <2>1, <3>2 DEF WriteFails, CmpIdle
        <4> QED
          BY <3>0, <4>1 DEF CompactInv
      <3> QED
        BY <3>1, <3>2
    <2>2. CASE t # "compactor"
      <3>1. wr'["compactor"] = wr["compactor"] /\ cmp' = cmp
        BY <1>2, <2>2 DEF Task, WriteReturns, WriteFails
      <3> QED
        BY <1>1, <3>1 DEF SafeInv, CompactInv, CoveredOutside, Registered, Visible, storage, table
    <2> QED
      BY <2>1, <2>2
  <1>5. RowsInv'
    <2>1. Visible' = Visible /\ content' = content /\ horizon' = horizon
      BY <1>1 DEF Visible, storage, table
    <2>2. \A w \in Writers : wr'[w].pc = "registered" => wr[w].pc = "registered" /\ wr'[w].file = wr[w].file
      BY <1>2 DEF WrIdle, Task
    <2>3. \A r \in stored' : r \in stored \/ (t \in Writers /\ wr[t].pc = "registered" /\ r \in content[wr[t].file])
      BY DEF WriteReturns, WriteFails, Task, history
    <2>4. CoveredOutside(stored, {})'
      BY <2>1, <2>3 DEF SafeInv, RowsInv, CoveredOutside
    <2>5. \A w \in Writers : wr'[w].pc = "registered" => CoveredOutside(content[wr[w].file], {})'
      BY <2>1, <2>2 DEF SafeInv, RowsInv, CoveredOutside
    <2> QED
      BY <2>1, <2>2, <2>4, <2>5 DEF RowsInv
  <1> QED
    BY <1>1, <1>3, <1>4, <1>5, FrameBytesSeen, FrameBytes, FrameMover, FrameReclaim, FrameCleanup
       DEF SafeInv, storage, table
LEMMA SafeCompact ==
    ASSUME TypeInv, SafeInv, Compact PROVE SafeInv'
  <1> USE DEF TypeInv
  <1>0. "compactor" \in Task /\ cmp.ids \subseteq Files
    BY DEF Task, TypeOK, CompactState
  <1>1. CASE CompactQuery
    <2>1. PICK group \in SUBSET Visible : cmp' = [pc |-> "listed",
              ids |-> {f \in group : Cardinality(content[f]) < MaxFileSize}]
      BY <1>1 DEF CompactQuery
    <2>2. cmp'.pc = "listed" /\ cmp.pc = "idle" /\ \A g \in cmp'.ids : Registered(g)
      BY <1>1, <2>1 DEF CompactQuery, Visible, Registered
    <2>3. wr["compactor"].pc = "idle"
      BY <2>2 DEF SafeInv, CompactInv
    <2>4. CompactInv'
      BY <1>1, <2>2, <2>3 DEF CompactInv, CompactQuery, Registered, table
    <2> QED
      BY <1>1, <2>4, FrameBytesSeen, FrameWriter, FrameBytes, FrameMover, FrameReclaim,
         FrameCleanup, FrameRows DEF SafeInv, CompactQuery, storage, table, history
  <1>2. CASE CompactRead
    <2> DEFINE rows == UNION {content[g] : g \in cmp.ids}
    <2>1. PICK m \in cmp.ids :
            /\ \A g \in cmp.ids : max_ts[g] <= max_ts[m]
            /\ CreateTemp("compactor", rows, max_ts[m])
      BY <1>2 DEF CompactRead
    <2>2. rows \in SUBSET Rows /\ max_ts[m] \in Nat
      BY <1>0 DEF TypeOK
    <2>3. \A r \in rows : r <= max_ts[m]
      <3> SUFFICES ASSUME NEW g \in cmp.ids, NEW r \in content[g] PROVE r <= max_ts[m]
        OBVIOUS
      <3>1. g \in Files /\ r \in Nat /\ r <= max_ts[g]
        BY <1>0, LifecycleAssumption DEF SafeInv, CompactInv, BytesInv, TypeOK
      <3>2. max_ts[g] \in Nat /\ max_ts[g] <= max_ts[m]
        BY <2>1, <3>1 DEF TypeOK
      <3> QED
        BY <2>2, <3>1, <3>2
    <2>4. /\ UNCHANGED <<disk, unsynced, s3, table, mv, doomed, cl, rc, history>>
          /\ cmp.pc = "listed"
          /\ cmp' = [cmp EXCEPT !.pc = "writing"]
      BY <1>2 DEF CompactRead
    <2>5. wr["compactor"].pc = "idle"
      BY <2>4 DEF SafeInv, CompactInv
    <2> HIDE DEF rows
    <2>6. PICK merged \in SUBSET Rows : merged = rows
      BY <2>2
    <2>7. PICK ts \in Nat : ts = max_ts[m]
      BY <2>2
    <2>8. PICK t \in Task : t = "compactor"
      BY DEF Task
    <2>9. (\A r \in merged : r <= ts) /\ CreateTemp(t, merged, ts) /\ wr[t].pc = "idle"
      BY <2>1, <2>3, <2>5, <2>6, <2>7, <2>8
    <2>10. UNCHANGED <<disk, unsynced, state, max_ts, stored, horizon>>
      BY <2>4 DEF table, history
    <2>11. /\ WriterInv' /\ BytesInv' /\ RowsInv'
          /\ \E f \in Files :
               /\ state[f] = "none"
               /\ \A u \in Task : wr[u].file # f
               /\ content' = [content EXCEPT ![f] = merged]
               /\ wr' = [wr EXCEPT ![t] = [pc |-> "temp", file |-> f, ts |-> ts]]
      BY <2>10, <2>9, CreateTempSafe
    <2>12. PICK f \in Files :
               /\ state[f] = "none"
               /\ content' = [content EXCEPT ![f] = merged]
               /\ wr' = [wr EXCEPT ![t] = [pc |-> "temp", file |-> f, ts |-> ts]]
      BY <2>11
    <2>13. /\ wr'["compactor"].pc = "temp" /\ wr'["compactor"].file = f
          /\ cmp'.pc = "writing" /\ cmp'.ids = cmp.ids
          /\ content'[f] = rows
          /\ \A g \in Files : g # f => content'[g] = content[g]
      BY <1>0, <2>4, <2>12, <2>6, <2>8 DEF TypeOK, CompactState
    <2>14. f \notin cmp.ids /\ \A g \in cmp.ids : Registered(g)'
      BY <2>4, <2>12 DEF SafeInv, CompactInv, Registered, table
    <2>15. UNION {content'[g] : g \in cmp.ids} = rows
      BY <1>0, <2>13, <2>14 DEF rows
    <2>16. CompactInv'
      BY <2>13, <2>14, <2>15 DEF CompactInv
    <2> QED
      BY <2>4, <2>11, <2>16, FrameBytesSeen, FrameMover, FrameReclaim, FrameCleanup
         DEF SafeInv, table, history
  <1>3. CASE CompactReadFails \/ CompactMarkFails
    <2>1. cmp'.pc = "idle" /\ cmp'.ids = {} /\ cmp.pc # "writing" /\ wr' = wr
      BY <1>3 DEF CompactReadFails, CompactMarkFails, CmpIdle
    <2>2. CompactInv'
      BY <2>1 DEF SafeInv, CompactInv
    <2> QED
      BY <1>3, <2>2, FrameBytesSeen, FrameWriter, FrameBytes, FrameMover, FrameReclaim,
         FrameCleanup, FrameRows
         DEF SafeInv, CompactReadFails, CompactMarkFails, storage, table, history
  <1>4. CASE CompactMark
    <2>1. \A r \in Rows : \A f \in cmp.ids \cap Visible :
             r > horizon /\ r \in content[f] => \E g \in Visible \ cmp.ids : r \in content[g]
      BY <1>4 DEF CompactMark, SafeInv, CompactInv, CoveredOutside
    <2>2. /\ VisibleHasBytes'
          /\ WriterInv'
          /\ BytesInv'
          /\ MoverInv'
          /\ ReclaimInv'
          /\ RowsInv'
          /\ \A f \in Files : Registered(f) => Registered(f)'
      BY <1>4, <2>1, RetireKeeps DEF CompactMark, storage, history
    <2>3. CleanupInv'
      BY <1>4, <2>2 DEF SafeInv, CleanupInv, CompactMark, TypeOK, CleanupState, history
    <2>4. CompactInv'
      <3>1. cmp'.pc = "idle" /\ cmp'.ids = {} /\ cmp.pc # "writing" /\ wr' = wr
        BY <1>4 DEF CompactMark, CmpIdle
      <3> QED
        BY <3>1 DEF SafeInv, CompactInv
    <2> QED
      BY <2>2, <2>3, <2>4 DEF SafeInv
  <1> QED
    BY <1>1, <1>2, <1>3, <1>4 DEF Compact

-----------------------------------------------------------------------------
(* The invariant and its consequences. *)

LEMMA SafeInit == Init => SafeInv
  <1> SUFFICES ASSUME Init PROVE SafeInv
    OBVIOUS
  <1>1. VisibleHasBytes /\ BytesInv
    BY DEF Init, VisibleHasBytes, Visible, BytesInv, Registered
  <1>2. WriterInv /\ MoverInv /\ ReclaimInv /\ CleanupInv
    BY DEF Init, WriterInv, MoverInv, ReclaimInv, CleanupInv, WrIdle, MvIdle, RcIdle, ClIdle
  <1>3. CompactInv /\ RowsInv
    BY DEF Init, CompactInv, RowsInv, CoveredOutside, CmpIdle, WrIdle, Task
  <1> QED
    BY <1>1, <1>2, <1>3 DEF SafeInv

LEMMA SafeStep ==
    ASSUME FsyncBeforeRename = TRUE, TypeInv, SafeInv, [Next]_vars PROVE SafeInv'
  <1>1. CASE UNCHANGED vars
    BY <1>1, FrameBytesSeen, FrameWriter, FrameBytes, FrameMover, FrameReclaim,
       FrameCleanup, FrameCompact, FrameRows DEF SafeInv, vars, storage, table, tasks, history
  <1>2. ASSUME NEW t \in Task, WriteStep(t) PROVE SafeInv'
    BY <1>2, SafeRename, SafeRegister, SafeWriteEnds DEF WriteStep
  <1> QED
    BY <1>1, <1>2, SafeWriteBatch, SafeCompact, SafeMove, SafeDelayedRemove, SafeCleanup,
       SafeReclaim, SafeRead, SafeCutoff, SafeCrash DEF Next

(* FileIInv is inductive: with fsync_before_rename, every step of every    *)
(* task, failure and crash keeps it.                                       *)
THEOREM FileInvariant ==
    ASSUME FsyncBeforeRename = TRUE
    PROVE  Spec => []FileIInv
  <1>1. Init => TypeInv /\ SafeInv
    BY FileTypeInit, SafeInit DEF TypeInv, BusyInv, Init, WrIdle, MvIdle, RcIdle
  <1>2. TypeInv /\ SafeInv /\ [Next]_vars => (TypeInv /\ SafeInv)'
    BY TypeStep, SafeStep
  <1>3. TypeInv /\ SafeInv => FileIInv
    BY IInvParts
  <1> QED
    BY <1>1, <1>2, <1>3, PTL DEF Spec

(* A file that queries list always has its bytes at its location: promotion, *)
(* compaction, retention, reclaiming, failures and crashes never leave a     *)
(* dangling row, for any number of files and tasks.                          *)
THEOREM BytesKept ==
    ASSUME FsyncBeforeRename = TRUE
    PROVE  Spec => []VisibleHasBytes
  <1>1. FileIInv => VisibleHasBytes
    BY DEF FileIInv
  <1> QED
    BY <1>1, FileInvariant, PTL

(* No acknowledged row disappears from the visible files before retention   *)
(* has passed it, whatever merges, promotions, failures and crashes happen. *)
THEOREM RowsKept ==
    ASSUME FsyncBeforeRename = TRUE
    PROVE  Spec => []StoredRowsVisible
  <1>1. FileIInv => StoredRowsVisible
    BY DEF FileIInv, RowsInv, CoveredOutside, StoredRowsVisible
  <1> QED
    BY <1>1, FileInvariant, PTL

(***************************************************************************)
(* On local storage leases protect the files a query reads and no bytes    *)
(* outlive their row; with one reclaimer every file is counted once;       *)
(* without failures no row is visible twice.                               *)
(***************************************************************************)
(* Only queries and crashes touch the leases. *)
LEMMA LeasesElsewhere ==
    ASSUME [Next]_vars
    PROVE  \/ UNCHANGED <<rd, leases>>
           \/ \E q \in Readers : Read(q)
           \/ Crash
  <1>1. CASE UNCHANGED vars
    BY <1>1 DEF vars, tasks
  <1>2. CASE \/ \E w \in Writers : WriteBatch(w)
             \/ \E t \in Task : WriteStep(t)
             \/ Compact
    BY <1>2 DEF WriteBatch, WriteStep, Rename, RegisterFile, WriteReturns, WriteFails, Compact,
                CompactQuery, CompactRead, CompactReadFails, CompactMark, CompactMarkFails
  <1>3. CASE Move \/ \E f \in Files : DelayedRemove(f) \/ DelayedRemoveFails(f)
    BY <1>3 DEF Move, MoverQuery, MoverFilter, MoverRead, MoverUpload, MoverUploadFails,
                MoverUpdate, MoverUpdateFails, DelayedRemove, DelayedRemoveFails
  <1>4. CASE Cleanup \/ (\E p \in Reclaimers : Reclaim(p)) \/ SetCutoff
    BY <1>4 DEF Cleanup, CleanupQuery, CleanupMark, CleanupMarkFails, Reclaim, ReclaimQuery,
                ReclaimCheck, ReclaimDelete, ReclaimDeleteFails, ReclaimCommit,
                ReclaimCommitFails, SetCutoff, tasks
  <1> QED
    BY <1>1, <1>2, <1>3, <1>4 DEF Next

(* The fields of a query's record after it has resolved or skipped a file, *)
(* and after it has returned.                                              *)
Same(q) == /\ rd'[q].listed = rd[q].listed
           /\ rd'[q].timely = rd[q].timely
           /\ \A u \in Readers : u # q => rd'[u] = rd[u]

LEMMA ResolvedFields ==
    ASSUME TypeOK, NEW q \in Readers, NEW x, Resolved(q, x)
    PROVE  /\ rd'[q].todo = rd[q].todo \ {x}
           /\ rd'[q].found = rd[q].found \cup {x}
           /\ rd'[q].pc = rd[q].pc
           /\ Same(q)
  BY DEF TypeOK, Resolved, QueryState, Same

LEMMA SkippedFields ==
    ASSUME TypeOK, NEW q \in Readers, NEW x, Skipped(q, x)
    PROVE  /\ rd'[q].todo = rd[q].todo \ {x}
           /\ rd'[q].found = rd[q].found
           /\ rd'[q].pc = rd[q].pc
           /\ Same(q)
  BY DEF TypeOK, Skipped, QueryState, Same

LEMMA ReturnFields ==
    ASSUME TypeOK, NEW q \in Readers, NEW found, NEW ok, Return(q, found, ok)
    PROVE  /\ rd'[q].pc = "done"
           /\ rd'[q].todo = {}
           /\ rd'[q].found = found
           /\ rd'[q].ok = ok
           /\ Same(q)
  BY DEF TypeOK, Return, QueryState, Same

(* What a step of a query does to its own record and to the leases. *)
Lists(q)    == /\ rd[q].pc # "resolve"
               /\ rd' = [rd EXCEPT ![q] = rd'[q]]
               /\ rd'[q].pc = "listed"
               /\ UNCHANGED leases
Acquires(q) == /\ rd[q].pc = "listed"
               /\ leases' = Acquire(rd[q].listed)
               /\ rd' = [rd EXCEPT ![q].pc = "resolve", ![q].timely = rd[q].listed \cap Visible]
Resolves(q) == /\ rd[q].pc = "resolve"
               /\ rd' = [rd EXCEPT ![q] = rd'[q]]
               /\ rd'[q].pc = "resolve" /\ rd'[q].listed = rd[q].listed
               /\ UNCHANGED leases
Returns(q)  == /\ rd[q].pc = "resolve"
               /\ \E found \in SUBSET (Files \X Location), ok \in BOOLEAN : Return(q, found, ok)

LEMMA ReadShape ==
    ASSUME TypeInv, NEW q \in Readers, Read(q)
    PROVE  Lists(q) \/ Acquires(q) \/ Resolves(q) \/ Returns(q)
  <1> USE DEF TypeInv
  <1>0. /\ rd[q] \in QueryState
        /\ rd[q].todo \subseteq Files \X Location
        /\ rd[q].found \subseteq Files \X Location
        /\ rd = [s \in Readers |-> rd[s]]
    BY DEF TypeOK, QueryState
  <1>1. CASE ReaderQuery(q)
    BY <1>0, <1>1 DEF ReaderQuery, Lists, RdIdle
  <1>2. CASE ReaderAcquire(q)
    BY <1>2 DEF ReaderAcquire, Acquires
  <1>3. CASE ReaderResolve(q)
    <2>1. PICK x \in rd[q].todo : ResolveLocal(q, x) \/ ResolveS3(q, x)
      BY <1>3 DEF ReaderResolve
    <2>2. \/ (Resolved(q, x) \/ Skipped(q, x)) /\ UNCHANGED leases
          \/ Return(q, {}, FALSE)
      BY <2>1 DEF ResolveLocal, ResolveS3
    <2>3. CASE (Resolved(q, x) \/ Skipped(q, x)) /\ UNCHANGED leases
      BY <1>0, <1>3, <2>3 DEF ReaderResolve, Resolved, Skipped, Resolves, QueryState
    <2>4. CASE Return(q, {}, FALSE)
      BY <1>3, <2>4 DEF ReaderResolve, Returns
    <2> QED
      BY <2>2, <2>3, <2>4
  <1>4. CASE ReaderScan(q)
    <2>1. Present(rd[q].found) \in SUBSET (Files \X Location)
      BY <1>0 DEF Present
    <2>2. Return(q, Present(rd[q].found), TRUE) \/ Return(q, {}, FALSE)
      BY <1>4 DEF ReaderScan
    <2> QED
      BY <1>4, <2>1, <2>2 DEF ReaderScan, Returns
  <1> QED
    BY <1>1, <1>2, <1>3, <1>4 DEF Read

(* Each lease is the number of queries that hold it: taking and dropping   *)
(* move the count and the set of holders together.                         *)
LEMMA LeaseStep ==
    ASSUME IsFiniteSet(Readers), TypeInv, LeaseInv, [Next]_vars
    PROVE  LeaseInv'
  <1> USE DEF TypeInv
  <1>0. /\ rd = [s \in Readers |-> rd[s]]
        /\ \A s \in Readers : rd[s] \in QueryState
        /\ \A f \in Files : leases[f] \in Nat
    BY DEF TypeOK
  <1>1. \A f \in Files : IsFiniteSet(Holders(f))
    BY FS_Subset DEF Holders
  <1>2. CASE UNCHANGED <<rd, leases>>
    BY <1>2 DEF LeaseInv, Holders
  <1>3. CASE Crash
    <2>1. \A f \in Files : leases'[f] = 0 /\ Holders(f)' = {}
      BY <1>3 DEF Crash, Holders, RdIdle
    <2> QED
      BY <2>1, FS_EmptySet DEF LeaseInv
  <1>4. ASSUME NEW q \in Readers, Read(q) PROVE LeaseInv'
    <2>1. CASE Lists(q) \/ Resolves(q)
      <3>1. \A f \in Files : Holders(f)' = Holders(f)
        BY <1>0, <2>1 DEF Lists, Resolves, Holders
      <3> QED
        BY <2>1, <3>1 DEF Lists, Resolves, LeaseInv
    <2>2. CASE Acquires(q)
      <3> SUFFICES ASSUME NEW f \in Files PROVE leases'[f] = Cardinality(Holders(f)')
        BY DEF LeaseInv
      <3>1. CASE f \in rd[q].listed
        <4>1. Holders(f)' = Holders(f) \cup {q} /\ q \notin Holders(f)
          BY <1>0, <2>2, <3>1 DEF Acquires, Holders, QueryState
        <4>2. leases'[f] = leases[f] + 1
          BY <2>2, <3>1 DEF Acquires, Acquire
        <4> QED
          BY <1>1, <4>1, <4>2, FS_AddElement DEF LeaseInv
      <3>2. CASE f \notin rd[q].listed
        <4>1. Holders(f)' = Holders(f) /\ leases'[f] = leases[f]
          BY <1>0, <2>2, <3>2 DEF Acquires, Acquire, Holders, QueryState
        <4> QED
          BY <4>1 DEF LeaseInv
      <3> QED
        BY <3>1, <3>2
    <2>3. CASE Returns(q)
      <3>0. /\ leases' = Release(rd[q].listed)
            /\ rd[q].pc = "resolve"
            /\ rd'[q].pc = "done"
            /\ \A s \in Readers : s # q => rd'[s] = rd[s]
        <4>1. PICK found \in SUBSET (Files \X Location), ok \in BOOLEAN : Return(q, found, ok)
          BY <2>3 DEF Returns
        <4> QED
          BY <1>0, <2>3, <4>1 DEF Returns, Return, QueryState
      <3> SUFFICES ASSUME NEW f \in Files PROVE leases'[f] = Cardinality(Holders(f)')
        BY DEF LeaseInv
      <3>1. CASE f \in rd[q].listed
        <4>1. Holders(f)' = Holders(f) \ {q} /\ q \in Holders(f)
          BY <3>0, <3>1 DEF Holders
        <4>2. leases[f] > 0
          BY <1>0, <1>1, <4>1, FS_EmptySet DEF LeaseInv
        <4>3. leases'[f] = leases[f] - 1
          BY <3>0, <3>1, <4>2 DEF Release
        <4> QED
          BY <1>1, <4>1, <4>3, FS_RemoveElement DEF LeaseInv
      <3>2. CASE f \notin rd[q].listed
        <4>1. Holders(f)' = Holders(f) /\ leases'[f] = leases[f]
          BY <3>0, <3>2 DEF Release, Holders
        <4> QED
          BY <4>1 DEF LeaseInv
      <3> QED
        BY <3>1, <3>2
    <2> QED
      BY <1>4, <2>1, <2>2, <2>3, ReadShape
  <1> QED
    BY <1>2, <1>3, <1>4, LeasesElsewhere

-----------------------------------------------------------------------------
(* Without a bucket the mover never starts. *)
LEMMA NoMoves ==
    ASSUME S3Enabled = FALSE, LocalInv
    PROVE  ~Move /\ ~(\E f \in Files : DelayedRemove(f) \/ DelayedRemoveFails(f))
  BY DEF LocalInv, MvIdle, Move, MoverQuery, MoverFilter, MoverRead, MoverUpload, MoverUploadFails,
         MoverUpdate, MoverUpdateFails, DelayedRemove, DelayedRemoveFails

(* Every file is registered on the local disk, and listings are copies of  *)
(* what the table says.                                                    *)
LEMMA LocalStep ==
    ASSUME S3Enabled = FALSE, TypeInv, LocalInv, [Next]_vars
    PROVE  LocalInv'
  <1> USE DEF TypeInv
  <1>0. /\ \A p \in Reclaimers : rc[p] \in ReclaimState
        /\ \A q \in Readers : rd[q] \in QueryState
        /\ rc = [p \in Reclaimers |-> rc[p]]
        /\ rd = [q \in Readers |-> rd[q]]
    BY DEF TypeOK
  <1>1. CASE UNCHANGED vars
    BY <1>1 DEF LocalInv, vars, storage, table, tasks
  <1>2. CASE (\E w \in Writers : WriteBatch(w)) \/ Compact \/ Cleanup \/ SetCutoff
    BY <1>2 DEF LocalInv, WriteBatch, Compact, CompactQuery, CompactRead, CompactReadFails,
                CompactMark, CompactMarkFails, Cleanup, CleanupQuery, CleanupMark,
                CleanupMarkFails, SetCutoff, storage, table, tasks
  <1>3. ASSUME NEW t \in Task, WriteStep(t) PROVE LocalInv'
    <2>1. CASE Rename(t) \/ WriteReturns(t) \/ WriteFails(t)
      BY <2>1 DEF LocalInv, Rename, WriteReturns, WriteFails, storage, table
    <2>2. CASE RegisterFile(t)
      BY <2>2 DEF LocalInv, RegisterFile, storage, TypeOK
    <2> QED
      BY <1>3, <2>1, <2>2 DEF WriteStep
  <1>4. ASSUME NEW p \in Reclaimers, Reclaim(p) PROVE LocalInv'
    <2>1. UNCHANGED <<mv, doomed, location, rd>>
      BY <1>4 DEF Reclaim, ReclaimQuery, ReclaimCheck, ReclaimDelete, ReclaimDeleteFails,
                  ReclaimCommit, ReclaimCommitFails, table
    <2>2. s3' = s3
      BY <1>4 DEF LocalInv, Reclaim, ReclaimQuery, ReclaimCheck, ReclaimDelete,
                  ReclaimDeleteFails, ReclaimCommit, ReclaimCommitFails, storage
    <2>3. \A u \in Reclaimers : u # p => rc'[u] = rc[u]
      BY <1>0, <1>4 DEF Reclaim, ReclaimQuery, ReclaimCheck, ReclaimDelete, ReclaimDeleteFails,
                  ReclaimCommit, ReclaimCommitFails
    <2>4. rc'[p].item[2] = "local" /\ \A x \in rc'[p].todo : x[2] = "local"
      <3>1. CASE ReclaimQuery(p)
        <4> DEFINE found == {<<f, location[f]>> : f \in {g \in Files : state[g] = "deleted"}}
        <4>1. \A x \in found : x[2] = "local"
          BY DEF LocalInv
        <4> HIDE DEF found
        <4>2. rc'[p].todo = found /\ rc'[p].item = <<NoFile, "local">>
          BY <1>0, <3>1 DEF ReclaimQuery, RcIdle, found
        <4> QED
          BY <4>1, <4>2
      <3>2. CASE ReclaimCheck(p)
        <4>1. PICK x \in rc[p].todo :
                rc' = [rc EXCEPT ![p] =
                         IF leases[x[1]] > 0 THEN [rc[p] EXCEPT !.todo = @ \ {x}]
                         ELSE [[rc[p] EXCEPT !.todo = @ \ {x}] EXCEPT !.pc = "delete", !.item = x]]
          BY <3>2 DEF ReclaimCheck
        <4> QED
          BY <1>0, <4>1 DEF LocalInv, ReclaimState
      <3>3. CASE ReclaimDelete(p) \/ ReclaimDeleteFails(p)
        BY <1>0, <3>3, SMTT(30) DEF ReclaimDelete, ReclaimDeleteFails, LocalInv, ReclaimState
      <3>4. CASE ReclaimCommit(p) \/ ReclaimCommitFails(p)
        BY <1>0, <3>4 DEF ReclaimCommit, ReclaimCommitFails, RcIdle
      <3> QED
        BY <1>4, <3>1, <3>2, <3>3, <3>4 DEF Reclaim
    <2> QED
      BY <2>1, <2>2, <2>3, <2>4 DEF LocalInv
  <1>5. ASSUME NEW q \in Readers, Read(q) PROVE LocalInv'
    <2>1. UNCHANGED <<mv, doomed, location, s3, rc>>
      BY <1>5 DEF Read, ReaderQuery, ReaderAcquire, ReaderResolve, ReaderScan, storage, table
    <2>2. \A u \in Readers : u # q => rd'[u] = rd[u]
      BY <1>0, <1>5 DEF Read, ReaderQuery, ReaderAcquire, ReaderResolve, ReaderScan, ResolveLocal,
                        ResolveS3, Resolved, Skipped, Return
    <2>3. \A x \in rd'[q].todo \cup rd'[q].found : x[2] = "local"
      <3>1. CASE ReaderQuery(q)
        <4> DEFINE list == {<<f, location[f]>> : f \in Visible}
        <4>1. \A x \in list : x[2] = "local"
          BY DEF LocalInv, Visible
        <4> HIDE DEF list
        <4>2. rd'[q].todo = list /\ rd'[q].found = {}
          BY <1>0, <3>1 DEF ReaderQuery, RdIdle, list
        <4> QED
          BY <4>1, <4>2
      <3>2. CASE ReaderAcquire(q)
        BY <1>0, <3>2 DEF ReaderAcquire, QueryState, LocalInv
      <3>3. CASE ReaderResolve(q)
        <4>1. PICK x \in rd[q].todo : Resolved(q, x) \/ Skipped(q, x) \/ Return(q, {}, FALSE)
          BY <3>3 DEF ReaderResolve, ResolveLocal, ResolveS3
        <4>2. /\ rd'[q].todo \subseteq rd[q].todo
              /\ rd'[q].found \subseteq rd[q].found \cup rd[q].todo
          <5>1. CASE Resolved(q, x)
            BY <5>1, ResolvedFields
          <5>2. CASE Skipped(q, x)
            BY <5>2, SkippedFields
          <5>3. CASE Return(q, {}, FALSE)
            BY <5>3, ReturnFields
          <5> QED
            BY <4>1, <5>1, <5>2, <5>3
        <4> QED
          BY <4>2 DEF LocalInv
      <3>4. CASE ReaderScan(q)
        <4>1. Return(q, Present(rd[q].found), TRUE) \/ Return(q, {}, FALSE)
          BY <3>4 DEF ReaderScan
        <4>2. rd'[q].todo = {} /\ rd'[q].found \subseteq rd[q].found
          <5>0. Present(rd[q].found) \subseteq rd[q].found
            BY DEF Present
          <5>1. CASE Return(q, Present(rd[q].found), TRUE)
            BY <5>0, <5>1, ReturnFields
          <5>2. CASE Return(q, {}, FALSE)
            BY <5>2, ReturnFields
          <5> QED
            BY <4>1, <5>1, <5>2
        <4> QED
          BY <4>2 DEF LocalInv
      <3> QED
        BY <1>5, <3>1, <3>2, <3>3, <3>4 DEF Read
    <2> QED
      BY <2>1, <2>2, <2>3 DEF LocalInv
  <1>6. CASE Crash
    BY <1>6 DEF LocalInv, Crash, RcIdle, RdIdle, table
  <1> QED
    BY <1>1, <1>2, <1>3, <1>4, <1>5, <1>6, NoMoves DEF Next

(* Bytes go before the row does, and only a file that has no row yet gains *)
(* bytes.                                                                  *)
LEMMA OrphanStep ==
    ASSUME S3Enabled = FALSE, TypeInv, SafeInv, LocalInv, OrphanInv, [Next]_vars
    PROVE  OrphanInv'
  <1> USE DEF TypeInv
  <1>0. /\ \A p \in Reclaimers : rc[p] \in ReclaimState
        /\ rc = [p \in Reclaimers |-> rc[p]]
        /\ state \in [Files -> FileState]
    BY DEF TypeOK
  <1>1. CASE UNCHANGED <<disk, state, rc>>
    BY <1>1 DEF OrphanInv
  <1>2. CASE (\E w \in Writers : WriteBatch(w)) \/ SetCutoff \/ UNCHANGED vars
    BY <1>1, <1>2 DEF WriteBatch, SetCutoff, vars, storage, table, tasks
  <1>3. ASSUME NEW t \in Task, WriteStep(t) PROVE OrphanInv'
    <2>0. wr[t].pc # "idle" => wr[t].file \in Files
      BY DEF BusyInv
    <2>1. CASE WriteReturns(t) \/ WriteFails(t)
      BY <1>1, <2>1 DEF WriteReturns, WriteFails, storage, table
    <2>2. CASE Rename(t)
      <3>1. state[wr[t].file] = "none" /\ disk' = disk \cup {wr[t].file} /\ UNCHANGED <<state, rc>>
        BY <2>2 DEF Rename, SafeInv, WriterInv, table
      <3> QED
        BY <3>1 DEF OrphanInv, SafeInv, ReclaimInv, Retired
    <2>3. CASE RegisterFile(t)
      <3>1. UNCHANGED <<disk, rc>> /\ \A f \in Files : state'[f] = "gone" => state[f] = "gone"
        BY <1>0, <2>3 DEF RegisterFile, storage
      <3> QED
        BY <3>1 DEF OrphanInv
    <2> QED
      BY <1>3, <2>1, <2>2, <2>3 DEF WriteStep
  <1>4. CASE Compact \/ Cleanup
    <2>1. UNCHANGED <<disk, rc>> /\ (UNCHANGED state \/ \E ids : state' = MarkDeleted(ids))
      BY <1>4 DEF Compact, CompactQuery, CompactRead, CompactReadFails, CompactMark,
                  CompactMarkFails, Cleanup, CleanupQuery, CleanupMark, CleanupMarkFails,
                  storage, table
    <2>2. \A f \in Files : state'[f] = "gone" => state[f] = "gone"
      BY <2>1 DEF MarkDeleted
    <2> QED
      BY <2>1, <2>2 DEF OrphanInv
  <1>5. ASSUME NEW p \in Reclaimers, Reclaim(p) PROVE OrphanInv'
    <2>0. \A u \in Reclaimers : u # p => rc'[u] = rc[u]
      BY <1>0, <1>5 DEF Reclaim, ReclaimQuery, ReclaimCheck, ReclaimDelete, ReclaimDeleteFails,
                  ReclaimCommit, ReclaimCommitFails
    <2>1. CASE ReclaimQuery(p) \/ ReclaimCheck(p) \/ ReclaimDeleteFails(p) \/ ReclaimCommitFails(p)
      <3>1. rc'[p].ids \subseteq rc[p].ids
        <4>1. CASE ReclaimCheck(p)
          BY <1>0, <4>1 DEF ReclaimCheck, ReclaimState
        <4>2. CASE ReclaimQuery(p)
          BY <1>0, <4>2 DEF ReclaimQuery, RcIdle
        <4>3. CASE ReclaimDeleteFails(p) \/ ReclaimCommitFails(p)
          BY <1>0, <4>3 DEF ReclaimDeleteFails, ReclaimCommitFails, RcIdle, ReclaimState
        <4> QED
          BY <2>1, <4>1, <4>2, <4>3
      <3>2. UNCHANGED <<disk, state>>
        BY <2>1 DEF ReclaimQuery, ReclaimCheck, ReclaimDeleteFails, ReclaimCommitFails, storage, table
      <3> QED
        BY <2>0, <3>1, <3>2 DEF OrphanInv
    <2>2. CASE ReclaimDelete(p)
      <3>1. /\ disk' = disk \ {rc[p].item[1]}
            /\ UNCHANGED state
            /\ rc'[p].ids = rc[p].ids \cup {rc[p].item[1]}
        BY <1>0, <2>2 DEF ReclaimDelete, LocalInv, ReclaimState, table
      <3> QED
        BY <2>0, <3>1 DEF OrphanInv
    <2>3. CASE ReclaimCommit(p)
      <3>1. UNCHANGED disk /\ rc'[p].ids = {} /\ state' = DeleteEntries(rc[p].ids)
        BY <1>0, <2>3 DEF ReclaimCommit, RcIdle, storage
      <3> QED
        BY <2>0, <3>1 DEF OrphanInv, DeleteEntries
    <2> QED
      BY <1>5, <2>1, <2>2, <2>3 DEF Reclaim
  <1>6. ASSUME NEW q \in Readers, Read(q) PROVE OrphanInv'
    BY <1>1, <1>6 DEF Read, ReaderQuery, ReaderAcquire, ReaderResolve, ReaderScan, storage, table
  <1>7. CASE Crash
    BY <1>7 DEF OrphanInv, Crash, RcIdle, table
  <1> QED
    BY <1>2, <1>3, <1>4, <1>5, <1>6, <1>7, NoMoves DEF Next

(* A lease taken while the file was visible keeps its bytes: a reclaimer   *)
(* that deletes has seen no lease, and can have seen none only before the  *)
(* file was leased, when it was retired already.                           *)
LEMMA HeldStep ==
    ASSUME S3Enabled = FALSE, IsFiniteSet(Readers),
           TypeInv, SafeInv, LocalInv, LeaseInv, HeldInv, [Next]_vars
    PROVE  HeldInv'
  <1> USE DEF TypeInv
  <1>0. /\ rc = [p \in Reclaimers |-> rc[p]]
        /\ \A p \in Reclaimers : rc[p] \in ReclaimState
        /\ rd = [q \in Readers |-> rd[q]]
        /\ \A q \in Readers : rd[q] \in QueryState
    BY DEF TypeOK
  <1>1. ASSUME UNCHANGED rd, disk \subseteq disk', UNCHANGED rc PROVE HeldInv'
    BY <1>1 DEF HeldInv
  <1>2. CASE \/ \E w \in Writers : WriteBatch(w)
             \/ \E t \in Task : WriteStep(t)
             \/ Compact \/ Cleanup \/ SetCutoff
             \/ UNCHANGED vars
    <2>1. UNCHANGED rd /\ disk \subseteq disk' /\ UNCHANGED rc
      BY <1>2 DEF WriteBatch, WriteStep, Rename, RegisterFile, WriteReturns, WriteFails, Compact,
                  CompactQuery, CompactRead, CompactReadFails, CompactMark, CompactMarkFails,
                  Cleanup, CleanupQuery, CleanupMark, CleanupMarkFails, SetCutoff, vars, tasks,
                  storage
    <2> QED
      BY <1>1, <2>1
  <1>3. ASSUME NEW p \in Reclaimers, Reclaim(p) PROVE HeldInv'
    <2>0. UNCHANGED rd /\ \A u \in Reclaimers : u # p => rc'[u] = rc[u]
      BY <1>0, <1>3 DEF Reclaim, ReclaimQuery, ReclaimCheck, ReclaimDelete, ReclaimDeleteFails,
                  ReclaimCommit, ReclaimCommitFails
    <2>1. ASSUME disk' = disk, rc'[p].pc # "delete" PROVE HeldInv'
      BY <2>0, <2>1 DEF HeldInv
    <2>2. CASE ReclaimQuery(p) \/ ReclaimDeleteFails(p) \/ ReclaimCommit(p) \/ ReclaimCommitFails(p)
      <3>1. disk' = disk
        BY <2>2 DEF ReclaimQuery, ReclaimDeleteFails, ReclaimCommit, ReclaimCommitFails, storage
      <3>2. rc'[p].pc # "delete"
        <4>1. CASE ReclaimQuery(p)
          BY <1>0, <4>1 DEF ReclaimQuery, RcIdle
        <4>2. CASE ReclaimDeleteFails(p)
          BY <1>0, <4>2 DEF ReclaimDeleteFails, ReclaimState
        <4>3. CASE ReclaimCommit(p) \/ ReclaimCommitFails(p)
          BY <1>0, <4>3 DEF ReclaimCommit, ReclaimCommitFails, RcIdle
        <4> QED
          BY <2>2, <4>1, <4>2, <4>3
      <3> QED
        BY <2>1, <3>1, <3>2
    <2>3. CASE ReclaimCheck(p)
      <3>1. disk' = disk
        BY <2>3 DEF ReclaimCheck, storage
      <3>2. PICK x \in rc[p].todo :
              rc' = [rc EXCEPT ![p] =
                       IF leases[x[1]] > 0 THEN [rc[p] EXCEPT !.todo = @ \ {x}]
                       ELSE [[rc[p] EXCEPT !.todo = @ \ {x}] EXCEPT !.pc = "delete", !.item = x]]
        BY <2>3 DEF ReclaimCheck
      <3>3. CASE leases[x[1]] > 0
        BY <1>0, <2>1, <2>3, <3>1, <3>2, <3>3 DEF ReclaimCheck, ReclaimState
      <3>4. CASE ~(leases[x[1]] > 0)
        <4>1. rc'[p].item[1] = x[1] /\ x[1] \in Files
          BY <1>0, <3>2, <3>4 DEF ReclaimState
        <4>2. Holders(x[1]) = {}
          <5>1. IsFiniteSet(Holders(x[1]))
            BY FS_Subset DEF Holders
          <5>2. Cardinality(Holders(x[1])) = leases[x[1]] /\ leases[x[1]] \in Nat
            BY <4>1 DEF LeaseInv, TypeOK
          <5> QED
            BY <3>4, <5>1, <5>2, FS_EmptySet
        <4>3. \A q \in Readers : rd[q].pc = "resolve" => x[1] \notin rd[q].timely
          BY <4>2 DEF Holders, HeldInv
        <4> QED
          BY <2>0, <3>1, <4>1, <4>3 DEF HeldInv
      <3> QED
        BY <3>3, <3>4
    <2>4. CASE ReclaimDelete(p)
      <3>1. rc[p].pc = "delete" /\ disk' = disk \ {rc[p].item[1]} /\ rc'[p].pc # "delete"
        BY <1>0, <2>4 DEF ReclaimDelete, LocalInv, ReclaimState
      <3> QED
        BY <2>0, <3>1 DEF HeldInv
    <2> QED
      BY <1>3, <2>2, <2>3, <2>4 DEF Reclaim
  <1>4. ASSUME NEW q \in Readers, Read(q) PROVE HeldInv'
    <2>0. UNCHANGED <<disk, rc, state, location>>
      BY <1>4 DEF Read, ReaderQuery, ReaderAcquire, ReaderResolve, ReaderScan, storage, table
    <2> DEFINE Held(r) ==
          /\ r.pc = "listed" => r.found = {} /\ {x[1] : x \in r.todo} = r.listed
          /\ r.pc = "resolve" =>
                /\ r.timely \subseteq disk
                /\ r.timely \subseteq {x[1] : x \in r.todo \cup r.found}
                /\ {x[1] : x \in r.todo \cup r.found} \subseteq r.listed
                /\ \A p \in Reclaimers : rc[p].pc = "delete" => rc[p].item[1] \notin r.timely
          /\ r.pc = "done" /\ r.ok /\ r.timely = r.listed => {x[1] : x \in r.found} = r.listed
    <2>1. Held(rd[q])
      BY DEF HeldInv
    <2>2. ASSUME Held(rd'[q]), \A u \in Readers : u # q => rd'[u] = rd[u] PROVE HeldInv'
      BY <2>0, <2>2 DEF HeldInv
    <2>3. CASE ReaderQuery(q)
      <3> DEFINE list == {<<f, location[f]>> : f \in Visible}
      <3>a. \A f \in Visible : <<f, location[f]>> \in list /\ <<f, location[f]>>[1] = f
        OBVIOUS
      <3>b. \A x \in list : x[1] \in Visible
        OBVIOUS
      <3> HIDE DEF list
      <3>1. {x[1] : x \in list} = Visible
        BY <3>a, <3>b
      <3>2. /\ rd'[q].pc = "listed" /\ rd'[q].todo = list /\ rd'[q].found = {}
            /\ rd'[q].listed = Visible
            /\ \A u \in Readers : u # q => rd'[u] = rd[u]
        BY <1>0, <2>3 DEF ReaderQuery, RdIdle, list
      <3> QED
        BY <2>2, <3>1, <3>2
    <2>4. CASE ReaderAcquire(q)
      <3>1. /\ rd[q].pc = "listed" /\ rd'[q].pc = "resolve"
            /\ rd'[q].todo = rd[q].todo /\ rd'[q].found = rd[q].found
            /\ rd'[q].listed = rd[q].listed
            /\ rd'[q].timely = rd[q].listed \cap Visible
            /\ \A u \in Readers : u # q => rd'[u] = rd[u]
        BY <1>0, <2>4 DEF ReaderAcquire, QueryState
      <3>2. Visible \subseteq disk
        BY DEF SafeInv, VisibleHasBytes, LocalInv, Visible
      <3>3. \A p \in Reclaimers : rc[p].pc = "delete" => rc[p].item[1] \notin Visible
        BY DEF SafeInv, ReclaimInv, Retired, Visible
      <3>4. Held(rd'[q])
        BY <2>1, <3>1, <3>2, <3>3
      <3> QED
        BY <2>2, <3>1, <3>4
    <2>5. CASE ReaderResolve(q)
      <3>1. PICK x \in rd[q].todo : ResolveLocal(q, x) \/ ResolveS3(q, x)
        BY <2>5 DEF ReaderResolve
      <3>2. x[2] = "local" /\ rd[q].pc = "resolve"
        BY <2>5 DEF LocalInv, ReaderResolve
      <3>3. \/ Resolved(q, x)
            \/ x[1] \notin disk /\ Skipped(q, x)
            \/ Return(q, {}, FALSE)
        BY <3>1, <3>2 DEF ResolveLocal, ResolveS3
      <3>4. CASE Resolved(q, x)
        <4>1. /\ rd'[q].todo = rd[q].todo \ {x}
              /\ rd'[q].found = rd[q].found \cup {x}
              /\ rd'[q].pc = "resolve"
              /\ Same(q)
          BY <3>2, <3>4, ResolvedFields
        <4>2. rd'[q].todo \cup rd'[q].found = rd[q].todo \cup rd[q].found
          BY <4>1
        <4>3. Held(rd'[q])
          BY <2>1, <3>2, <4>1, <4>2 DEF Same
        <4> QED
          BY <2>2, <4>1, <4>3 DEF Same
      <3>5. CASE x[1] \notin disk /\ Skipped(q, x)
        <4>1. /\ rd'[q].todo = rd[q].todo \ {x}
              /\ rd'[q].found = rd[q].found
              /\ rd'[q].pc = "resolve"
              /\ Same(q)
          BY <3>2, <3>5, SkippedFields
        <4>2. x[1] \notin rd[q].timely
          BY <2>1, <3>2, <3>5
        <4>3. Held(rd'[q])
          BY <2>1, <3>2, <4>1, <4>2 DEF Same
        <4> QED
          BY <2>2, <4>1, <4>3 DEF Same
      <3>6. CASE Return(q, {}, FALSE)
        <4>1. rd'[q].pc = "done" /\ rd'[q].ok = FALSE /\ Same(q)
          BY <3>6, ReturnFields, ZenonT(40)
        <4> QED
          BY <2>2, <4>1 DEF Same
      <3> QED
        BY <3>3, <3>4, <3>5, <3>6
    <2>6. CASE ReaderScan(q)
      <3>1. rd[q].pc = "resolve" /\ rd[q].todo = {}
        BY <2>6 DEF ReaderScan
      <3>2. CASE Return(q, {}, FALSE)
        <4>1. rd'[q].pc = "done" /\ rd'[q].ok = FALSE /\ Same(q)
          BY <3>2, ReturnFields
        <4> QED
          BY <2>2, <4>1 DEF Same
      <3>3. CASE Return(q, Present(rd[q].found), TRUE)
        <4>1. rd'[q].pc = "done" /\ rd'[q].found = Present(rd[q].found) /\ Same(q)
          BY <3>3, ReturnFields
        <4>2. ASSUME rd[q].timely = rd[q].listed
              PROVE  {x[1] : x \in Present(rd[q].found)} = rd[q].listed
          <5>1. {x[1] : x \in rd[q].found} = rd[q].listed /\ rd[q].listed \subseteq disk
            BY <2>1, <3>1, <4>2
          <5>2. Present(rd[q].found) = rd[q].found
            BY <5>1 DEF Present, LocalInv
          <5> QED
            BY <5>1, <5>2
        <4>3. Held(rd'[q])
          BY <4>1, <4>2 DEF Same
        <4> QED
          BY <2>2, <4>1, <4>3 DEF Same
      <3> QED
        BY <2>6, <3>2, <3>3 DEF ReaderScan
    <2> QED
      BY <1>4, <2>3, <2>4, <2>5, <2>6 DEF Read
  <1>5. CASE Crash
    BY <1>5 DEF HeldInv, Crash, RdIdle
  <1> QED
    BY <1>2, <1>3, <1>4, <1>5, NoMoves DEF Next

-----------------------------------------------------------------------------
(* Theorems on local storage. *)

LEMMA LocalInit ==
    ASSUME Init PROVE LocalInv /\ OrphanInv /\ LeaseInv /\ HeldInv
  <1>1. LocalInv /\ OrphanInv
    BY DEF Init, LocalInv, OrphanInv, RcIdle, RdIdle
  <1>2. LeaseInv
    <2>1. \A f \in Files : Holders(f) = {} /\ leases[f] = 0
      BY DEF Init, Holders, RdIdle
    <2> QED
      BY <2>1, FS_EmptySet DEF LeaseInv
  <1>3. HeldInv
    BY DEF Init, HeldInv, RdIdle
  <1> QED
    BY <1>1, <1>2, <1>3

(* LocalIInv is inductive when no bucket is configured and finitely many   *)
(* queries run.                                                            *)
THEOREM LocalInvariant ==
    ASSUME FsyncBeforeRename = TRUE, S3Enabled = FALSE, IsFiniteSet(Readers)
    PROVE  Spec => []LocalIInv
  <1> DEFINE All == TypeInv /\ SafeInv /\ LocalInv /\ OrphanInv /\ LeaseInv /\ HeldInv
  <1>1. Init => All
    BY FileTypeInit, SafeInit, LocalInit DEF TypeInv, BusyInv, Init, WrIdle, MvIdle, RcIdle
  <1>2. All /\ [Next]_vars => All'
    BY TypeStep, SafeStep, LocalStep, OrphanStep, LeaseStep, HeldStep
  <1>3. All => LocalIInv
    BY IInvParts DEF LocalIInv
  <1> QED
    BY <1>1, <1>2, <1>3, PTL DEF Spec

(* A query on local storage that took its leases while the files were      *)
(* visible and answers Ok has read every file it listed, whatever merges,  *)
(* retention runs and reclaimers do meanwhile and however they fail.       *)
THEOREM LeasesProtect ==
    ASSUME FsyncBeforeRename = TRUE, S3Enabled = FALSE, IsFiniteSet(Readers)
    PROVE  Spec => []LeasedQueryComplete
  <1>1. LocalIInv => LeasedQueryComplete
    <2> SUFFICES ASSUME HeldInv, NEW q \in Readers,
                        rd[q].pc = "done", rd[q].ok, rd[q].timely = rd[q].listed
                 PROVE  UNION {content[x[1]] : x \in rd[q].found}
                            = UNION {content[f] : f \in rd[q].listed}
      BY DEF LocalIInv, LeasedQueryComplete
    <2>1. {x[1] : x \in rd[q].found} = rd[q].listed
      BY DEF HeldInv
    <2>2. \A x \in rd[q].found : x[1] \in rd[q].listed
      BY <2>1
    <2>3. \A f \in rd[q].listed : \E x \in rd[q].found : f = x[1]
      BY <2>1
    <2> QED
      BY <2>2, <2>3
  <1> QED
    BY <1>1, LocalInvariant, PTL

(* On local storage a file's bytes never outlive its row in file_list:     *)
(* FileReclaimer deletes bytes first, and a new file never reuses a path.  *)
THEOREM OrphansNever ==
    ASSUME FsyncBeforeRename = TRUE, S3Enabled = FALSE
    PROVE  Spec => []NoOrphanBytes
  <1> DEFINE All == TypeInv /\ SafeInv /\ LocalInv /\ OrphanInv
  <1>1. Init => All
    BY FileTypeInit, SafeInit, LocalInit DEF TypeInv, BusyInv, Init, WrIdle, MvIdle, RcIdle
  <1>2. All /\ [Next]_vars => All'
    BY TypeStep, SafeStep, LocalStep, OrphanStep
  <1>3. All => NoOrphanBytes
    BY DEF LocalInv, OrphanInv, NoOrphanBytes
  <1> QED
    BY <1>1, <1>2, <1>3, PTL DEF Spec

-----------------------------------------------------------------------------
(* One reclaimer counts each file once. *)

LEMMA SoleStep ==
    ASSUME \A p, u \in Reclaimers : p = u, TypeInv, SoleInv, [Next]_vars
    PROVE  SoleInv'
  <1> USE DEF TypeInv
  <1>0. /\ rc = [p \in Reclaimers |-> rc[p]]
        /\ \A p \in Reclaimers : rc[p] \in ReclaimState
        /\ state \in [Files -> FileState]
        /\ cleaned \in [Files -> Nat]
        /\ wr = [t \in Task |-> wr[t]]
        /\ \A t \in Task : wr[t] \in WriteCall
        /\ \A t \in Task : wr[t].pc # "idle" => wr[t].file \in Files
    BY DEF TypeOK, BusyInv
  <1> DEFINE Own == \A t \in Task : wr[t].pc \in {"temp", "renamed"} =>
                        /\ state[wr[t].file] = "none"
                        /\ \A u \in Task : wr[u].file = wr[t].file => u = t
             Listed == \A p \in Reclaimers :
                        /\ \A x \in rc[p].todo : state[x[1]] = "deleted"
                        /\ rc[p].pc = "delete" => state[rc[p].item[1]] = "deleted"
                        /\ \A f \in rc[p].ids : state[f] = "deleted"
  <1>a. CleanedOnce /\ Own /\ Listed
    BY DEF SoleInv
  <1>b. ASSUME CleanedOnce', Own', Listed' PROVE SoleInv'
    BY <1>b DEF SoleInv
  <1>1. ASSUME UNCHANGED <<state, cleaned, rc>>, Own' PROVE SoleInv'
    BY <1>1, <1>a, <1>b DEF CleanedOnce
  <1>2. CASE UNCHANGED <<state, cleaned, rc, wr>>
    BY <1>1, <1>2, <1>a
  <1>3. ASSUME NEW t \in Task, NEW rows, NEW ts, CreateTemp(t, rows, ts), UNCHANGED <<table, rc>>
        PROVE  SoleInv'
    <2>1. PICK f \in Files :
            /\ Fresh(f)
            /\ wr' = [wr EXCEPT ![t] = [pc |-> "temp", file |-> f, ts |-> ts]]
      BY <1>3 DEF CreateTemp
    <2>2. Own'
      BY <1>0, <1>3, <1>a, <2>1 DEF Fresh, table
    <2> QED
      BY <1>1, <1>3, <2>2 DEF table
  <1>4. ASSUME NEW w \in Writers, WriteBatch(w) PROVE SoleInv'
    <2>1. PICK rows \in SUBSET Pending : \E ts \in rows : CreateTemp(w, rows, ts)
      BY <1>4 DEF WriteBatch
    <2> QED
      BY <1>3, <1>4, <2>1 DEF WriteBatch, Task
  <1>5. ASSUME NEW t \in Task, WriteStep(t) PROVE SoleInv'
    <2>1. CASE Rename(t)
      <3>1. Own' /\ UNCHANGED <<table, rc>>
        BY <1>0, <1>a, <2>1 DEF Rename, WriteCall, table
      <3> QED
        BY <1>1, <3>1 DEF table
    <2>2. CASE RegisterFile(t)
      <3> DEFINE f == wr[t].file
      <3>1. /\ f \in Files /\ state[f] = "none"
            /\ state' = [state EXCEPT ![f] = "visible"]
            /\ UNCHANGED <<cleaned, rc>>
        BY <1>0, <1>a, <2>2 DEF RegisterFile
      <3>2. Own'
        BY <1>0, <1>a, <2>2, <3>1 DEF RegisterFile, WriteCall
      <3>3. CleanedOnce'
        BY <1>0, <1>a, <3>1 DEF CleanedOnce
      <3>4. Listed'
        BY <1>0, <1>a, <3>1
      <3> QED
        BY <1>b, <3>2, <3>3, <3>4
    <2>3. CASE WriteReturns(t) \/ WriteFails(t)
      <3>1. wr' = [wr EXCEPT ![t] = WrIdle] /\ UNCHANGED <<table, rc>>
        BY <2>3 DEF WriteReturns, WriteFails
      <3>2. Own'
        BY <1>0, <1>a, <3>1, LifecycleAssumption DEF WrIdle, table
      <3> QED
        BY <1>1, <3>1, <3>2 DEF table
    <2> QED
      BY <1>5, <2>1, <2>2, <2>3 DEF WriteStep
  <1>6. CASE Compact \/ Cleanup
    <2>1. CASE CompactRead
      <3>1. PICK m \in cmp.ids : CreateTemp("compactor", UNION {content[f] : f \in cmp.ids}, max_ts[m])
        BY <2>1 DEF CompactRead
      <3> QED
        BY <1>3, <2>1, <3>1 DEF CompactRead, Task
    <2>2. CASE CompactQuery \/ CompactReadFails \/ CompactMarkFails \/ CleanupQuery \/ CleanupMarkFails
      BY <1>2, <2>2 DEF CompactQuery, CompactReadFails, CompactMarkFails, CleanupQuery,
                        CleanupMarkFails, table
    <2>3. CASE CompactMark \/ CleanupMark
      <3>1. UNCHANGED <<cleaned, rc, wr>> /\ \E ids : state' = MarkDeleted(ids)
        BY <2>3 DEF CompactMark, CleanupMark
      <3>2. \A f \in Files : /\ state'[f] = "gone" <=> state[f] = "gone"
                             /\ state'[f] = "none" <=> state[f] = "none"
                             /\ state[f] = "deleted" => state'[f] = "deleted"
        BY <3>1 DEF MarkDeleted
      <3>3. CleanedOnce'
        BY <1>a, <3>1, <3>2 DEF CleanedOnce
      <3>4. Own'
        BY <1>0, <1>a, <3>1, <3>2
      <3>5. Listed'
        <4>1. \A p \in Reclaimers : /\ \A x \in rc[p].todo : x[1] \in Files
                                    /\ rc[p].pc = "delete" => rc[p].item[1] \in Files
                                    /\ rc[p].ids \subseteq Files
          BY <1>0 DEF ReclaimState, BusyInv
        <4> QED
          BY <1>a, <3>1, <3>2, <4>1
      <3> QED
        BY <1>b, <3>3, <3>4, <3>5
    <2> QED
      BY <1>6, <2>1, <2>2, <2>3 DEF Compact, Cleanup
  <1>7. CASE Move \/ SetCutoff \/ UNCHANGED vars
             \/ \E f \in Files : DelayedRemove(f) \/ DelayedRemoveFails(f)
    BY <1>2, <1>7 DEF Move, MoverQuery, MoverFilter, MoverRead, MoverUpload, MoverUploadFails,
                      MoverUpdate, MoverUpdateFails, DelayedRemove, DelayedRemoveFails, SetCutoff,
                      vars, table, tasks
  <1>8. ASSUME NEW p \in Reclaimers, Reclaim(p) PROVE SoleInv'
    <2>0. /\ \A u \in Reclaimers : u = p
          /\ UNCHANGED wr
      BY <1>8 DEF Reclaim, ReclaimQuery, ReclaimCheck, ReclaimDelete, ReclaimDeleteFails,
                  ReclaimCommit, ReclaimCommitFails
    <2>1. CASE ReclaimQuery(p)
      <3> DEFINE found == {<<f, location[f]>> : f \in {g \in Files : state[g] = "deleted"}}
      <3>1. \A x \in found : state[x[1]] = "deleted"
        OBVIOUS
      <3> HIDE DEF found
      <3>2. rc'[p].pc = "sweep" /\ rc'[p].todo = found /\ rc'[p].ids = {} /\ UNCHANGED table
        BY <1>0, <2>1 DEF ReclaimQuery, RcIdle, found
      <3>3. Listed'
        BY <2>0, <3>1, <3>2 DEF table
      <3> QED
        BY <1>a, <1>b, <2>0, <3>2, <3>3 DEF table, CleanedOnce
    <2>2. CASE ReclaimCheck(p)
      <3>1. PICK x \in rc[p].todo :
              rc' = [rc EXCEPT ![p] =
                       IF leases[x[1]] > 0 THEN [rc[p] EXCEPT !.todo = @ \ {x}]
                       ELSE [[rc[p] EXCEPT !.todo = @ \ {x}] EXCEPT !.pc = "delete", !.item = x]]
        BY <2>2 DEF ReclaimCheck
      <3>2. /\ rc'[p].todo \subseteq rc[p].todo
            /\ rc'[p].ids = rc[p].ids
            /\ rc'[p].pc = "delete" => rc'[p].item = x
        <4>1. rc[p] \in ReclaimState /\ rc[p].pc = "sweep"
          BY <1>0, <2>2 DEF ReclaimCheck
        <4>2. CASE leases[x[1]] > 0
          BY <1>0, <3>1, <4>1, <4>2 DEF ReclaimState
        <4>3. CASE ~(leases[x[1]] > 0)
          BY <1>0, <3>1, <4>1, <4>3 DEF ReclaimState
        <4> QED
          BY <4>2, <4>3
      <3>3. Listed' /\ UNCHANGED table
        BY <1>a, <2>0, <2>2, <3>2 DEF ReclaimCheck, table
      <3> QED
        BY <1>a, <1>b, <2>0, <3>3 DEF table, CleanedOnce
    <2>3. CASE ReclaimDelete(p) \/ ReclaimDeleteFails(p)
      <3>1. /\ rc'[p].todo = rc[p].todo
            /\ rc'[p].ids \subseteq rc[p].ids \cup {rc[p].item[1]}
            /\ rc'[p].pc = "sweep"
            /\ rc[p].pc = "delete"
        BY <1>0, <2>3 DEF ReclaimDelete, ReclaimDeleteFails, ReclaimState
      <3>2. Listed' /\ UNCHANGED table
        BY <1>a, <2>0, <2>3, <3>1 DEF ReclaimDelete, ReclaimDeleteFails, table
      <3> QED
        BY <1>a, <1>b, <2>0, <3>2 DEF table, CleanedOnce
    <2>4. CASE ReclaimCommit(p) \/ ReclaimCommitFails(p)
      <3>1. rc'[p].pc = "idle" /\ rc'[p].todo = {} /\ rc'[p].ids = {}
        BY <1>0, <2>4 DEF ReclaimCommit, ReclaimCommitFails, RcIdle
      <3>2. Listed'
        BY <2>0, <3>1
      <3>3. CASE ReclaimCommitFails(p)
        BY <1>a, <1>b, <2>0, <3>2, <3>3 DEF ReclaimCommitFails, table, CleanedOnce
      <3>4. CASE ReclaimCommit(p)
        <4>1. /\ state' = DeleteEntries(rc[p].ids)
              /\ cleaned' = [f \in Files |-> IF f \in rc[p].ids THEN cleaned[f] + 1 ELSE cleaned[f]]
          BY <3>4 DEF ReclaimCommit
        <4>2. CleanedOnce'
          BY <1>0, <1>a, <4>1 DEF CleanedOnce, DeleteEntries
        <4>3. Own'
          BY <1>0, <1>a, <2>0, <4>1 DEF DeleteEntries
        <4> QED
          BY <1>b, <3>2, <4>2, <4>3
      <3> QED
        BY <2>4, <3>3, <3>4
    <2> QED
      BY <1>8, <2>1, <2>2, <2>3, <2>4 DEF Reclaim
  <1>9. ASSUME NEW q \in Readers, Read(q) PROVE SoleInv'
    BY <1>2, <1>9 DEF Read, ReaderQuery, ReaderAcquire, ReaderResolve, ReaderScan, table
  <1>10. CASE Crash
    <2>1. Own' /\ Listed' /\ UNCHANGED table
      BY <1>10 DEF Crash, WrIdle, RcIdle
    <2> QED
      BY <1>a, <1>b, <2>1 DEF CleanedOnce, table
  <1> QED
    BY <1>4, <1>5, <1>6, <1>7, <1>8, <1>9, <1>10 DEF Next

(* When one FileReclaimer runs at a time, the cleanup totals count every   *)
(* reclaimed file once: failed commits, crashes between the deletes and    *)
(* the commit, and files left for the next cycle never count it again.     *)
THEOREM CleanedExactlyOnce ==
    ASSUME \A p, u \in Reclaimers : p = u
    PROVE  Spec => []CleanedOnce
  <1>1. Init => TypeInv /\ SoleInv
    BY FileTypeInit DEF TypeInv, BusyInv, SoleInv, CleanedOnce, Init, WrIdle, MvIdle, RcIdle
  <1>2. TypeInv /\ SoleInv /\ [Next]_vars => (TypeInv /\ SoleInv)'
    BY TypeStep, SoleStep
  <1>3. SoleInv => CleanedOnce
    BY DEF SoleInv
  <1> QED
    BY <1>1, <1>2, <1>3, PTL DEF Spec

-----------------------------------------------------------------------------
(* Without failures no row is visible twice. *)

(* Retiring and reclaiming only take visible files away. *)
LEMMA OnceShrinks ==
    ASSUME OnceInv, UNCHANGED <<content, wr, cmp, stored>>,
           Visible' \subseteq Visible,
           \A f \in Files : Registered(f)' <=> Registered(f)
    PROVE  OnceInv'
  <1>1. NewRowsInv'
    BY DEF OnceInv, NewRowsInv, Disjoint
  <1>2. \A S : ApartBut(S) => ApartBut(S)'
    BY DEF ApartBut, Disjoint
  <1>3. \A m \in Files : MergedInto(m) => MergedInto(m)'
    BY DEF MergedInto
  <1>4. MergeInv'
    BY <1>2, <1>3 DEF OnceInv, MergeInv
  <1> QED
    BY <1>1, <1>4 DEF OnceInv

LEMMA MarkShrinks ==
    ASSUME TypeOK, NEW ids, state' = MarkDeleted(ids)
    PROVE  /\ Visible' = Visible \ ids
           /\ \A f \in Files : Registered(f)' <=> Registered(f)
  BY DEF TypeOK, MarkDeleted, Visible, Registered

(* A file that is only being written is in no set the invariant is about. *)
LEMMA OnceCreate ==
    ASSUME TypeInv, SafeInv, OnceInv, NEW t \in Task, NEW rows, NEW ts,
           wr[t].pc = "idle", CreateTemp(t, rows, ts), UNCHANGED <<state, stored>>,
           cmp'.ids = cmp.ids, cmp.pc # "idle" => cmp'.pc # "idle",
           t = "compactor" => cmp.pc = "listed" /\ cmp'.pc = "writing",
           t # "compactor" => UNCHANGED cmp /\ rows \in SUBSET Pending
    PROVE  OnceInv'
  <1> USE DEF TypeInv
  <1>1. PICK f \in Files :
          /\ Fresh(f)
          /\ content' = [content EXCEPT ![f] = rows]
          /\ wr' = [wr EXCEPT ![t] = [pc |-> "temp", file |-> f, ts |-> ts]]
    BY DEF CreateTemp
  <1>2. /\ \A g \in Files : g # f => content'[g] = content[g]
        /\ \A g \in Files : Registered(g) => g # f
        /\ \A g \in Files : Registered(g)' <=> Registered(g)
        /\ Visible' = Visible
        /\ f \notin Visible
        /\ content'[f] = rows
    BY <1>1 DEF TypeOK, Fresh, Registered, Visible
  <1>3. /\ \A u \in Task : u # t => wr'[u] = wr[u]
        /\ \A u \in Task : wr[u].file # f
        /\ \A u \in Task : wr[u].pc # "idle" => wr[u].file \in Files
        /\ wr'[t].pc = "temp" /\ wr'[t].file = f
    BY <1>1 DEF TypeOK, Fresh, BusyInv
  <1>4. f \notin cmp.ids /\ cmp.ids \subseteq Files
    BY <1>2 DEF SafeInv, CompactInv, TypeOK, CompactState
  <1>5. NewRowsInv'
    <2>1. \A g \in Files : Registered(g)' =>
              \A r \in content'[g] :
                  r \in stored' \/ \E w \in Writers : wr'[w].pc = "registered" /\ r \in content'[wr'[w].file]
      BY <1>2, <1>3 DEF OnceInv, NewRowsInv, Task
    <2>2. \A w \in Writers : wr'[w].pc # "idle" => content'[wr'[w].file] \cap stored' = {}
      <3>1. CASE t = "compactor"
        BY <1>2, <1>3, <3>1, LifecycleAssumption DEF OnceInv, NewRowsInv, Task
      <3>2. CASE t # "compactor"
        <4>1. rows \cap stored = {}
          BY <3>2 DEF Pending
        <4> QED
          BY <1>2, <1>3, <4>1 DEF OnceInv, NewRowsInv, Task
      <3> QED
        BY <3>1, <3>2
    <2>3. \A v, w \in Writers : v # w /\ wr'[v].pc # "idle" /\ wr'[w].pc # "idle"
                                    => Disjoint(wr[v].file, wr[w].file)'
      <3>1. CASE t = "compactor"
        BY <1>2, <1>3, <3>1, LifecycleAssumption DEF OnceInv, NewRowsInv, Task, Disjoint
      <3>2. CASE t # "compactor"
        <4>1. \A w \in Writers : wr[w].pc # "idle" => rows \cap content[wr[w].file] = {}
          BY <3>2 DEF Pending
        <4> QED
          BY <1>2, <1>3, <4>1 DEF OnceInv, NewRowsInv, Task, Disjoint
      <3> QED
        BY <3>1, <3>2
    <2> QED
      BY <2>1, <2>2, <2>3 DEF NewRowsInv
  <1>6. \A S : ApartBut(S) => ApartBut(S)'
    <2>1. \A g \in cmp.ids \cup Visible : content'[g] = content[g]
      BY <1>2, <1>4 DEF Visible
    <2> QED
      BY <1>2, <2>1 DEF ApartBut, Disjoint
  <1>7. MergeInv'
    <2>1. CASE t = "compactor"
      <3>1. ApartBut({}) /\ cmp'.pc = "writing" /\ wr'["compactor"].pc = "temp"
        BY <1>3, <2>1 DEF OnceInv, MergeInv
      <3> QED
        BY <1>6, <3>1 DEF MergeInv
    <2>2. CASE t # "compactor"
      <3>1. UNCHANGED cmp /\ wr'["compactor"] = wr["compactor"]
        BY <1>3, <2>2 DEF Task
      <3>2. \A m \in Files : MergedInto(m) => MergedInto(m)'
        <4>1. \A g \in cmp.ids : content'[g] = content[g]
          BY <1>2, <1>4
        <4> QED
          BY <1>2, <3>1, <4>1 DEF MergedInto
      <3> QED
        BY <1>6, <3>1, <3>2 DEF OnceInv, MergeInv
    <2> QED
      BY <2>1, <2>2
  <1> QED
    BY <1>5, <1>7 DEF OnceInv

(* A registered file joins the visible ones: a writer's rows are new, the  *)
(* compactor's file is set aside.                                          *)
LEMMA OnceRegister ==
    ASSUME TypeInv, SafeInv, OnceInv, NEW t \in Task, RegisterFile(t)
    PROVE  OnceInv'
  <1> USE DEF TypeInv
  <1> DEFINE f == wr[t].file
  <1>1. /\ f \in Files
        /\ state[f] = "none"
        /\ \A u \in Task : wr[u].file = f => u = t
        /\ UNCHANGED <<content, cmp, stored>>
    BY DEF RegisterFile, BusyInv, SafeInv, WriterInv, storage, history
  <1>2. /\ Visible' = Visible \cup {f}
        /\ f \notin Visible
        /\ \A g \in Files : Registered(g)' <=> Registered(g) \/ g = f
        /\ ~Registered(f)
    BY <1>1 DEF RegisterFile, TypeOK, Visible, Registered
  <1>3. /\ \A u \in Task : wr'[u].file = wr[u].file
        /\ \A u \in Task : u # t => wr'[u] = wr[u]
        /\ wr[t].pc = "renamed" /\ wr'[t].pc = "registered"
    BY DEF RegisterFile, TypeOK, WriteCall
  <1>4. cmp.ids \subseteq Files /\ \A g \in cmp.ids : Registered(g)
    BY DEF TypeOK, CompactState, SafeInv, CompactInv
  <1>h. HIDE DEF f
  <1>5. CASE t \in Writers
    <2>1. NewRowsInv'
      BY <1>1, <1>2, <1>3, <1>5 DEF OnceInv, NewRowsInv, Task, Disjoint, f
    <2>2. \A g \in Files : Registered(g) => Disjoint(f, g)
      BY <1>1, <1>2, <1>3, <1>5 DEF OnceInv, NewRowsInv, Disjoint, f
    <2>3. \A S : ApartBut(S) => ApartBut(S)'
      <3>1. \A g \in Visible \cup cmp.ids : Disjoint(f, g) /\ Disjoint(g, f)
        BY <1>4, <2>2 DEF Visible, Registered, Disjoint
      <3>2. \A g, h : Disjoint(g, h) => Disjoint(g, h)'
        BY <1>1 DEF Disjoint
      <3> QED
        BY <1>1, <1>2, <3>1, <3>2 DEF ApartBut
    <2>4. \A m \in Files : MergedInto(m) => MergedInto(m)'
      BY <1>1, <1>2 DEF MergedInto
    <2>5. wr'["compactor"] = wr["compactor"]
      BY <1>3, <1>5, LifecycleAssumption DEF Task
    <2>6. MergeInv'
      BY <1>1, <2>3, <2>4, <2>5 DEF OnceInv, MergeInv
    <2> QED
      BY <2>1, <2>6 DEF OnceInv
  <1>6. CASE t = "compactor"
    <2>1. cmp.pc = "writing" /\ content[f] = UNION {content[g] : g \in cmp.ids}
      BY <1>3, <1>6 DEF SafeInv, CompactInv, f
    <2>2. \A w \in Writers : wr'[w] = wr[w]
      BY <1>3, <1>6, LifecycleAssumption DEF Task
    <2>3. \A r \in content[f] : \E g \in Files : Registered(g) /\ r \in content[g]
      BY <1>4, <2>1
    <2>4. NewRowsInv'
      BY <1>1, <1>2, <2>2, <2>3 DEF OnceInv, NewRowsInv, Disjoint
    <2>5. ApartBut({})
      BY <1>3, <1>6, <2>1 DEF OnceInv, MergeInv
    <2>6. f' = f /\ ApartBut({f})'
      <3>1. f' = f
        BY <1>3 DEF f
      <3> QED
        BY <1>1, <1>2, <2>5, <3>1 DEF ApartBut, Disjoint
    <2>7. MergeInv'
      BY <1>1, <1>3, <1>6, <2>1, <2>6 DEF MergeInv, f
    <2> QED
      BY <2>4, <2>7 DEF OnceInv
  <1> QED
    BY <1>5, <1>6 DEF Task

(* A write returns: its rows are acknowledged, or its file is the merged   *)
(* one.                                                                    *)
LEMMA OnceReturn ==
    ASSUME TypeInv, SafeInv, OnceInv, NEW t \in Task, WriteReturns(t)
    PROVE  OnceInv'
  <1> USE DEF TypeInv
  <1>1. /\ wr[t].pc = "registered" /\ wr'[t].pc = "idle"
        /\ wr[t].file \in Files
        /\ \A u \in Task : u # t => wr'[u] = wr[u]
        /\ UNCHANGED <<content, state>>
    BY DEF WriteReturns, TypeOK, BusyInv, WrIdle, storage, table
  <1>2. \A S : ApartBut(S) /\ cmp'.ids = cmp.ids => ApartBut(S)'
    BY <1>1 DEF ApartBut, Disjoint, Visible
  <1>3. CASE t \in Writers
    <2>1. stored' = stored \cup content[wr[t].file] /\ UNCHANGED cmp
      BY <1>3, LifecycleAssumption DEF WriteReturns
    <2>2. NewRowsInv'
      BY <1>1, <1>3, <2>1 DEF OnceInv, NewRowsInv, Disjoint, Registered, Task
    <2>3. wr'["compactor"] = wr["compactor"]
      BY <1>1, <1>3, LifecycleAssumption DEF Task
    <2>4. \A m \in Files : MergedInto(m) => MergedInto(m)'
      BY <1>1, <2>1 DEF MergedInto, Registered
    <2>5. MergeInv'
      BY <1>2, <2>1, <2>3, <2>4 DEF OnceInv, MergeInv
    <2> QED
      BY <2>2, <2>5 DEF OnceInv
  <1>4. CASE t = "compactor"
    <2>1. stored' = stored /\ cmp'.pc = "marking" /\ cmp'.ids = cmp.ids /\ cmp.pc = "writing"
      BY <1>1, <1>4 DEF WriteReturns, TypeOK, CompactState, SafeInv, CompactInv
    <2>2. \A w \in Writers : wr'[w] = wr[w]
      BY <1>1, <1>4, LifecycleAssumption DEF Task
    <2>3. NewRowsInv'
      BY <1>1, <2>1, <2>2 DEF OnceInv, NewRowsInv, Disjoint, Registered
    <2> DEFINE m == wr["compactor"].file
    <2>4. m \in Files /\ Registered(m) /\ m \notin cmp.ids /\ content[m] = UNION {content[g] : g \in cmp.ids}
      BY <1>1, <1>4, <2>1 DEF SafeInv, CompactInv, WriterInv
    <2>5. ApartBut({m})
      BY <1>1, <1>4 DEF OnceInv, MergeInv
    <2> HIDE DEF m
    <2>6. PICK n \in Files : n = m
      BY <2>4
    <2>7. MergedInto(n)' /\ ApartBut({n})'
      BY <1>1, <1>2, <2>1, <2>4, <2>5, <2>6 DEF MergedInto, Registered
    <2>8. MergeInv'
      BY <1>1, <1>4, <2>1, <2>7 DEF MergeInv
    <2> QED
      BY <2>3, <2>8 DEF OnceInv
  <1> QED
    BY <1>3, <1>4 DEF Task

LEMMA OnceCompact ==
    ASSUME IoFaults = FALSE, TypeInv, SafeInv, OnceInv, Compact
    PROVE  OnceInv'
  <1> USE DEF TypeInv
  <1>0. cmp.pc = "writing" <=> wr["compactor"].pc # "idle"
    BY DEF SafeInv, CompactInv
  <1>1. ASSUME UNCHANGED <<content, wr, state, stored>> PROVE NewRowsInv'
    BY <1>1 DEF OnceInv, NewRowsInv, Disjoint, Registered
  <1>2. CASE CompactQuery
    <2>1. PICK ids \in SUBSET Visible : cmp' = [pc |-> "listed", ids |-> ids]
      <3>1. PICK group \in SUBSET {f \in Visible : location[f] = "local"} :
               cmp' = [pc |-> "listed", ids |-> {f \in group : Cardinality(content[f]) < MaxFileSize}]
        BY <1>2 DEF CompactQuery
      <3> QED
        BY <3>1
    <2>2. cmp.pc = "idle" /\ UNCHANGED <<content, wr, state, stored>>
      BY <1>2 DEF CompactQuery, storage, table, history
    <2>3. ApartBut({})
      BY <1>0, <2>2 DEF OnceInv, MergeInv
    <2>4. ApartBut({})'
      BY <2>1, <2>2, <2>3 DEF ApartBut, Disjoint, Visible
    <2>5. MergeInv'
      BY <1>0, <2>1, <2>2, <2>4 DEF MergeInv
    <2> QED
      BY <1>1, <2>2, <2>5 DEF OnceInv
  <1>3. CASE CompactRead
    <2>1. PICK m \in cmp.ids : CreateTemp("compactor", UNION {content[f] : f \in cmp.ids}, max_ts[m])
      BY <1>3 DEF CompactRead
    <2>2. /\ cmp.pc = "listed" /\ cmp'.pc = "writing" /\ cmp'.ids = cmp.ids
          /\ wr["compactor"].pc = "idle" /\ "compactor" \in Task
          /\ UNCHANGED <<state, stored>>
      BY <1>0, <1>3 DEF CompactRead, TypeOK, CompactState, table, history, Task
    <2> QED
      BY <2>1, <2>2, OnceCreate
  <1>4. CASE CompactReadFails
    <2>1. /\ cmp'.pc = "idle" /\ cmp'.ids = {} /\ cmp.pc = "listed"
          /\ UNCHANGED <<content, wr, state, stored>>
      BY <1>4 DEF CompactReadFails, CmpIdle, storage, table, history
    <2>2. ApartBut({})
      BY <1>0, <2>1 DEF OnceInv, MergeInv
    <2>3. ApartBut({})'
      BY <2>1, <2>2 DEF ApartBut, Disjoint, Visible
    <2>4. MergeInv'
      BY <1>0, <2>1, <2>3 DEF MergeInv
    <2> QED
      BY <1>1, <2>1, <2>4 DEF OnceInv
  <1>5. CASE CompactMark
    <2>1. /\ cmp'.pc = "idle" /\ cmp'.ids = {} /\ cmp.pc = "marking"
          /\ UNCHANGED <<content, wr, stored>>
          /\ state' = MarkDeleted(cmp.ids)
      BY <1>5 DEF CompactMark, CmpIdle, storage, history
    <2>2. Visible' = Visible \ cmp.ids /\ \A f \in Files : Registered(f)' <=> Registered(f)
      BY <2>1, MarkShrinks
    <2>3. PICK m \in Files : MergedInto(m) /\ ApartBut({m})
      BY <2>1 DEF OnceInv, MergeInv
    <2>4. \A g \in Visible' : g # m => Disjoint(m, g) /\ Disjoint(g, m)
      BY <2>2, <2>3 DEF MergedInto, ApartBut, Disjoint
    <2>5. ApartBut({})'
      BY <2>1, <2>2, <2>3, <2>4 DEF ApartBut, Disjoint
    <2>6. NewRowsInv'
      BY <2>1, <2>2 DEF OnceInv, NewRowsInv, Disjoint
    <2>7. MergeInv'
      BY <1>0, <2>1, <2>5 DEF MergeInv
    <2> QED
      BY <2>6, <2>7 DEF OnceInv
  <1> QED
    BY <1>2, <1>3, <1>4, <1>5 DEF Compact, CompactMarkFails

LEMMA OnceStep ==
    ASSUME IoFaults = FALSE, MaxCrashes = 0, TypeInv, SafeInv, OnceInv, [Next]_vars
    PROVE  OnceInv'
  <1> USE DEF TypeInv
  <1>1. ASSUME UNCHANGED <<content, wr, cmp, stored, state>> PROVE OnceInv'
    BY <1>1, OnceShrinks DEF Visible, Registered
  <1>2. ASSUME NEW w \in Writers, WriteBatch(w) PROVE OnceInv'
    <2>1. PICK rows \in SUBSET Pending : \E ts \in rows : CreateTemp(w, rows, ts)
      BY <1>2 DEF WriteBatch
    <2>2. /\ wr[w].pc = "idle" /\ w \in Task /\ w # "compactor"
          /\ UNCHANGED <<state, stored, cmp>>
      BY <1>2, LifecycleAssumption DEF WriteBatch, Task, table, history
    <2> QED
      BY <2>1, <2>2, OnceCreate
  <1>3. ASSUME NEW t \in Task, WriteStep(t) PROVE OnceInv'
    <2>1. CASE Rename(t)
      <3>1. /\ UNCHANGED <<content, cmp, stored, state>>
            /\ \A u \in Task : /\ wr'[u].file = wr[u].file
                               /\ wr'[u].pc = "idle" <=> wr[u].pc = "idle"
                               /\ wr'[u].pc = "registered" <=> wr[u].pc = "registered"
        BY <2>1 DEF Rename, TypeOK, WriteCall, table, history
      <3>2. NewRowsInv'
        BY <3>1 DEF OnceInv, NewRowsInv, Disjoint, Registered, Task
      <3>3. \A S : ApartBut(S) => ApartBut(S)'
        BY <3>1 DEF ApartBut, Disjoint, Visible
      <3>4. \A m \in Files : MergedInto(m) => MergedInto(m)'
        BY <3>1 DEF MergedInto, Registered
      <3>5. MergeInv'
        BY <3>1, <3>3, <3>4 DEF OnceInv, MergeInv, Task
      <3> QED
        BY <3>2, <3>5 DEF OnceInv
    <2> QED
      BY <1>3, <2>1, OnceRegister, OnceReturn DEF WriteStep, WriteFails
  <1>4. CASE Cleanup
    <2>1. UNCHANGED <<content, wr, cmp, stored>> /\ (UNCHANGED state \/ state' = MarkDeleted(cl.ids))
      BY <1>4 DEF Cleanup, CleanupQuery, CleanupMark, CleanupMarkFails, storage, table, history
    <2> QED
      BY <1>1, <2>1, MarkShrinks, OnceShrinks
  <1>5. ASSUME NEW p \in Reclaimers, Reclaim(p) PROVE OnceInv'
    <2>1. UNCHANGED <<content, wr, cmp, stored>> /\ (UNCHANGED state \/ state' = DeleteEntries(rc[p].ids))
      BY <1>5 DEF Reclaim, ReclaimQuery, ReclaimCheck, ReclaimDelete, ReclaimDeleteFails,
                  ReclaimCommit, ReclaimCommitFails, storage, table, history
    <2>2. CASE state' = DeleteEntries(rc[p].ids)
      <3>1. Visible' \subseteq Visible /\ \A f \in Files : Registered(f)' <=> Registered(f)
        BY <2>2 DEF TypeOK, DeleteEntries, Visible, Registered
      <3> QED
        BY <2>1, <3>1, OnceShrinks
    <2> QED
      BY <1>1, <2>1, <2>2
  <1>6. CASE \/ Move
             \/ \E f \in Files : DelayedRemove(f) \/ DelayedRemoveFails(f)
             \/ SetCutoff
             \/ UNCHANGED vars
    BY <1>1, <1>6 DEF Move, MoverQuery, MoverFilter, MoverRead, MoverUpload, MoverUploadFails,
                      MoverUpdate, MoverUpdateFails, DelayedRemove, DelayedRemoveFails, SetCutoff,
                      vars, storage, table, tasks, history
  <1>7. ASSUME NEW q \in Readers, Read(q) PROVE OnceInv'
    BY <1>1, <1>7 DEF Read, ReaderQuery, ReaderAcquire, ReaderResolve, ReaderScan, storage, table,
                      history
  <1>8. ~Crash
    BY DEF Crash, TypeOK
  <1> QED
    BY <1>2, <1>3, <1>4, <1>5, <1>6, <1>7, <1>8, OnceCompact DEF Next

(* Without failures and crashes a query never sees a row twice, but while  *)
(* a merge is between registering its file and retiring the originals:     *)
(* writers hand each row over once, and compaction replaces what it merged *)
(* although retention, promotion and reclaiming go on meanwhile.           *)
THEOREM RowsSeenOnce ==
    ASSUME FsyncBeforeRename = TRUE, IoFaults = FALSE, MaxCrashes = 0
    PROVE  Spec => []RowsVisibleOnce
  <1> DEFINE All == TypeInv /\ SafeInv /\ OnceInv
  <1>1. Init => All
    <2>1. Init => OnceInv
      BY DEF Init, OnceInv, NewRowsInv, MergeInv, ApartBut, Registered, Visible, WrIdle, CmpIdle, Task
    <2> QED
      BY <2>1, FileTypeInit, SafeInit DEF TypeInv, BusyInv, Init, WrIdle, MvIdle, RcIdle
  <1>2. All /\ [Next]_vars => All'
    BY TypeStep, SafeStep, OnceStep
  <1>3. All => RowsVisibleOnce
    BY DEF SafeInv, CompactInv, OnceInv, MergeInv, ApartBut, Disjoint, RowsVisibleOnce
  <1> QED
    BY <1>1, <1>2, <1>3, PTL DEF Spec
=============================================================================
