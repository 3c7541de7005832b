---------------------------- MODULE BufferProofs ----------------------------
(***************************************************************************)
(* Proofs about Buffer for every set of batches, slot size, interval and   *)
(* number of faults: the invariant of BufferInv is inductive, rows end in  *)
(* files of their own partition, and the write path implements RowStore.   *)
(***************************************************************************)
EXTENDS BufferInv, FiniteSetTheorems, TLAPS

-----------------------------------------------------------------------------
(* Partitioning *)

\* What Partition makes of a batch: disjoint groups that cover it.
LEMMA PartitionCovers ==
    ASSUME NEW b \in Batches
    PROVE  /\ Partition(b.rows) \subseteq [key : PartitionKeys, rows : SUBSET RowsOf(b)]
           /\ RowsOf(b) = RowsIn(Partition(b.rows))
           /\ \A g, h \in Partition(b.rows) : g # h => g.rows \cap h.rows = {}
  <1>0. RowsOf(b) = Range(b.rows) /\ RowsOf(b) \subseteq AllRows
    BY DEF RowsOf, AllRows
  <1>1. CASE IsHomogeneous(b.rows)
    <2>1. b.rows[1] \in RowsOf(b)
      BY <1>0, BufferAssumption DEF Range
    <2>2. Partition(b.rows) = {[key |-> PartitionKey(b.rows[1]), rows |-> RowsOf(b)]}
      BY <1>0, <1>1 DEF Partition
    <2>3. PartitionKey(b.rows[1]) \in PartitionKeys
      BY <1>0, <2>1 DEF PartitionKeys
    <2> QED
      BY <2>2, <2>3 DEF RowsIn
  <1>2. CASE ~IsHomogeneous(b.rows)
    <2> DEFINE G(k) == {r \in RowsOf(b) : PartitionKey(r) = k}
               K == {PartitionKey(r) : r \in RowsOf(b)}
    <2>1. Partition(b.rows) = {[key |-> k, rows |-> G(k)] : k \in K}
      BY <1>0, <1>2 DEF Partition, Grouped
    <2>2. K \subseteq PartitionKeys
      BY <1>0 DEF PartitionKeys
    <2>3. \A r \in RowsOf(b) : PartitionKey(r) \in K /\ r \in G(PartitionKey(r))
      OBVIOUS
    <2>4. \A k, l : k # l => G(k) \cap G(l) = {}
      OBVIOUS
    <2>5. \A k : G(k) \subseteq RowsOf(b)
      OBVIOUS
    <2> HIDE DEF G, K
    <2>6. Partition(b.rows) \subseteq [key : PartitionKeys, rows : SUBSET RowsOf(b)]
      BY <2>1, <2>2, <2>5
    <2>7. RowsOf(b) = RowsIn(Partition(b.rows))
      <3>1. ASSUME NEW r \in RowsOf(b)
            PROVE  \E g \in Partition(b.rows) : r \in g.rows
        <4> DEFINE g == [key |-> PartitionKey(r), rows |-> G(PartitionKey(r))]
        <4>1. g \in Partition(b.rows)
          BY <2>1, <2>3
        <4> QED
          BY <2>3, <4>1
      <3>2. \A g \in Partition(b.rows) : g.rows \subseteq RowsOf(b)
        BY <2>6
      <3> QED
        BY <3>1, <3>2 DEF RowsIn
    <2>8. \A g, h \in Partition(b.rows) : g # h => g.rows \cap h.rows = {}
      BY <2>1, <2>4
    <2> QED
      BY <2>6, <2>7, <2>8
  <1> QED
    BY <1>1, <1>2

\* After 1970 the hour of the date path is the hour bucket.
LEMMA DatePathIsBucket ==
    ASSUME NEW ts \in Nat
    PROVE  DatePath(ts) = ts \div HourLen
  <1>1. SecondLen \in Nat \ {0} /\ HourLen \in Nat \ {0}
    BY BufferAssumption
  <1>2. SecondLen * (ts \div SecondLen) + (ts % SecondLen) = ts
    BY <1>1
  <1> QED
    BY <1>1, <1>2 DEF DatePath

LEMMA PartitionPlaces ==
    ASSUME NEW b \in Batches, \A r \in RowsOf(b) : r.ts \in Nat,
           NEW g \in Partition(b.rows), NEW r \in g.rows
    PROVE  PartitionKey(r) = g.key
  <1>1. CASE IsHomogeneous(b.rows)
    <2>0. 1 \in DOMAIN b.rows
      BY BufferAssumption
    <2>1. b.rows[1] \in RowsOf(b)
      BY <2>0 DEF Range, RowsOf
    <2>2. g = [key |-> PartitionKey(b.rows[1]), rows |-> RowsOf(b)]
      BY <1>1 DEF Partition, RowsOf
    <2>3. PICK n \in DOMAIN b.rows : r = b.rows[n]
      BY <2>2 DEF RowsOf, Range
    <2>4. Discriminator(r) = Discriminator(b.rows[1])
      BY <1>1, <2>3 DEF IsHomogeneous
    <2>5. /\ r.ws = b.rows[1].ws /\ StreamOf(r) = StreamOf(b.rows[1])
          /\ r.ts \div HourLen = b.rows[1].ts \div HourLen
      BY <2>4 DEF Discriminator
    <2>6. r.ts \in Nat /\ b.rows[1].ts \in Nat
      BY <2>1, <2>2
    <2>7. DatePath(r.ts) = DatePath(b.rows[1].ts)
      BY <2>5, <2>6, DatePathIsBucket
    <2> QED
      BY <2>2, <2>5, <2>7 DEF PartitionKey
  <1>2. CASE ~IsHomogeneous(b.rows)
    BY <1>2 DEF Partition, Grouped
  <1> QED
    BY <1>1, <1>2

\* The rows of a group can be counted.
LEMMA GroupSize ==
    ASSUME NEW b \in Batches, NEW S \in SUBSET RowsOf(b)
    PROVE  Cardinality(S) \in Nat
  <1>1. b.rows \in [1..Len(b.rows) -> RowsOf(b)] /\ Len(b.rows) \in Nat
    BY BufferAssumption
  <1>2. b.rows \in Surjection(1..Len(b.rows), RowsOf(b))
    BY <1>1 DEF Surjection, RowsOf, Range
  <1>3. IsFiniteSet(RowsOf(b))
    BY <1>1, <1>2, FS_NatSurjection DEF ExistsSurjection
  <1>4. IsFiniteSet(S)
    BY <1>3, FS_Subset
  <1> QED
    BY <1>4, FS_CardinalityType
-----------------------------------------------------------------------------
(* What a step does to the rows that are taken *)

\* The rows of a set of slots, files or groups, one more added.
LEMMA RowsAdd ==
    ASSUME NEW A, NEW x
    PROVE  RowsIn(A \cup {x}) = RowsIn(A) \cup x.rows
  <1>1. \A r : r \in RowsIn(A \cup {x}) <=> \E t \in A \cup {x} : r \in t.rows
    BY DEF RowsIn
  <1>2. \A r : r \in RowsIn(A) <=> \E t \in A : r \in t.rows
    BY DEF RowsIn
  <1> QED
    BY <1>1, <1>2

\* Of disjoint groups, one taken away.
LEMMA RowsRemove ==
    ASSUME NEW A, NEW x \in A, \A y \in A : y # x => y.rows \cap x.rows = {}
    PROVE  RowsIn(A \ {x}) = RowsIn(A) \ x.rows
  <1>1. \A r : r \in RowsIn(A \ {x}) <=> \E t \in A \ {x} : r \in t.rows
    BY DEF RowsIn
  <1>2. \A r : r \in RowsIn(A) <=> \E t \in A : r \in t.rows
    BY DEF RowsIn
  <1> QED
    BY <1>1, <1>2

\* A step that leaves inserts and their outcomes alone, and gives up no row
\* taken, keeps what is said of them.
LEMMA InsertsFrame ==
    ASSUME TakingInv, UNCHANGED <<buffered, inserts, done>>, alive' => alive, Accepted' = Accepted
    PROVE  InsertsInv' /\ AheadInv' /\ TakenWhenReturned'
  <1>1. \A i : Pending(i)' = Pending(i)
    BY DEF Pending
  <1>2. InsertsInv'
    BY <1>1 DEF TakingInv, InsertsInv
  <1>3. AheadInv'
    BY <1>1 DEF TakingInv, AheadInv
  <1>4. TakenWhenReturned'
    BY DEF TakingInv, TakenWhenReturned
  <1> QED
    BY <1>2, <1>3, <1>4

\* Only a buffered writer has a worker at work.
LEMMA WorkBuffered ==
    ASSUME TakingInv, Work \/ Cancelled
    PROVE  buffered = TRUE /\ alive
  <1>1. CASE TimerTick \/ Notified \/ Cancelled
    BY <1>1 DEF TimerTick, Notified, Cancelled, TakingInv, DirectInv, TypeOK
  <1>2. CASE \E k \in worker.keys : DrainKey(k)
    BY <1>2 DEF DrainKey, TakingInv, DirectInv, WorkerInv, TypeOK, Waiting
  <1>3. CASE DrainDone \/ FlushOne \/ FlushDone
    BY <1>3 DEF DrainDone, FlushOne, FlushDone, TakingInv, DirectInv, WorkerInv, TypeOK, Waiting
  <1> QED
    BY <1>1, <1>2, <1>3 DEF Work

\* The parts of TypeOK on which the steps build.
LEMMA WorkerType ==
    ASSUME TypeOK
    PROVE  /\ worker = [pc |-> worker.pc, keys |-> worker.keys, taken |-> worker.taken, last |-> worker.last]
           /\ worker.keys \subseteq BufferKeys
           /\ worker.taken \subseteq [key : BufferKeys, rows : SUBSET AllRows]
           /\ worker.last \in BOOLEAN
           /\ slots = [k \in DOMAIN slots |-> slots[k]]
           /\ \A k \in DOMAIN slots : slots[k] = [rows |-> slots[k].rows, size |-> slots[k].size, age |-> slots[k].age]
           /\ \A k \in DOMAIN slots : slots[k].rows \subseteq AllRows /\ slots[k].size \in Nat /\ slots[k].age \in 0..Interval
  BY DEF TypeOK

\* A select branch: the worker starts a drain, or goes back to wait.
LEMMA TakingSelect ==
    ASSUME TakingInv, buffered = TRUE, alive,
           UNCHANGED <<buffered, slots, inserts, cancelled, files, done, lost, alive, faults>>,
           worker'.taken = worker.taken,
           worker' \in [pc : {"wait", "drain", "write", "stopped"}, keys : SUBSET BufferKeys,
                        taken : SUBSET [key : BufferKeys, rows : SUBSET AllRows], last : BOOLEAN],
           worker'.pc = "drain" => worker'.keys \subseteq DOMAIN slots,
           worker'.pc \in {"wait", "stopped"} => worker.taken = {},
           permit' \in BOOLEAN, timer' \in 0..Interval
    PROVE  TakingInv'
  <1>1. TypeOK'
    BY DEF TakingInv, TypeOK
  <1>2. InSlots' = InSlots /\ InHand' = InHand /\ Stored' = Stored
    BY DEF InSlots, InHand, Stored
  <1>3. Accepted' = Accepted
    BY <1>2 DEF Accepted
  <1>4. InsertsInv' /\ AheadInv' /\ TakenWhenReturned'
    BY <1>3, InsertsFrame
  <1>5. WorkerInv' /\ DirectInv'
    BY DEF WorkerInv, DirectInv
  <1>6. ApartInv'
    BY <1>2 DEF TakingInv, ApartInv
  <1> QED
    BY <1>1, <1>4, <1>5, <1>6 DEF TakingInv

\* Taking a slot moves its rows to the worker's hands.
LEMMA DrainMoves ==
    ASSUME TakingInv, NEW k \in worker.keys, DrainKey(k)
    PROVE  /\ k \in DOMAIN slots /\ k \in BufferKeys
           /\ worker' = [pc |-> "drain", keys |-> worker.keys \ {k},
                         taken |-> worker.taken \cup {[key |-> k, rows |-> slots[k].rows]}, last |-> worker.last]
           /\ DOMAIN slots' = DOMAIN slots \ {k}
           /\ \A l \in DOMAIN slots' : slots'[l] = slots[l]
           /\ InSlots = InSlots' \cup slots[k].rows
           /\ InHand' = InHand \cup slots[k].rows
  <1>1. k \in DOMAIN slots /\ k \in BufferKeys
    BY WorkerType DEF DrainKey, TakingInv, WorkerInv
  <1>2. worker' = [pc |-> "drain", keys |-> worker.keys \ {k},
                   taken |-> worker.taken \cup {[key |-> k, rows |-> slots[k].rows]}, last |-> worker.last]
    BY WorkerType DEF DrainKey, Taken, TakingInv
  <1>3. /\ DOMAIN slots' = DOMAIN slots \ {k}
        /\ \A l \in DOMAIN slots' : slots'[l] = slots[l]
    BY DEF DrainKey
  <1>4. InSlots = InSlots' \cup slots[k].rows
    BY <1>1, <1>3 DEF InSlots
  <1>5. InHand' = InHand \cup slots[k].rows
    <2>1. worker'.taken = worker.taken \cup {[key |-> k, rows |-> slots[k].rows]}
      BY <1>2
    <2> DEFINE x == [key |-> k, rows |-> slots[k].rows]
    <2>2. x.rows = slots[k].rows /\ worker'.taken = worker.taken \cup {x}
      BY <2>1
    <2> HIDE DEF x
    <2>3. RowsIn(worker.taken \cup {x}) = RowsIn(worker.taken) \cup x.rows
      BY RowsAdd
    <2> QED
      BY <2>2, <2>3 DEF InHand
  <1> QED
    BY <1>1, <1>2, <1>3, <1>4, <1>5

LEMMA TakingDrain ==
    ASSUME TakingInv, NEW k \in worker.keys, DrainKey(k)
    PROVE  TakingInv'
  <1>0. buffered = TRUE /\ alive
    BY WorkBuffered DEF Work
  <1>u. UNCHANGED <<buffered, permit, inserts, timer, cancelled, files, done, lost, alive, faults>>
    BY DEF DrainKey
  <1>1. /\ k \in DOMAIN slots /\ k \in BufferKeys
        /\ worker' = [pc |-> "drain", keys |-> worker.keys \ {k},
                      taken |-> worker.taken \cup {[key |-> k, rows |-> slots[k].rows]}, last |-> worker.last]
        /\ DOMAIN slots' = DOMAIN slots \ {k}
        /\ \A l \in DOMAIN slots' : slots'[l] = slots[l]
        /\ InSlots = InSlots' \cup slots[k].rows
        /\ InHand' = InHand \cup slots[k].rows
    BY DrainMoves
  <1>2. TypeOK'
    <2>1. worker' \in [pc : {"wait", "drain", "write", "stopped"}, keys : SUBSET BufferKeys,
                       taken : SUBSET [key : BufferKeys, rows : SUBSET AllRows], last : BOOLEAN]
      BY <1>1, WorkerType DEF TakingInv
    <2>2. slots' = [l \in DOMAIN slots \ {k} |-> slots[l]]
      BY DEF DrainKey
    <2>3. /\ DOMAIN slots' \subseteq BufferKeys
          /\ slots' \in [DOMAIN slots' -> [rows : SUBSET AllRows, size : Nat, age : 0..Interval]]
      BY <2>2 DEF TakingInv, TypeOK
    <2> QED
      BY <1>u, <2>1, <2>3 DEF TakingInv, TypeOK
  <1>3. Stored' = Stored /\ lost' = lost
    BY <1>u DEF Stored
  <1>4. Accepted' = Accepted
    BY <1>1, <1>3 DEF Accepted
  <1>5. InsertsInv' /\ AheadInv' /\ TakenWhenReturned'
    BY <1>u, <1>4, InsertsFrame
  <1>6. WorkerInv' /\ DirectInv'
    BY <1>0, <1>u, <1>1 DEF TakingInv, WorkerInv, DirectInv, DrainKey
  <1>7. ApartInv'
    <2>0. /\ \A m, l \in DOMAIN slots : m # l => slots[m].rows \cap slots[l].rows = {}
          /\ \A t, u \in worker.taken : t # u => t.rows \cap u.rows = {}
          /\ \A f, g \in files : f # g => f.rows \cap g.rows = {}
          /\ InSlots \cap InHand = {}
          /\ (InSlots \cup InHand) \cap (Stored \cup lost) = {}
      BY <1>0 DEF TakingInv, ApartInv
    <2>1. \A m, l \in DOMAIN slots' : m # l => slots'[m].rows \cap slots'[l].rows = {}
      BY <1>1, <2>0
    <2>2. \A l \in DOMAIN slots' : slots'[l].rows \cap slots[k].rows = {}
      BY <1>1, <2>0
    <2>3. InSlots' \cap slots[k].rows = {}
      BY <2>2 DEF InSlots
    <2>4. InSlots' \cap InHand' = {}
      BY <1>1, <2>0, <2>3
    <2>5. \A t \in worker.taken : t.rows \subseteq InHand
      BY DEF InHand, RowsIn
    <2>6. ASSUME NEW t \in worker'.taken, NEW u \in worker'.taken, t # u
          PROVE  t.rows \cap u.rows = {}
      <3>1. \A v \in worker.taken : v.rows \cap slots[k].rows = {}
        BY <1>1, <2>0, <2>5
      <3> QED
        BY <1>1, <2>0, <2>6, <3>1
    <2>7. (InSlots' \cup InHand') \cap (Stored' \cup lost') = {}
      BY <1>1, <1>3, <2>0
    <2> QED
      BY <1>u, <1>3, <2>0, <2>1, <2>4, <2>6, <2>7 DEF ApartInv
  <1> QED
    BY <1>2, <1>5, <1>6, <1>7 DEF TakingInv

\* A slot in hand ends in a file of its own, or is given up, or both.
LEMMA FlushMoves ==
    ASSUME TakingInv, FlushOne
    PROVE  \E t \in worker.taken :
            /\ worker' = [worker EXCEPT !.taken = @ \ {t}]
            /\ worker'.taken = worker.taken \ {t}
            /\ t.key \in BufferKeys /\ t.rows \subseteq AllRows
            /\ InHand = InHand' \cup t.rows /\ InHand' \cap t.rows = {}
            /\ \/ /\ \E first \in t.rows :
                        files' = files \cup {[signal |-> t.key.signal, ws |-> t.key.ws, stream |-> t.key.stream,
                                              hour |-> DatePath(first.ts), rows |-> t.rows, attempt |-> 0]}
                  /\ Stored' = Stored \cup t.rows
                  /\ lost' \in {lost, lost \cup t.rows} /\ faults' \in 0..MaxFaults
               \/ files' = files /\ Stored' = Stored /\ lost' = lost \cup t.rows /\ faults' \in 0..MaxFaults
  <1>0. buffered = TRUE
    BY WorkBuffered DEF Work
  <1>1. PICK t \in worker.taken :
        /\ \/ /\ WriteFile(t.key.signal, t.key, t.rows, 0)
              /\ UNCHANGED <<lost, faults>>
           \/ /\ faults < MaxFaults /\ faults' = faults + 1
              /\ UNCHANGED files \/ WriteFile(t.key.signal, t.key, t.rows, 0)
              /\ lost' = lost \cup t.rows
        /\ worker' = [worker EXCEPT !.taken = @ \ {t}]
    BY DEF FlushOne, FailedWrite
  <1>2. worker'.taken = worker.taken \ {t} /\ t.key \in BufferKeys /\ t.rows \subseteq AllRows
    BY <1>1, WorkerType DEF TakingInv
  <1>3. InHand = InHand' \cup t.rows
    BY <1>2 DEF InHand, RowsIn
  <1>4. \A u \in worker.taken : u # t => u.rows \cap t.rows = {}
    BY <1>0 DEF TakingInv, ApartInv
  <1>5. InHand' \cap t.rows = {}
    BY <1>2, <1>4 DEF InHand, RowsIn
  <1>f. faults' \in 0..MaxFaults
    BY <1>1, BufferAssumption DEF TakingInv, TypeOK
  <1>6. CASE WriteFile(t.key.signal, t.key, t.rows, 0)
    <2>1. PICK first \in t.rows :
            files' = files \cup {[signal |-> t.key.signal, ws |-> t.key.ws, stream |-> t.key.stream,
                                  hour |-> DatePath(first.ts), rows |-> t.rows, attempt |-> 0]}
      BY <1>6 DEF WriteFile
    <2> DEFINE x == [signal |-> t.key.signal, ws |-> t.key.ws, stream |-> t.key.stream,
                     hour |-> DatePath(first.ts), rows |-> t.rows, attempt |-> 0]
    <2>3. x.rows = t.rows /\ files' = files \cup {x}
      BY <2>1
    <2> HIDE DEF x
    <2>4. RowsIn(files \cup {x}) = RowsIn(files) \cup x.rows
      BY RowsAdd
    <2>2. Stored' = Stored \cup t.rows
      BY <2>3, <2>4 DEF Stored
    <2>5. lost' \in {lost, lost \cup t.rows}
      BY <1>1
    <2> QED
      BY <1>1, <1>2, <1>3, <1>5, <1>f, <2>1, <2>2, <2>5
  <1>7. CASE lost' = lost \cup t.rows /\ UNCHANGED files
    <2>2. Stored' = Stored
      BY <1>7 DEF Stored
    <2> QED
      BY <1>1, <1>2, <1>3, <1>5, <1>f, <1>7, <2>2
  <1> QED
    BY <1>1, <1>6, <1>7

\* The fields of a key, and so of the file written under it.
LEMMA KeyFields ==
    /\ \A r \in AllRows : PartitionKey(r) \in PartitionKeys
    /\ \A k \in PartitionKeys :
        k.ws \in {r.ws : r \in AllRows} /\ k.stream \in {StreamOf(r) : r \in AllRows}
    /\ \A k \in PartitionKeys : \A signal \in DOMAIN RowBytes : BufferKey(k, signal) \in BufferKeys
    /\ \A k \in BufferKeys :
        /\ k.signal \in DOMAIN RowBytes
        /\ k.ws \in {r.ws : r \in AllRows} /\ k.stream \in {StreamOf(r) : r \in AllRows}
  <1>1. \A r \in AllRows : PartitionKey(r) \in PartitionKeys
    BY DEF PartitionKeys
  <1>2. \A k \in PartitionKeys :
        k.ws \in {r.ws : r \in AllRows} /\ k.stream \in {StreamOf(r) : r \in AllRows}
    BY DEF PartitionKeys, PartitionKey
  <1>3. \A k \in PartitionKeys : \A signal \in DOMAIN RowBytes : BufferKey(k, signal) \in BufferKeys
    BY DEF BufferKeys
  <1>4. ASSUME NEW k \in BufferKeys
        PROVE  /\ k.signal \in DOMAIN RowBytes
               /\ k.ws \in {r.ws : r \in AllRows} /\ k.stream \in {StreamOf(r) : r \in AllRows}
    <2>1. PICK p \in PartitionKeys, signal \in DOMAIN RowBytes : k = BufferKey(p, signal)
      BY DEF BufferKeys
    <2> QED
      BY <1>2, <2>1 DEF BufferKey
  <1> QED
    BY <1>1, <1>2, <1>3, <1>4

LEMMA FileType ==
    ASSUME NEW signal \in DOMAIN RowBytes, NEW key, NEW rows \in SUBSET AllRows, NEW first \in rows,
           NEW attempt \in 0..MaxFaults,
           key.ws \in {r.ws : r \in AllRows}, key.stream \in {StreamOf(r) : r \in AllRows}
    PROVE  [signal |-> signal, ws |-> key.ws, stream |-> key.stream,
            hour |-> DatePath(first.ts), rows |-> rows, attempt |-> attempt]
             \in [signal : DOMAIN RowBytes, ws : {r.ws : r \in AllRows},
                  stream : {StreamOf(r) : r \in AllRows}, hour : {DatePath(r.ts) : r \in AllRows},
                  rows : SUBSET AllRows, attempt : 0..MaxFaults]
  <1>1. DatePath(first.ts) \in {DatePath(r.ts) : r \in AllRows}
    OBVIOUS
  <1> QED
    BY <1>1

LEMMA TakingFlush ==
    ASSUME TakingInv, FlushOne
    PROVE  TakingInv'
  <1>0. buffered = TRUE /\ alive
    BY WorkBuffered DEF Work
  <1>u. UNCHANGED <<buffered, slots, permit, inserts, timer, cancelled, done, alive>>
    BY DEF FlushOne
  <1>1. PICK t \in worker.taken :
            /\ worker' = [worker EXCEPT !.taken = @ \ {t}]
            /\ worker'.taken = worker.taken \ {t}
            /\ t.key \in BufferKeys /\ t.rows \subseteq AllRows
            /\ InHand = InHand' \cup t.rows /\ InHand' \cap t.rows = {}
            /\ \/ /\ \E first \in t.rows :
                        files' = files \cup {[signal |-> t.key.signal, ws |-> t.key.ws, stream |-> t.key.stream,
                                              hour |-> DatePath(first.ts), rows |-> t.rows, attempt |-> 0]}
                  /\ Stored' = Stored \cup t.rows
                  /\ lost' \in {lost, lost \cup t.rows} /\ faults' \in 0..MaxFaults
               \/ files' = files /\ Stored' = Stored /\ lost' = lost \cup t.rows /\ faults' \in 0..MaxFaults
    BY FlushMoves
  <1>2. InSlots' = InSlots
    BY <1>u DEF InSlots
  <1>3. Accepted' = Accepted
    BY <1>1, <1>2 DEF Accepted
  <1>4. InsertsInv' /\ AheadInv' /\ TakenWhenReturned'
    BY <1>u, <1>3, InsertsFrame
  <1>5. worker' \in [pc : {"wait", "drain", "write", "stopped"}, keys : SUBSET BufferKeys,
                     taken : SUBSET [key : BufferKeys, rows : SUBSET AllRows], last : BOOLEAN]
    BY <1>1 DEF TakingInv, TypeOK
  <1>6. worker'.pc = "write" /\ worker' # Waiting
    BY <1>1, WorkerType DEF FlushOne, TakingInv, Waiting
  <1>7. WorkerInv' /\ DirectInv'
    BY <1>0, <1>u, <1>6 DEF WorkerInv, DirectInv
  <1>8. /\ t.rows \subseteq InHand
        /\ InSlots' \cap InHand' = {}
        /\ (InSlots' \cup InHand') \cap (Stored' \cup lost') = {}
    BY <1>1, <1>2 DEF TakingInv, ApartInv
  <1>9. /\ \A k, l \in DOMAIN slots' : k # l => slots'[k].rows \cap slots'[l].rows = {}
        /\ \A x, u \in worker'.taken : x # u => x.rows \cap u.rows = {}
    BY <1>0, <1>u, <1>1 DEF TakingInv, ApartInv
  <1>10. CASE /\ \E first \in t.rows :
                    files' = files \cup {[signal |-> t.key.signal, ws |-> t.key.ws, stream |-> t.key.stream,
                                          hour |-> DatePath(first.ts), rows |-> t.rows, attempt |-> 0]}
              /\ Stored' = Stored \cup t.rows
              /\ lost' \in {lost, lost \cup t.rows} /\ faults' \in 0..MaxFaults
    <2>1. PICK first \in t.rows :
                    files' = files \cup {[signal |-> t.key.signal, ws |-> t.key.ws, stream |-> t.key.stream,
                                          hour |-> DatePath(first.ts), rows |-> t.rows, attempt |-> 0]}
      BY <1>10
    <2> DEFINE x == [signal |-> t.key.signal, ws |-> t.key.ws, stream |-> t.key.stream,
                     hour |-> DatePath(first.ts), rows |-> t.rows, attempt |-> 0]
    <2>2. x \in [signal : DOMAIN RowBytes, ws : {r.ws : r \in AllRows},
                  stream : {StreamOf(r) : r \in AllRows}, hour : {DatePath(r.ts) : r \in AllRows},
                  rows : SUBSET AllRows, attempt : 0..MaxFaults]
      <3>1. t.key.signal \in DOMAIN RowBytes /\ 0 \in 0..MaxFaults
        BY <1>1, KeyFields, BufferAssumption
      <3>2. t.key.ws \in {r.ws : r \in AllRows} /\ t.key.stream \in {StreamOf(r) : r \in AllRows}
        BY <1>1, KeyFields
      <3> HIDE DEF x
      <3> QED
        BY <1>1, <2>1, <3>1, <3>2, FileType DEF x
    <2>3. x.rows = t.rows /\ files' = files \cup {x}
      BY <2>1
    <2> HIDE DEF x
    <2>4. TypeOK'
      BY <1>u, <1>1, <1>5, <1>10, <2>2, <2>3 DEF TakingInv, TypeOK
    <2>5. \A f \in files : f.rows \subseteq Stored
      BY DEF Stored, RowsIn
    <2>6. \A f \in files : f.rows \cap x.rows = {}
      BY <1>8, <2>3, <2>5 DEF TakingInv, ApartInv
    <2>7. \A f, g \in files' : f # g => f.rows \cap g.rows = {}
      BY <1>0, <2>3, <2>6 DEF TakingInv, ApartInv
    <2> QED
      BY <1>4, <1>7, <1>8, <1>9, <2>4, <2>7 DEF TakingInv, ApartInv
  <1>11. CASE files' = files /\ Stored' = Stored /\ lost' = lost \cup t.rows /\ faults' \in 0..MaxFaults
    <2>1. TypeOK'
      BY <1>u, <1>1, <1>5, <1>11 DEF TakingInv, TypeOK
    <2>2. \A f, g \in files' : f # g => f.rows \cap g.rows = {}
      BY <1>0, <1>11 DEF TakingInv, ApartInv
    <2> QED
      BY <1>4, <1>7, <1>8, <1>9, <2>1, <2>2 DEF TakingInv, ApartInv
  <1> QED
    BY <1>1, <1>10, <1>11

LEMMA TakingWork ==
    ASSUME TakingInv, Work \/ Cancelled
    PROVE  TakingInv'
  <1>0. buffered = TRUE /\ alive
    BY WorkBuffered
  <1>t. /\ TypeOK /\ WorkerInv
        /\ permit \in BOOLEAN /\ timer \in 0..Interval
        /\ DOMAIN slots \subseteq BufferKeys
    BY DEF TakingInv, TypeOK
  <1>k. {k \in DOMAIN slots : Eligible(k)} \subseteq DOMAIN slots
    OBVIOUS
  <1>1. CASE TimerTick
    <2>1. worker' = [pc |-> "drain", keys |-> {k \in DOMAIN slots : Eligible(k)}, taken |-> {}, last |-> FALSE]
      BY <1>1 DEF TimerTick, Start
    <2>2. UNCHANGED <<buffered, slots, inserts, cancelled, files, done, lost, alive, faults>>
      BY <1>1 DEF TimerTick
    <2>3. worker.taken = {} /\ timer' \in 0..Interval /\ permit' \in BOOLEAN
      BY <1>1, <1>t, BufferAssumption DEF TimerTick, WorkerInv
    <2> QED
      BY <1>0, <1>t, <1>k, <2>1, <2>2, <2>3, TakingSelect
  <1>2. CASE Notified
    <2>1. worker' = [pc |-> "drain", keys |-> {k \in DOMAIN slots : Eligible(k)}, taken |-> {}, last |-> FALSE]
      BY <1>2 DEF Notified, Start
    <2>2. UNCHANGED <<buffered, slots, inserts, cancelled, files, done, lost, alive, faults>>
      BY <1>2 DEF Notified
    <2>3. worker.taken = {} /\ timer' \in 0..Interval /\ permit' \in BOOLEAN
      BY <1>2, <1>t DEF Notified, WorkerInv
    <2> QED
      BY <1>0, <1>t, <1>k, <2>1, <2>2, <2>3, TakingSelect
  <1>3. CASE Cancelled
    <2>1. worker' = [pc |-> "drain", keys |-> DOMAIN slots, taken |-> {}, last |-> TRUE]
      BY <1>3 DEF Cancelled, Start
    <2>2. UNCHANGED <<buffered, slots, inserts, cancelled, files, done, lost, alive, faults>>
      BY <1>3 DEF Cancelled
    <2>3. worker.taken = {} /\ timer' \in 0..Interval /\ permit' \in BOOLEAN
      BY <1>3, <1>t DEF Cancelled, WorkerInv
    <2> QED
      BY <1>0, <1>t, <2>1, <2>2, <2>3, TakingSelect
  <1>4. CASE \E k \in worker.keys : DrainKey(k)
    BY <1>4, TakingDrain
  <1>5. CASE DrainDone
    <2>1. worker' = [pc |-> "write", keys |-> worker.keys, taken |-> worker.taken, last |-> worker.last]
      BY <1>5, <1>t, WorkerType DEF DrainDone
    <2>2. UNCHANGED <<buffered, slots, inserts, cancelled, files, done, lost, alive, faults, timer, permit>>
      BY <1>5 DEF DrainDone
    <2> QED
      BY <1>0, <1>t, <2>1, <2>2, WorkerType, TakingSelect
  <1>6. CASE FlushOne
    BY <1>6, TakingFlush
  <1>7. CASE FlushDone
    <2>1. /\ worker' = [pc |-> IF worker.last THEN "stopped" ELSE "wait", keys |-> {}, taken |-> {}, last |-> FALSE]
          /\ worker.taken = {}
      BY <1>7 DEF FlushDone, Waiting
    <2>2. UNCHANGED <<buffered, slots, inserts, cancelled, files, done, lost, alive, faults, timer, permit>>
      BY <1>7 DEF FlushDone
    <2> QED
      BY <1>0, <1>t, <2>1, <2>2, TakingSelect
  <1> QED
    BY <1>1, <1>2, <1>3, <1>4, <1>5, <1>6, <1>7 DEF Work

\* Time passes: slots keep their rows.
LEMMA TickMoves ==
    ASSUME TypeOK, Tick
    PROVE  /\ DOMAIN slots' = DOMAIN slots
           /\ \A k \in DOMAIN slots : slots'[k].rows = slots[k].rows
           /\ slots' \in [DOMAIN slots -> [rows : SUBSET AllRows, size : Nat, age : 0..Interval]]
           /\ timer' \in 0..Interval
           /\ InSlots' = InSlots
  <1>1. slots' = [k \in DOMAIN slots |-> [slots[k] EXCEPT !.age = IF @ < Interval THEN @ + 1 ELSE @]]
    BY DEF Tick
  <1>2. \A k \in DOMAIN slots :
          slots'[k] = [rows |-> slots[k].rows, size |-> slots[k].size,
                       age |-> IF slots[k].age < Interval THEN slots[k].age + 1 ELSE slots[k].age]
    BY <1>1, WorkerType
  <1>3. ASSUME NEW k \in DOMAIN slots
        PROVE  /\ slots'[k] \in [rows : SUBSET AllRows, size : Nat, age : 0..Interval]
               /\ slots'[k].rows = slots[k].rows
    <2> DEFINE a == IF slots[k].age < Interval THEN slots[k].age + 1 ELSE slots[k].age
    <2>1. slots[k].rows \subseteq AllRows /\ slots[k].size \in Nat /\ slots[k].age \in 0..Interval
      BY WorkerType
    <2>2. a \in 0..Interval
      BY <2>1, BufferAssumption
    <2>3. slots'[k] = [rows |-> slots[k].rows, size |-> slots[k].size, age |-> a]
      BY <1>2
    <2> HIDE DEF a
    <2> QED
      BY <2>1, <2>2, <2>3
  <1>4. timer' \in 0..Interval
    BY BufferAssumption DEF Tick, TypeOK
  <1>5. DOMAIN slots' = DOMAIN slots
    BY <1>1
  <1>6. slots' \in [DOMAIN slots -> [rows : SUBSET AllRows, size : Nat, age : 0..Interval]]
    BY <1>1, <1>3
  <1>7. \A k \in DOMAIN slots : slots'[k].rows = slots[k].rows
    BY <1>3
  <1>8. InSlots' = InSlots
    BY <1>5, <1>7 DEF InSlots
  <1> QED
    BY <1>4, <1>5, <1>6, <1>7, <1>8

LEMMA TakingTick ==
    ASSUME TakingInv, Tick
    PROVE  TakingInv'
  <1>u. /\ UNCHANGED <<buffered, permit, inserts, worker, cancelled, files, done, lost, alive, faults>>
        /\ buffered /\ alive
    BY DEF Tick
  <1>t. TypeOK
    BY DEF TakingInv
  <1>1. /\ DOMAIN slots' = DOMAIN slots
        /\ \A k \in DOMAIN slots : slots'[k].rows = slots[k].rows
        /\ slots' \in [DOMAIN slots -> [rows : SUBSET AllRows, size : Nat, age : 0..Interval]]
        /\ timer' \in 0..Interval
        /\ InSlots' = InSlots
    BY <1>t, TickMoves
  <1>2. TypeOK'
    BY <1>u, <1>1, <1>t DEF TypeOK
  <1>3. InHand' = InHand /\ Stored' = Stored
    BY <1>u DEF InHand, Stored
  <1>4. Accepted' = Accepted
    BY <1>u, <1>1, <1>3 DEF Accepted
  <1>5. InsertsInv' /\ AheadInv' /\ TakenWhenReturned'
    BY <1>u, <1>4, InsertsFrame
  <1>6. WorkerInv' /\ DirectInv'
    BY <1>u, <1>1 DEF TakingInv, WorkerInv, DirectInv
  <1>7. ApartInv'
    BY <1>u, <1>1, <1>3 DEF TakingInv, ApartInv
  <1> QED
    BY <1>2, <1>5, <1>6, <1>7 DEF TakingInv

LEMMA TakingCancel ==
    ASSUME TakingInv, Cancel
    PROVE  TakingInv'
  <1>u. /\ UNCHANGED <<buffered, slots, permit, inserts, worker, timer, files, done, lost, alive, faults>>
        /\ cancelled' = TRUE
    BY DEF Cancel
  <1>1. TypeOK'
    BY <1>u DEF TakingInv, TypeOK
  <1>2. InSlots' = InSlots /\ InHand' = InHand /\ Stored' = Stored
    BY <1>u DEF InSlots, InHand, Stored
  <1>3. Accepted' = Accepted
    BY <1>u, <1>2 DEF Accepted
  <1>4. InsertsInv' /\ AheadInv' /\ TakenWhenReturned'
    BY <1>u, <1>3, InsertsFrame
  <1>5. WorkerInv'
    BY <1>u DEF TakingInv, WorkerInv
  <1>6. ApartInv'
    BY <1>u, <1>2 DEF TakingInv, ApartInv
  <1>7. DirectInv'
    BY <1>u DEF TakingInv, DirectInv, Cancel, TypeOK
  <1> QED
    BY <1>1, <1>4, <1>5, <1>6, <1>7 DEF TakingInv

LEMMA TakingEnds ==
    ASSUME TakingInv, ProcessEnds
    PROVE  /\ TakingInv' /\ Accepted' = Accepted /\ Stored' = Stored
           /\ lost' = lost \cup (Accepted \ Stored)
  <1>u. /\ UNCHANGED <<buffered, permit, timer, cancelled, files, done, faults>>
        /\ alive /\ alive' = FALSE /\ lost' = lost \cup InSlots \cup InHand
        /\ slots' = Empty /\ worker' = Waiting /\ inserts' = {}
    BY DEF ProcessEnds
  <1>1. DOMAIN slots' = {} /\ worker'.taken = {}
    BY <1>u DEF Empty, Waiting
  <1>2. InSlots' = {} /\ InHand' = {} /\ Stored' = Stored
    BY <1>u, <1>1 DEF InSlots, InHand, Stored, RowsIn
  <1>3. Accepted' = Accepted
    BY <1>u, <1>2 DEF Accepted
  <1>4. InSlots \subseteq AllRows /\ InHand \subseteq AllRows
    BY WorkerType DEF TakingInv, InSlots, InHand, RowsIn
  <1>5. TypeOK'
    <2>1. slots' \in [DOMAIN slots' -> [rows : SUBSET AllRows, size : Nat, age : 0..Interval]]
      BY <1>u, <1>1 DEF Empty
    <2>2. worker' \in [pc : {"wait", "drain", "write", "stopped"}, keys : SUBSET BufferKeys,
                       taken : SUBSET [key : BufferKeys, rows : SUBSET AllRows], last : BOOLEAN]
      BY <1>u DEF Waiting
    <2> QED
      BY <1>u, <1>1, <1>4, <2>1, <2>2 DEF TakingInv, TypeOK
  <1>6. InsertsInv' /\ WorkerInv' /\ TakenWhenReturned'
    BY <1>u, <1>3 DEF TakingInv, InsertsInv, WorkerInv, TakenWhenReturned, Waiting
  <1>7. AheadInv'
    BY <1>u DEF TakingInv, AheadInv
  <1>8. ApartInv' /\ lost' = lost \cup (Accepted \ Stored)
    BY <1>u, <1>1, <1>2 DEF TakingInv, ApartInv, Accepted
  <1>9. DirectInv'
    <2>1. ~buffered => lost' = {}
      <3>1. ~buffered => lost = {} /\ DOMAIN slots = {} /\ worker.taken = {}
        BY DEF TakingInv, DirectInv, Empty, Waiting
      <3>2. ~buffered => InSlots = {} /\ InHand = {}
        BY <3>1 DEF InSlots, InHand, RowsIn
      <3> QED
        BY <1>u, <3>1, <3>2
    <2> QED
      BY <1>u, <2>1 DEF TakingInv, DirectInv
  <1> QED
    BY <1>2, <1>3, <1>5, <1>6, <1>7, <1>8, <1>9 DEF TakingInv
-----------------------------------------------------------------------------
(* Inserts *)

LEMMA RowsMonotone ==
    ASSUME NEW A, NEW B, A \subseteq B
    PROVE  RowsIn(A) \subseteq RowsIn(B)
  BY DEF RowsIn

\* An insert under way, the batch it is of and the rows it still has.
LEMMA InsertFacts ==
    ASSUME TakingInv, NEW i \in inserts
    PROVE  /\ alive
           /\ i.batch \in BatchIds /\ i.attempt \in 0..MaxFaults /\ i.signal \in DOMAIN RowBytes
           /\ i.rows \in {b.rows : b \in Batches}
           /\ i.groups \subseteq [key : PartitionKeys, rows : SUBSET AllRows]
           /\ i = [batch |-> i.batch, attempt |-> i.attempt, signal |-> i.signal, rows |-> i.rows, groups |-> i.groups]
           /\ \E b \in Batches :
                /\ i.batch = b.id /\ i.groups \subseteq Partition(b.rows)
                /\ RowsOf(b) \subseteq Pending(i) \cup Accepted
                /\ Pending(i) \subseteq RowsOf(b)
  <1>1. alive
    BY DEF TakingInv, WorkerInv
  <1>2. i \in [batch : BatchIds, attempt : 0..MaxFaults, signal : DOMAIN RowBytes,
               rows : {b.rows : b \in Batches},
               groups : SUBSET [key : PartitionKeys, rows : SUBSET AllRows]]
    BY DEF TakingInv, TypeOK
  <1>3. /\ i.batch \in BatchIds /\ i.attempt \in 0..MaxFaults /\ i.signal \in DOMAIN RowBytes
        /\ i.rows \in {b.rows : b \in Batches}
        /\ i.groups \subseteq [key : PartitionKeys, rows : SUBSET AllRows]
        /\ i = [batch |-> i.batch, attempt |-> i.attempt, signal |-> i.signal, rows |-> i.rows, groups |-> i.groups]
    BY <1>2
  <1>4. PICK b \in Batches :
          /\ i.batch = b.id /\ i.groups \subseteq Partition(b.rows)
          /\ RowsOf(b) \subseteq Pending(i) \cup Accepted
    BY DEF TakingInv, InsertsInv
  <1>5. Pending(i) \subseteq RowsOf(b)
    BY <1>4, RowsMonotone, PartitionCovers DEF Pending
  <1> QED
    BY <1>1, <1>3, <1>4, <1>5

\* One group fewer: its rows, and no others, have gone.
LEMMA GroupFacts ==
    ASSUME TakingInv, NEW i \in inserts, NEW g \in i.groups, NextGroup(i, g)
    PROVE  /\ g.rows \subseteq Pending(i)
           /\ g.key \in PartitionKeys /\ g.rows \in SUBSET AllRows
           /\ done' = done
           /\ \E j :
                /\ inserts' = (inserts \ {i}) \cup {j}
                /\ j = [batch |-> i.batch, attempt |-> i.attempt, signal |-> i.signal, rows |-> i.rows,
                        groups |-> i.groups \ {g}]
                /\ Pending(j) = Pending(i) \ g.rows
  <1> DEFINE j == [i EXCEPT !.groups = @ \ {g}]
  <1>1. j = [batch |-> i.batch, attempt |-> i.attempt, signal |-> i.signal, rows |-> i.rows,
             groups |-> i.groups \ {g}]
    <2> DEFINE R == {b.rows : b \in Batches}
               G == SUBSET [key : PartitionKeys, rows : SUBSET AllRows]
               A == 0..MaxFaults
               S == DOMAIN RowBytes
               h == i.groups \ {g}
    <2>1. i \in [batch : BatchIds, attempt : A, signal : S, rows : R, groups : G]
      BY DEF TakingInv, TypeOK
    <2> HIDE DEF R, G, A, S, h
    <2>2. [i EXCEPT !.groups = h] =
          [batch |-> i.batch, attempt |-> i.attempt, signal |-> i.signal, rows |-> i.rows, groups |-> h]
      BY <2>1
    <2> QED
      BY <2>2 DEF h
  <1>2. inserts' = (inserts \ {i}) \cup {j} /\ done' = done
    BY DEF NextGroup
  <1>3. PICK b \in Batches : i.groups \subseteq Partition(b.rows)
    BY InsertFacts
  <1>4. \A h \in i.groups : h # g => h.rows \cap g.rows = {}
    BY <1>3, PartitionCovers
  <1>5. RowsIn(i.groups \ {g}) = RowsIn(i.groups) \ g.rows
    BY <1>4, RowsRemove
  <1>6. j.groups = i.groups \ {g}
    BY <1>1
  <1> HIDE DEF j
  <1>7. Pending(j) = Pending(i) \ g.rows
    BY <1>5, <1>6 DEF Pending
  <1>8. g.rows \subseteq Pending(i)
    BY DEF Pending, RowsIn
  <1>9. g.key \in PartitionKeys /\ g.rows \in SUBSET AllRows
    BY InsertFacts
  <1> QED
    BY <1>1, <1>2, <1>7, <1>8, <1>9

\* An insert whose group has been taken goes on.
LEMMA GroupFrame ==
    ASSUME TakingInv, NEW i \in inserts, NEW g \in i.groups, NextGroup(i, g),
           UNCHANGED <<buffered, alive>>, Accepted' = Accepted \cup g.rows
    PROVE  /\ InsertsInv' /\ AheadInv' /\ TakenWhenReturned'
           /\ inserts' \subseteq [batch : BatchIds, attempt : 0..MaxFaults, signal : DOMAIN RowBytes,
                                   rows : {b.rows : b \in Batches},
                                   groups : SUBSET [key : PartitionKeys, rows : SUBSET AllRows]]
  <1>1. g.rows \subseteq Pending(i) /\ done' = done
    BY GroupFacts
  <1>2. PICK j :
          /\ inserts' = (inserts \ {i}) \cup {j}
          /\ j = [batch |-> i.batch, attempt |-> i.attempt, signal |-> i.signal, rows |-> i.rows,
                  groups |-> i.groups \ {g}]
          /\ Pending(j) = Pending(i) \ g.rows
    BY GroupFacts
  <1>3. PICK b \in Batches :
          /\ i.batch = b.id /\ i.groups \subseteq Partition(b.rows)
          /\ RowsOf(b) \subseteq Pending(i) \cup Accepted
          /\ Pending(i) \subseteq RowsOf(b)
    BY InsertFacts
  <1>4. j.batch = b.id /\ j.attempt = i.attempt /\ j.groups \subseteq Partition(b.rows)
    BY <1>2, <1>3
  <1>p. \A x : Pending(x)' = Pending(x)
    BY DEF Pending
  <1>5. j \in [batch : BatchIds, attempt : 0..MaxFaults, signal : DOMAIN RowBytes,
               rows : {c.rows : c \in Batches},
               groups : SUBSET [key : PartitionKeys, rows : SUBSET AllRows]]
    BY <1>2, InsertFacts
  <1>6. inserts' \subseteq [batch : BatchIds, attempt : 0..MaxFaults, signal : DOMAIN RowBytes,
                            rows : {c.rows : c \in Batches},
                            groups : SUBSET [key : PartitionKeys, rows : SUBSET AllRows]]
    BY <1>2, <1>5 DEF TakingInv, TypeOK
  <1>7. \A x \in inserts : x # i => x.batch # b.id
    BY <1>3 DEF TakingInv, InsertsInv
  <1>8. InsertsInv'
    <2>1. \A x, y \in inserts' : x.batch = y.batch => x = y
      BY <1>2, <1>4, <1>7 DEF TakingInv, InsertsInv
    <2>2. ASSUME NEW x \in inserts'
          PROVE  \E c \in Batches :
                    /\ x.batch = c.id
                    /\ x.groups \subseteq Partition(c.rows)
                    /\ RowsOf(c) \subseteq Pending(x)' \cup Accepted'
      <3>1. CASE x = j
        <4>1. RowsOf(b) \subseteq Pending(j) \cup Accepted'
          BY <1>1, <1>2, <1>3
        <4> QED
          BY <1>4, <1>p, <3>1, <4>1
      <3>2. CASE x \in inserts
        <4>1. PICK c \in Batches :
                /\ x.batch = c.id
                /\ x.groups \subseteq Partition(c.rows)
                /\ RowsOf(c) \subseteq Pending(x) \cup Accepted
          BY <3>2 DEF TakingInv, InsertsInv
        <4>2. RowsOf(c) \subseteq Pending(x)' \cup Accepted'
          BY <1>p, <4>1
        <4> QED
          BY <4>1, <4>2
      <3> QED
        BY <1>2, <3>1, <3>2
    <2>3. \A x \in inserts' : \A d \in done' : d.batch = x.batch => ~d.ok /\ d.attempt < x.attempt
      BY <1>1, <1>2, <1>3, <1>4 DEF TakingInv, InsertsInv
    <2> QED
      BY <2>1, <2>2, <2>3 DEF InsertsInv
  <1>9. AheadInv'
    <2>0. SUFFICES ASSUME buffered
                   PROVE  /\ \A d \in done' : d.ok
                          /\ \A x \in inserts' : Pending(x)' \cap Accepted' = {}
                          /\ alive' => \A c \in Batches : RowsOf(c) \cap Accepted' # {} =>
                                            \E x \in inserts' \cup done' : x.batch = c.id
      BY DEF AheadInv
    <2>1. /\ \A d \in done : d.ok
          /\ \A x \in inserts : Pending(x) \cap Accepted = {}
          /\ alive => \A c \in Batches : RowsOf(c) \cap Accepted # {} =>
                            \E x \in inserts \cup done : x.batch = c.id
      BY <2>0 DEF TakingInv, AheadInv
    <2>2. ASSUME NEW x \in inserts'
          PROVE  Pending(x)' \cap Accepted' = {}
      <3>1. CASE x = j
        BY <1>2, <1>p, <2>1, <3>1
      <3>2. CASE x \in inserts \ {i}
        <4>1. PICK c \in Batches : x.batch = c.id /\ Pending(x) \subseteq RowsOf(c)
          BY <3>2, InsertFacts
        <4>2. RowsOf(c) \cap RowsOf(b) = {}
          BY <1>7, <3>2, <4>1, BufferAssumption
        <4>3. Pending(x) \cap g.rows = {}
          BY <1>1, <1>3, <4>1, <4>2
        <4> QED
          BY <1>p, <2>1, <3>2, <4>3
      <3> QED
        BY <1>2, <3>1, <3>2
    <2>3. ASSUME alive', NEW c \in Batches, RowsOf(c) \cap Accepted' # {}
          PROVE  \E x \in inserts' \cup done' : x.batch = c.id
      <3>1. CASE RowsOf(c) \cap Accepted # {}
        <4>1. PICK x \in inserts \cup done : x.batch = c.id
          BY <2>1, <2>3, <3>1
        <4>2. CASE x = i
          BY <1>2, <1>3, <1>4, <4>1, <4>2
        <4>3. CASE x # i
          BY <1>1, <1>2, <4>1, <4>3
        <4> QED
          BY <4>2, <4>3
      <3>2. CASE RowsOf(c) \cap g.rows # {}
        <4>1. RowsOf(c) \cap RowsOf(b) # {}
          BY <1>1, <1>3, <3>2
        <4>2. c = b
          BY <4>1, BufferAssumption
        <4> QED
          BY <1>2, <1>4, <4>2
      <3> QED
        BY <2>3, <3>1, <3>2
    <2>4. \A d \in done' : d.ok
      BY <1>1, <2>1
    <2> QED
      BY <2>2, <2>3, <2>4
  <1>10. TakenWhenReturned'
    BY <1>1 DEF TakingInv, TakenWhenReturned
  <1> QED
    BY <1>6, <1>8, <1>9, <1>10

\* A batch is taken up: all its rows are still to come.
LEMMA TakingInsert ==
    ASSUME TakingInv, NEW b \in Batches, Insert(b)
    PROVE  TakingInv'
  <1>u. /\ UNCHANGED <<buffered, slots, permit, worker, timer, cancelled, files, done, lost, alive, faults>>
        /\ alive
    BY DEF Insert
  <1>g. /\ \A i \in inserts : i.batch # b.id
        /\ \A d \in done : d.batch = b.id => ~d.ok
    BY DEF Insert
  <1>1. PICK n \in 0..MaxFaults :
        /\ IsAttempt(b, n)
        /\ inserts' = inserts \cup {[batch |-> b.id, attempt |-> n, signal |-> b.signal,
                                     rows |-> b.rows, groups |-> Partition(b.rows)]}
    BY DEF Insert
  <1> DEFINE j == [batch |-> b.id, attempt |-> n, signal |-> b.signal, rows |-> b.rows, groups |-> Partition(b.rows)]
  <1>2. /\ inserts' = inserts \cup {j}
        /\ j.batch = b.id /\ j.attempt = n /\ j.groups = Partition(b.rows)
    BY <1>1
  <1>3. j \in [batch : BatchIds, attempt : 0..MaxFaults, signal : DOMAIN RowBytes,
               rows : {c.rows : c \in Batches},
               groups : SUBSET [key : PartitionKeys, rows : SUBSET AllRows]]
    <2>1. Partition(b.rows) \subseteq [key : PartitionKeys, rows : SUBSET RowsOf(b)]
      BY PartitionCovers
    <2>2. RowsOf(b) \subseteq AllRows
      BY DEF AllRows
    <2>3. Partition(b.rows) \in SUBSET [key : PartitionKeys, rows : SUBSET AllRows]
      BY <2>1, <2>2
    <2>4. b.signal \in DOMAIN RowBytes /\ b.id \in BatchIds /\ b.rows \in {c.rows : c \in Batches}
      BY BufferAssumption DEF BatchIds
    <2> QED
      BY <1>1, <2>3, <2>4
  <1> HIDE DEF j
  <1>4. TypeOK'
    BY <1>u, <1>2, <1>3 DEF TakingInv, TypeOK
  <1>5. InSlots' = InSlots /\ InHand' = InHand /\ Stored' = Stored /\ Accepted' = Accepted
    BY <1>u DEF InSlots, InHand, Stored, Accepted
  <1>p. \A x : Pending(x)' = Pending(x)
    BY DEF Pending
  <1>6. Pending(j) = RowsOf(b)
    BY <1>2, PartitionCovers DEF Pending
  <1>7. InsertsInv'
    <2>1. \A x, y \in inserts' : x.batch = y.batch => x = y
      BY <1>g, <1>2 DEF TakingInv, InsertsInv
    <2>2. ASSUME NEW x \in inserts'
          PROVE  \E c \in Batches :
                    /\ x.batch = c.id
                    /\ x.groups \subseteq Partition(c.rows)
                    /\ RowsOf(c) \subseteq Pending(x)' \cup Accepted'
      <3>1. CASE x = j
        BY <1>2, <1>p, <1>6, <3>1
      <3>2. CASE x \in inserts
        BY <1>5, <1>p, <3>2 DEF TakingInv, InsertsInv
      <3> QED
        BY <1>2, <3>1, <3>2
    <2>3. \A d \in done : d.batch = b.id => ~d.ok /\ d.attempt < n
      BY <1>g, <1>1 DEF IsAttempt
    <2>4. \A x \in inserts' : \A d \in done' : d.batch = x.batch => ~d.ok /\ d.attempt < x.attempt
      BY <1>u, <1>2, <2>3 DEF TakingInv, InsertsInv
    <2> QED
      BY <2>1, <2>2, <2>4 DEF InsertsInv
  <1>8. WorkerInv'
    BY <1>u DEF TakingInv, WorkerInv
  <1>9. DirectInv'
    <2>1. \A f : WroteFile(f) => WroteFile(f)'
      BY <1>u, <1>2, <1>p DEF WroteFile
    <2> QED
      BY <1>u, <2>1 DEF TakingInv, DirectInv
  <1>10. AheadInv'
    <2>0. SUFFICES ASSUME buffered
                   PROVE  /\ \A d \in done' : d.ok
                          /\ \A x \in inserts' : Pending(x)' \cap Accepted' = {}
                          /\ alive' => \A c \in Batches : RowsOf(c) \cap Accepted' # {} =>
                                            \E x \in inserts' \cup done' : x.batch = c.id
      BY <1>u DEF AheadInv
    <2>1. /\ \A d \in done : d.ok
          /\ \A x \in inserts : Pending(x) \cap Accepted = {}
          /\ \A c \in Batches : RowsOf(c) \cap Accepted # {} => \E x \in inserts \cup done : x.batch = c.id
      BY <1>u, <2>0 DEF TakingInv, AheadInv
    <2>2. RowsOf(b) \cap Accepted = {}
      BY <1>g, <2>1
    <2> QED
      BY <1>u, <1>2, <1>5, <1>6, <1>p, <2>1, <2>2
  <1>11. ApartInv' /\ TakenWhenReturned'
    BY <1>u, <1>5 DEF TakingInv, ApartInv, TakenWhenReturned
  <1> QED
    BY <1>4, <1>7, <1>8, <1>9, <1>10, <1>11 DEF TakingInv

\* An insert ends: with all its rows taken, or refused where there is no buffer.
LEMMA TakingLeave ==
    ASSUME TakingInv, NEW i \in inserts, NEW ok \in BOOLEAN, Leave(i, ok),
           UNCHANGED <<buffered, slots, permit, worker, timer, cancelled, files, lost, alive>>,
           faults' \in 0..MaxFaults,
           ok => i.groups = {},
           ~ok => ~buffered
    PROVE  TakingInv' /\ Accepted' = Accepted /\ Stored' = Stored
  <1> DEFINE e == [batch |-> i.batch, attempt |-> i.attempt, ok |-> ok]
  <1>1. /\ inserts' = inserts \ {i} /\ done' = done \cup {e}
        /\ e.batch = i.batch /\ e.attempt = i.attempt /\ e.ok = ok
    BY DEF Leave
  <1>2. e \in [batch : BatchIds, attempt : 0..MaxFaults, ok : BOOLEAN]
    BY InsertFacts
  <1> HIDE DEF e
  <1>3. PICK b \in Batches :
          /\ i.batch = b.id /\ i.groups \subseteq Partition(b.rows)
          /\ RowsOf(b) \subseteq Pending(i) \cup Accepted
    BY InsertFacts
  <1>4. TypeOK'
    BY <1>1, <1>2 DEF TakingInv, TypeOK
  <1>5. InSlots' = InSlots /\ InHand' = InHand /\ Stored' = Stored /\ Accepted' = Accepted
    BY DEF InSlots, InHand, Stored, Accepted
  <1>p. \A x : Pending(x)' = Pending(x)
    BY DEF Pending
  <1>6. \A x \in inserts : x # i => x.batch # i.batch
    BY DEF TakingInv, InsertsInv
  <1>7. InsertsInv'
    BY <1>1, <1>5, <1>6, <1>p DEF TakingInv, InsertsInv
  <1>8. WorkerInv'
    BY <1>1 DEF TakingInv, WorkerInv
  <1>9. DirectInv'
    <2>1. ASSUME NEW f, WroteFile(f)
          PROVE  WroteFile(f)'
      <3>1. PICK c \in Batches :
              /\ f.rows \subseteq RowsOf(c)
              /\ \/ \E d \in done : d.batch = c.id /\ d.attempt = f.attempt
                 \/ \E x \in inserts : x.batch = c.id /\ x.attempt = f.attempt /\ Pending(x) \cap f.rows = {}
        BY <2>1 DEF WroteFile
      <3>2. CASE \E d \in done : d.batch = c.id /\ d.attempt = f.attempt
        BY <1>1, <3>1, <3>2 DEF WroteFile
      <3>3. CASE \E x \in inserts : x.batch = c.id /\ x.attempt = f.attempt /\ Pending(x) \cap f.rows = {}
        <4>1. PICK x \in inserts : x.batch = c.id /\ x.attempt = f.attempt /\ Pending(x) \cap f.rows = {}
          BY <3>3
        <4>2. CASE x = i
          <5>1. e \in done' /\ e.batch = c.id /\ e.attempt = f.attempt
            BY <1>1, <4>1, <4>2
          <5> QED
            BY <3>1, <5>1 DEF WroteFile
        <4>3. CASE x # i
          <5>1. x \in inserts' /\ Pending(x)' \cap f.rows = {}
            BY <1>1, <1>p, <4>1, <4>3
          <5> QED
            BY <3>1, <4>1, <5>1 DEF WroteFile
        <4> QED
          BY <4>2, <4>3
      <3> QED
        BY <3>1, <3>2, <3>3
    <2> QED
      BY <2>1 DEF TakingInv, DirectInv
  <1>10. AheadInv'
    <2>0. SUFFICES ASSUME buffered
                   PROVE  /\ \A d \in done' : d.ok
                          /\ \A x \in inserts' : Pending(x)' \cap Accepted' = {}
                          /\ alive' => \A c \in Batches : RowsOf(c) \cap Accepted' # {} =>
                                            \E x \in inserts' \cup done' : x.batch = c.id
      BY DEF AheadInv
    <2>1. /\ \A d \in done : d.ok
          /\ \A x \in inserts : Pending(x) \cap Accepted = {}
          /\ alive => \A c \in Batches : RowsOf(c) \cap Accepted # {} => \E x \in inserts \cup done : x.batch = c.id
      BY <2>0 DEF TakingInv, AheadInv
    <2>2. ASSUME alive', NEW c \in Batches, RowsOf(c) \cap Accepted' # {}
          PROVE  \E x \in inserts' \cup done' : x.batch = c.id
      <3>1. PICK x \in inserts \cup done : x.batch = c.id
        BY <1>5, <2>1, <2>2
      <3> QED
        BY <1>1, <3>1
    <2>3. ok = TRUE
      BY <2>0
    <2> QED
      BY <1>1, <1>5, <1>p, <2>1, <2>2, <2>3
  <1>11. ApartInv'
    BY <1>5 DEF TakingInv, ApartInv
  <1>12. TakenWhenReturned'
    <2>1. ok => Pending(i) = {}
      BY DEF Pending, RowsIn
    <2>2. ok => RowsOf(b) \subseteq Accepted
      BY <1>3, <2>1
    <2>3. \A c \in Batches : c.id = b.id => c = b
      BY BufferAssumption
    <2> QED
      BY <1>1, <1>3, <1>5, <2>2, <2>3 DEF TakingInv, TakenWhenReturned
  <1> QED
    BY <1>4, <1>5, <1>7, <1>8, <1>9, <1>10, <1>11, <1>12 DEF TakingInv

\* A push adds the rows of a group to the slot of its partition.
LEMMA PushMoves ==
    ASSUME TakingInv, NEW i \in inserts, NEW g \in i.groups, NEW key,
           key = BufferKey(g.key, i.signal), Push(key, g.rows)
    PROVE  /\ DOMAIN slots' = DOMAIN slots \cup {key}
           /\ \A k \in DOMAIN slots : k # key => slots'[k] = slots[k]
           /\ key \in DOMAIN slots => slots'[key].rows = slots[key].rows \cup g.rows
           /\ key \notin DOMAIN slots => slots'[key].rows = g.rows
           /\ DOMAIN slots' \subseteq BufferKeys
           /\ slots' \in [DOMAIN slots' -> [rows : SUBSET AllRows, size : Nat, age : 0..Interval]]
           /\ permit' \in BOOLEAN
           /\ InSlots' = InSlots \cup g.rows
  <1>t. TypeOK
    BY DEF TakingInv
  <1>1. PICK b \in Batches : i.groups \subseteq Partition(b.rows)
    BY InsertFacts
  <1>2. g.rows \subseteq RowsOf(b) /\ RowsOf(b) \subseteq AllRows
    BY <1>1, PartitionCovers DEF AllRows
  <1>3. g.key \in PartitionKeys /\ i.signal \in DOMAIN RowBytes
    BY InsertFacts
  <1>4. key \in BufferKeys /\ key.signal = i.signal
    BY <1>3, KeyFields DEF BufferKey
  <1> DEFINE old == SlotAt(key)
             size == old.size + Cardinality(g.rows) * RowBytes[key.signal]
             after == Extended(old, key.signal, g.rows)
  <1>5. /\ old = [rows |-> old.rows, size |-> old.size, age |-> old.age]
        /\ old.rows \subseteq AllRows /\ old.size \in Nat /\ old.age \in 0..Interval
    <2>1. CASE key \in DOMAIN slots
      BY <1>t, <2>1, WorkerType DEF SlotAt
    <2>2. CASE key \notin DOMAIN slots
      BY <2>2, BufferAssumption DEF SlotAt, NewSlot
    <2> QED
      BY <2>1, <2>2
  <1>6. size \in Nat
    <2>1. Cardinality(g.rows) \in Nat
      BY <1>2, GroupSize
    <2>2. RowBytes[key.signal] \in Nat
      BY <1>3, <1>4 DEF RowBytes
    <2> HIDE DEF old
    <2> QED
      BY <1>5, <2>1, <2>2
  <1>7. after = [rows |-> old.rows \cup g.rows, size |-> size, age |-> old.age]
    <2> HIDE DEF old
    <2>1. after = [old EXCEPT !.rows = @ \cup g.rows, !.size = @ + Cardinality(g.rows) * RowBytes[key.signal]]
      BY DEF Extended
    <2> HIDE DEF after
    <2> QED
      BY <1>5, <2>1
  <1>8. /\ slots' = [k \in DOMAIN slots \cup {key} |-> IF k = key THEN after ELSE slots[k]]
        /\ permit' = (permit \/ after.size >= MaxSlotBytes)
    BY DEF Push
  <1>9. key \in DOMAIN slots => old.rows = slots[key].rows
    BY DEF SlotAt
  <1>10. key \notin DOMAIN slots => old.rows = {}
    BY DEF SlotAt, NewSlot
  <1> HIDE DEF old, size, after
  <1>11. after \in [rows : SUBSET AllRows, size : Nat, age : 0..Interval] /\ after.rows = old.rows \cup g.rows
    BY <1>2, <1>5, <1>6, <1>7
  <1>12. permit' \in BOOLEAN
    BY <1>8
  <1>13. /\ DOMAIN slots' = DOMAIN slots \cup {key}
         /\ \A k \in DOMAIN slots : k # key => slots'[k] = slots[k]
         /\ slots'[key] = after
    BY <1>8
  <1>14. /\ DOMAIN slots' \subseteq BufferKeys
         /\ slots' \in [DOMAIN slots' -> [rows : SUBSET AllRows, size : Nat, age : 0..Interval]]
    BY <1>t, <1>4, <1>8, <1>11 DEF TypeOK
  <1>15. InSlots' = InSlots \cup g.rows
    <2>1. \A r : r \in InSlots' <=> \E k \in DOMAIN slots' : r \in slots'[k].rows
      BY DEF InSlots
    <2>2. \A r : r \in InSlots <=> \E k \in DOMAIN slots : r \in slots[k].rows
      BY DEF InSlots
    <2>3. ASSUME NEW r \in InSlots'
          PROVE  r \in InSlots \cup g.rows
      BY <1>9, <1>10, <1>11, <1>13, <2>1, <2>2
    <2>4. ASSUME NEW r \in InSlots \cup g.rows
          PROVE  r \in InSlots'
      BY <1>9, <1>11, <1>13, <2>1, <2>2
    <2> QED
      BY <2>3, <2>4
  <1> QED
    BY <1>9, <1>10, <1>11, <1>12, <1>13, <1>14, <1>15

LEMMA TakingPush ==
    ASSUME TakingInv, NEW i \in inserts, NEW g \in i.groups, buffered,
           Push(BufferKey(g.key, i.signal), g.rows), NextGroup(i, g),
           UNCHANGED <<files, faults, buffered, worker, timer, cancelled, lost, alive>>
    PROVE  TakingInv' /\ Accepted' = Accepted \cup g.rows /\ Stored' = Stored
  <1> DEFINE key == BufferKey(g.key, i.signal)
  <1>1. /\ DOMAIN slots' = DOMAIN slots \cup {key}
        /\ \A k \in DOMAIN slots : k # key => slots'[k] = slots[k]
        /\ key \in DOMAIN slots => slots'[key].rows = slots[key].rows \cup g.rows
        /\ key \notin DOMAIN slots => slots'[key].rows = g.rows
        /\ DOMAIN slots' \subseteq BufferKeys
        /\ slots' \in [DOMAIN slots' -> [rows : SUBSET AllRows, size : Nat, age : 0..Interval]]
        /\ permit' \in BOOLEAN
        /\ InSlots' = InSlots \cup g.rows
    BY PushMoves
  <1> HIDE DEF key
  <1>2. InHand' = InHand /\ Stored' = Stored
    BY DEF InHand, Stored
  <1>3. Accepted' = Accepted \cup g.rows
    BY <1>1, <1>2 DEF Accepted
  <1>4. /\ InsertsInv' /\ AheadInv' /\ TakenWhenReturned'
        /\ inserts' \subseteq [batch : BatchIds, attempt : 0..MaxFaults, signal : DOMAIN RowBytes,
                                rows : {b.rows : b \in Batches},
                                groups : SUBSET [key : PartitionKeys, rows : SUBSET AllRows]]
    BY <1>3, GroupFrame
  <1>5. alive /\ done' = done
    BY InsertFacts, GroupFacts
  <1>6. TypeOK'
    BY <1>1, <1>4, <1>5 DEF TakingInv, TypeOK
  <1>7. WorkerInv' /\ DirectInv'
    BY <1>1, <1>5 DEF TakingInv, WorkerInv, DirectInv
  <1>8. g.rows \cap Accepted = {}
    <2>1. g.rows \subseteq Pending(i)
      BY GroupFacts
    <2> QED
      BY <2>1 DEF TakingInv, AheadInv
  <1>9. \A k \in DOMAIN slots : slots[k].rows \subseteq Accepted
    BY DEF InSlots, Accepted
  <1>10. \A k, l \in DOMAIN slots' : k # l => slots'[k].rows \cap slots'[l].rows = {}
    <2>1. \A k, l \in DOMAIN slots : k # l => slots[k].rows \cap slots[l].rows = {}
      BY DEF TakingInv, ApartInv
    <2>2. \A k \in DOMAIN slots : slots[k].rows \cap g.rows = {}
      BY <1>8, <1>9
    <2>3. \A k \in DOMAIN slots : k # key => slots'[k].rows \cap slots'[key].rows = {}
      BY <1>1, <2>1, <2>2
    <2> QED
      BY <1>1, <2>1, <2>3
  <1>11. /\ InSlots' \cap InHand' = {}
         /\ (InSlots' \cup InHand') \cap (Stored' \cup lost') = {}
    BY <1>1, <1>2, <1>8 DEF TakingInv, ApartInv, Accepted
  <1>12. ApartInv'
    BY <1>2, <1>10, <1>11 DEF TakingInv, ApartInv
  <1> QED
    BY <1>2, <1>3, <1>4, <1>6, <1>7, <1>12 DEF TakingInv

\* Without the buffer, rows still to be written are in files of earlier
\* attempts only.
LEMMA EarlierFile ==
    ASSUME TakingInv, NEW i \in inserts, NEW g \in i.groups, ~buffered,
           NEW f \in files, f.rows \cap g.rows # {}
    PROVE  f.attempt # i.attempt
  <1>1. PICK b \in Batches : i.batch = b.id /\ Pending(i) \subseteq RowsOf(b)
    BY InsertFacts
  <1>2. alive /\ g.rows \subseteq Pending(i)
    BY InsertFacts DEF Pending, RowsIn
  <1>3. PICK c \in Batches :
          /\ f.rows \subseteq RowsOf(c)
          /\ \/ \E d \in done : d.batch = c.id /\ d.attempt = f.attempt
             \/ \E y \in inserts : y.batch = c.id /\ y.attempt = f.attempt /\ Pending(y) \cap f.rows = {}
    BY <1>2 DEF TakingInv, DirectInv, WroteFile
  <1>4. RowsOf(c) \cap RowsOf(b) # {}
    BY <1>1, <1>2, <1>3
  <1>5. c = b
    BY <1>4, BufferAssumption
  <1>6. CASE \E d \in done : d.batch = c.id /\ d.attempt = f.attempt
    <2>1. PICK d \in done : d.batch = i.batch /\ d.attempt = f.attempt
      BY <1>1, <1>5, <1>6
    <2>2. d.attempt < i.attempt /\ d.attempt \in Nat /\ i.attempt \in Nat
      BY <2>1, InsertFacts DEF TakingInv, InsertsInv, TypeOK
    <2> QED
      BY <2>1, <2>2
  <1>7. CASE \E y \in inserts : y.batch = c.id /\ y.attempt = f.attempt /\ Pending(y) \cap f.rows = {}
    <2>1. Pending(i) \cap f.rows = {}
      BY <1>1, <1>5, <1>7 DEF TakingInv, InsertsInv
    <2> QED
      BY <1>2, <2>1
  <1> QED
    BY <1>3, <1>6, <1>7

\* Without the buffer a group becomes a file, and no other file holds its
\* rows but one of an earlier attempt.
LEMMA TakingWrite ==
    ASSUME TakingInv, NEW i \in inserts, NEW g \in i.groups, ~buffered,
           WriteFile(i.signal, g.key, g.rows, i.attempt), NextGroup(i, g),
           UNCHANGED <<slots, permit, faults, buffered, worker, timer, cancelled, lost, alive>>
    PROVE  TakingInv' /\ Accepted' = Accepted \cup g.rows /\ Stored' = Stored \cup g.rows
  <1>1. PICK first \in g.rows :
          files' = files \cup {[signal |-> i.signal, ws |-> g.key.ws, stream |-> g.key.stream,
                                hour |-> DatePath(first.ts), rows |-> g.rows, attempt |-> i.attempt]}
    BY DEF WriteFile
  <1> DEFINE x == [signal |-> i.signal, ws |-> g.key.ws, stream |-> g.key.stream,
                   hour |-> DatePath(first.ts), rows |-> g.rows, attempt |-> i.attempt]
  <1>2. x \in [signal : DOMAIN RowBytes, ws : {r.ws : r \in AllRows},
               stream : {StreamOf(r) : r \in AllRows}, hour : {DatePath(r.ts) : r \in AllRows},
               rows : SUBSET AllRows, attempt : 0..MaxFaults]
    <2>1. i.signal \in DOMAIN RowBytes /\ i.attempt \in 0..MaxFaults
      BY InsertFacts
    <2>2. g.key \in PartitionKeys /\ g.rows \in SUBSET AllRows
      BY GroupFacts
    <2>3. g.key.ws \in {r.ws : r \in AllRows} /\ g.key.stream \in {StreamOf(r) : r \in AllRows}
      BY <2>2, KeyFields
    <2> HIDE DEF x
    <2> QED
      BY <1>1, <2>1, <2>2, <2>3, FileType DEF x
  <1>3. x.rows = g.rows /\ x.attempt = i.attempt /\ files' = files \cup {x}
    BY <1>1
  <1> HIDE DEF x
  <1>4. RowsIn(files \cup {x}) = RowsIn(files) \cup x.rows
    BY RowsAdd
  <1>5. Stored' = Stored \cup g.rows
    BY <1>3, <1>4 DEF Stored
  <1>6. InSlots' = InSlots /\ InHand' = InHand
    BY DEF InSlots, InHand
  <1>7. Accepted' = Accepted \cup g.rows
    BY <1>5, <1>6 DEF Accepted
  <1>8. /\ InsertsInv' /\ AheadInv' /\ TakenWhenReturned'
        /\ inserts' \subseteq [batch : BatchIds, attempt : 0..MaxFaults, signal : DOMAIN RowBytes,
                                rows : {b.rows : b \in Batches},
                                groups : SUBSET [key : PartitionKeys, rows : SUBSET AllRows]]
    BY <1>7, GroupFrame
  <1>9. alive /\ done' = done /\ g.rows \subseteq Pending(i)
    BY InsertFacts, GroupFacts
  <1>10. TypeOK'
    BY <1>2, <1>3, <1>8, <1>9 DEF TakingInv, TypeOK
  <1>11. WorkerInv'
    BY <1>9 DEF TakingInv, WorkerInv
  <1>12. PICK j :
          /\ inserts' = (inserts \ {i}) \cup {j}
          /\ j = [batch |-> i.batch, attempt |-> i.attempt, signal |-> i.signal, rows |-> i.rows,
                  groups |-> i.groups \ {g}]
          /\ Pending(j) = Pending(i) \ g.rows
    BY GroupFacts
  <1>13. j.batch = i.batch /\ j.attempt = i.attempt
    BY <1>12
  <1>p. \A y : Pending(y)' = Pending(y)
    BY DEF Pending
  <1>14. PICK b \in Batches : i.batch = b.id /\ Pending(i) \subseteq RowsOf(b)
    BY InsertFacts
  <1>15. \A f \in files : WroteFile(f)
    BY <1>9 DEF TakingInv, DirectInv
  <1>16. \A f \in files : f.rows \cap g.rows # {} => f.attempt # i.attempt
    BY EarlierFile
  <1>17. ASSUME NEW f, WroteFile(f)
         PROVE  WroteFile(f)'
    <2>1. PICK c \in Batches :
            /\ f.rows \subseteq RowsOf(c)
            /\ \/ \E d \in done : d.batch = c.id /\ d.attempt = f.attempt
               \/ \E y \in inserts : y.batch = c.id /\ y.attempt = f.attempt /\ Pending(y) \cap f.rows = {}
      BY <1>17 DEF WroteFile
    <2>2. CASE \E d \in done : d.batch = c.id /\ d.attempt = f.attempt
      BY <1>9, <2>1, <2>2 DEF WroteFile
    <2>3. CASE \E y \in inserts : y.batch = c.id /\ y.attempt = f.attempt /\ Pending(y) \cap f.rows = {}
      <3>1. PICK y \in inserts : y.batch = c.id /\ y.attempt = f.attempt /\ Pending(y) \cap f.rows = {}
        BY <2>3
      <3>2. \E z \in inserts' : z.batch = c.id /\ z.attempt = f.attempt /\ Pending(z)' \cap f.rows = {}
        <4>1. CASE y = i
          BY <1>12, <1>13, <1>p, <3>1, <4>1
        <4>2. CASE y # i
          BY <1>12, <1>p, <3>1, <4>2
        <4> QED
          BY <4>1, <4>2
      <3> QED
        BY <2>1, <3>2 DEF WroteFile
    <2> QED
      BY <2>1, <2>2, <2>3
  <1>18. WroteFile(x)'
    <2>1. x.rows \subseteq RowsOf(b)
      BY <1>3, <1>9, <1>14
    <2>2. j \in inserts' /\ j.batch = b.id /\ j.attempt = x.attempt /\ Pending(j)' \cap x.rows = {}
      BY <1>3, <1>12, <1>13, <1>14, <1>p
    <2> QED
      BY <2>1, <2>2 DEF WroteFile
  <1>19. DirectInv'
    <2>1. \A f \in files' : WroteFile(f)'
      BY <1>3, <1>15, <1>17, <1>18
    <2>2. \A f, h \in files' : f.rows \cap h.rows # {} /\ f # h => f.attempt # h.attempt
      BY <1>3, <1>16 DEF TakingInv, DirectInv
    <2> QED
      BY <2>1, <2>2 DEF TakingInv, DirectInv
  <1>20. ApartInv'
    <2>1. DOMAIN slots = {} /\ worker.taken = {} /\ lost = {}
      BY DEF TakingInv, DirectInv, Empty, Waiting
    <2>2. InSlots = {} /\ InHand = {}
      BY <2>1 DEF InSlots, InHand, RowsIn
    <2> QED
      BY <1>6, <2>1, <2>2 DEF ApartInv
  <1> QED
    BY <1>5, <1>7, <1>8, <1>10, <1>11, <1>19, <1>20 DEF TakingInv

\* A write that fails after its file was registered ends the insert with the
\* rows stored.
LEMMA TakingFailed ==
    ASSUME TakingInv, NEW i \in inserts, NEW g \in i.groups, ~buffered,
           WriteFile(i.signal, g.key, g.rows, i.attempt), Leave(i, FALSE),
           faults' \in 0..MaxFaults,
           UNCHANGED <<slots, permit, buffered, worker, timer, cancelled, lost, alive>>
    PROVE  TakingInv' /\ Accepted' = Accepted \cup g.rows /\ Stored' = Stored \cup g.rows
  <1>1. PICK first \in g.rows :
          files' = files \cup {[signal |-> i.signal, ws |-> g.key.ws, stream |-> g.key.stream,
                                hour |-> DatePath(first.ts), rows |-> g.rows, attempt |-> i.attempt]}
    BY DEF WriteFile
  <1> DEFINE x == [signal |-> i.signal, ws |-> g.key.ws, stream |-> g.key.stream,
                   hour |-> DatePath(first.ts), rows |-> g.rows, attempt |-> i.attempt]
             e == [batch |-> i.batch, attempt |-> i.attempt, ok |-> FALSE]
  <1>2. x \in [signal : DOMAIN RowBytes, ws : {r.ws : r \in AllRows},
               stream : {StreamOf(r) : r \in AllRows}, hour : {DatePath(r.ts) : r \in AllRows},
               rows : SUBSET AllRows, attempt : 0..MaxFaults]
    <2>1. i.signal \in DOMAIN RowBytes /\ i.attempt \in 0..MaxFaults
      BY InsertFacts
    <2>2. g.key \in PartitionKeys /\ g.rows \in SUBSET AllRows
      BY InsertFacts
    <2>3. g.key.ws \in {r.ws : r \in AllRows} /\ g.key.stream \in {StreamOf(r) : r \in AllRows}
      BY <2>2, KeyFields
    <2> HIDE DEF x
    <2> QED
      BY <1>1, <2>1, <2>2, <2>3, FileType DEF x
  <1>3. x.rows = g.rows /\ x.attempt = i.attempt /\ files' = files \cup {x}
    BY <1>1
  <1>e. /\ inserts' = inserts \ {i} /\ done' = done \cup {e}
        /\ e.batch = i.batch /\ e.attempt = i.attempt /\ e.ok = FALSE
    BY DEF Leave
  <1>t. e \in [batch : BatchIds, attempt : 0..MaxFaults, ok : BOOLEAN]
    BY InsertFacts
  <1> HIDE DEF x, e
  <1>4. RowsIn(files \cup {x}) = RowsIn(files) \cup x.rows
    BY RowsAdd
  <1>5. Stored' = Stored \cup g.rows
    BY <1>3, <1>4 DEF Stored
  <1>6. InSlots' = InSlots /\ InHand' = InHand
    BY DEF InSlots, InHand
  <1>7. Accepted' = Accepted \cup g.rows
    BY <1>5, <1>6 DEF Accepted
  <1>8. alive /\ g.rows \subseteq Pending(i)
    BY InsertFacts DEF Pending, RowsIn
  <1>p. \A y : Pending(y)' = Pending(y)
    BY DEF Pending
  <1>9. TypeOK'
    BY <1>2, <1>3, <1>e, <1>t DEF TakingInv, TypeOK
  <1>10. \A y \in inserts : y # i => y.batch # i.batch
    BY DEF TakingInv, InsertsInv
  <1>11. InsertsInv'
    BY <1>7, <1>10, <1>e, <1>p DEF TakingInv, InsertsInv
  <1>12. WorkerInv' /\ AheadInv'
    BY <1>8, <1>e DEF TakingInv, WorkerInv, AheadInv
  <1>13. TakenWhenReturned'
    BY <1>7, <1>e DEF TakingInv, TakenWhenReturned
  <1>14. PICK b \in Batches : i.batch = b.id /\ Pending(i) \subseteq RowsOf(b)
    BY InsertFacts
  <1>15. ASSUME NEW f, WroteFile(f)
         PROVE  WroteFile(f)'
    <2>1. PICK c \in Batches :
            /\ f.rows \subseteq RowsOf(c)
            /\ \/ \E d \in done : d.batch = c.id /\ d.attempt = f.attempt
               \/ \E y \in inserts : y.batch = c.id /\ y.attempt = f.attempt /\ Pending(y) \cap f.rows = {}
      BY <1>15 DEF WroteFile
    <2>2. CASE \E d \in done : d.batch = c.id /\ d.attempt = f.attempt
      BY <1>e, <2>1, <2>2 DEF WroteFile
    <2>3. CASE \E y \in inserts : y.batch = c.id /\ y.attempt = f.attempt /\ Pending(y) \cap f.rows = {}
      <3>1. PICK y \in inserts : y.batch = c.id /\ y.attempt = f.attempt /\ Pending(y) \cap f.rows = {}
        BY <2>3
      <3>2. CASE y = i
        <4>1. e \in done' /\ e.batch = c.id /\ e.attempt = f.attempt
          BY <1>e, <3>1, <3>2
        <4> QED
          BY <2>1, <4>1 DEF WroteFile
      <3>3. CASE y # i
        <4>1. y \in inserts' /\ Pending(y)' \cap f.rows = {}
          BY <1>e, <1>p, <3>1, <3>3
        <4> QED
          BY <2>1, <3>1, <4>1 DEF WroteFile
      <3> QED
        BY <3>2, <3>3
    <2> QED
      BY <2>1, <2>2, <2>3
  <1>16. WroteFile(x)'
    <2>1. x.rows \subseteq RowsOf(b)
      BY <1>3, <1>8, <1>14
    <2>2. e \in done' /\ e.batch = b.id /\ e.attempt = x.attempt
      BY <1>3, <1>14, <1>e
    <2> QED
      BY <2>1, <2>2 DEF WroteFile
  <1>17. \A f \in files : f.rows \cap g.rows # {} => f.attempt # i.attempt
    BY EarlierFile
  <1>18. DirectInv'
    <2>1. \A f \in files' : WroteFile(f)'
      BY <1>3, <1>8, <1>15, <1>16 DEF TakingInv, DirectInv
    <2>2. \A f, h \in files' : f.rows \cap h.rows # {} /\ f # h => f.attempt # h.attempt
      BY <1>3, <1>17 DEF TakingInv, DirectInv
    <2> QED
      BY <2>1, <2>2 DEF TakingInv, DirectInv
  <1>19. ApartInv'
    <2>1. DOMAIN slots = {} /\ worker.taken = {} /\ lost = {}
      BY DEF TakingInv, DirectInv, Empty, Waiting
    <2>2. InSlots = {} /\ InHand = {}
      BY <2>1 DEF InSlots, InHand, RowsIn
    <2> QED
      BY <1>6, <2>1, <2>2 DEF ApartInv
  <1> QED
    BY <1>5, <1>7, <1>9, <1>11, <1>12, <1>13, <1>18, <1>19 DEF TakingInv

LEMMA TakingGroup ==
    ASSUME TakingInv, NEW i \in inserts, InsertGroup(i)
    PROVE  TakingInv'
  <1>1. PICK g \in i.groups :
        IF buffered
        THEN /\ Push(BufferKey(g.key, i.signal), g.rows)
             /\ NextGroup(i, g)
             /\ UNCHANGED <<files, faults>>
        ELSE /\ UNCHANGED <<slots, permit>>
             /\ \/ WriteFile(i.signal, g.key, g.rows, i.attempt) /\ NextGroup(i, g) /\ UNCHANGED faults
                \/ WriteFails(i, g)
    BY DEF InsertGroup
  <1>u. UNCHANGED <<buffered, worker, timer, cancelled, lost, alive>>
    BY DEF InsertGroup
  <1>2. CASE buffered
    BY <1>1, <1>u, <1>2, TakingPush
  <1>3. CASE ~buffered /\ WriteFile(i.signal, g.key, g.rows, i.attempt) /\ NextGroup(i, g) /\ UNCHANGED faults
    BY <1>1, <1>u, <1>3, TakingWrite
  <1>4. CASE ~buffered /\ WriteFails(i, g)
    <2>1. /\ Leave(i, FALSE) /\ faults < MaxFaults /\ faults' = faults + 1
          /\ UNCHANGED files \/ WriteFile(i.signal, g.key, g.rows, i.attempt)
      BY <1>4 DEF WriteFails, FailedWrite
    <2>2. faults' \in 0..MaxFaults
      BY <2>1, BufferAssumption DEF TakingInv, TypeOK
    <2>3. CASE UNCHANGED files
      BY <1>1, <1>u, <1>4, <2>1, <2>2, <2>3, TakingLeave
    <2>4. CASE WriteFile(i.signal, g.key, g.rows, i.attempt)
      BY <1>1, <1>u, <1>4, <2>1, <2>2, <2>4, TakingFailed
    <2> QED
      BY <2>1, <2>3, <2>4
  <1> QED
    BY <1>1, <1>2, <1>3, <1>4

LEMMA TakingReturns ==
    ASSUME TakingInv, NEW i \in inserts, InsertReturns(i)
    PROVE  TakingInv'
  <1>1. /\ i.groups = {} /\ Leave(i, TRUE)
        /\ UNCHANGED <<buffered, slots, permit, worker, timer, cancelled, files, lost, alive, faults>>
    BY DEF InsertReturns
  <1>2. faults' \in 0..MaxFaults
    BY <1>1 DEF TakingInv, TypeOK
  <1> QED
    BY <1>1, <1>2, TakingLeave

LEMMA TakingInit ==
    ASSUME Init
    PROVE  TakingInv /\ Accepted = {} /\ Stored = {}
  <1>1. DOMAIN slots = {} /\ worker.taken = {} /\ files = {}
    BY DEF Init, Empty, Waiting
  <1>2. InSlots = {} /\ InHand = {} /\ Stored = {}
    BY <1>1 DEF InSlots, InHand, Stored, RowsIn
  <1>3. Accepted = {}
    BY <1>2 DEF Accepted, Init
  <1>4. TypeOK
    <2>1. slots \in [DOMAIN slots -> [rows : SUBSET AllRows, size : Nat, age : 0..Interval]]
      BY <1>1 DEF Init, Empty
    <2>2. worker \in [pc : {"wait", "drain", "write", "stopped"}, keys : SUBSET BufferKeys,
                      taken : SUBSET [key : BufferKeys, rows : SUBSET AllRows], last : BOOLEAN]
      BY DEF Init, Waiting
    <2>3. buffered \in BOOLEAN /\ timer \in 0..Interval /\ faults \in 0..MaxFaults
      BY BufferAssumption DEF Init
    <2> QED
      BY <1>1, <2>1, <2>2, <2>3 DEF Init, TypeOK
  <1>5. InsertsInv /\ WorkerInv /\ TakenWhenReturned
    BY DEF Init, InsertsInv, WorkerInv, TakenWhenReturned, Waiting
  <1>6. DirectInv /\ AheadInv /\ ApartInv
    BY <1>1, <1>2, <1>3 DEF Init, DirectInv, AheadInv, ApartInv
  <1> QED
    BY <1>2, <1>3, <1>4, <1>5, <1>6 DEF TakingInv

LEMMA TakingStep ==
    ASSUME TakingInv, [Next]_vars
    PROVE  TakingInv'
  <1>1. CASE \E b \in Batches : Insert(b)
    BY <1>1, TakingInsert
  <1>2. CASE \E i \in inserts : InsertGroup(i) \/ InsertReturns(i)
    BY <1>2, TakingGroup, TakingReturns
  <1>3. CASE Work \/ Cancelled
    BY <1>3, TakingWork
  <1>4. CASE Tick \/ Cancel \/ ProcessEnds
    BY <1>4, TakingTick, TakingCancel, TakingEnds
  <1>5. CASE UNCHANGED vars
    <2>u. UNCHANGED <<buffered, slots, permit, inserts, worker, timer, cancelled, files, done, lost, alive, faults>>
      BY <1>5 DEF vars
    <2>1. InSlots' = InSlots /\ InHand' = InHand /\ Stored' = Stored /\ Accepted' = Accepted
      BY <2>u DEF InSlots, InHand, Stored, Accepted
    <2>2. InsertsInv' /\ AheadInv' /\ TakenWhenReturned'
      BY <2>u, <2>1, InsertsFrame
    <2>3. TypeOK' /\ WorkerInv' /\ ApartInv'
      BY <2>u, <2>1 DEF TakingInv, TypeOK, WorkerInv, ApartInv
    <2>4. \A f : WroteFile(f)' = WroteFile(f)
      BY <2>u DEF WroteFile, Pending
    <2>5. DirectInv'
      BY <2>u, <2>4 DEF TakingInv, DirectInv
    <2> QED
      BY <2>2, <2>3, <2>5 DEF TakingInv
  <1> QED
    BY <1>1, <1>2, <1>3, <1>4, <1>5 DEF Next

\* Every row taken is in one place, and every row of a batch under way is
\* taken or still to come (telemetry_writer.rs, write_buffer.rs and
\* flush_worker.rs together).
THEOREM TakingInvariant == Spec => []TakingInv
  <1>1. Init => TakingInv
    BY TakingInit
  <1>2. TakingInv /\ [Next]_vars => TakingInv'
    BY TakingStep
  <1> QED
    BY <1>1, <1>2, PTL DEF Spec

\* An insert that returned without error has had all its rows taken, however
\* its groups were interleaved with those of others and with the worker's
\* drains (telemetry_writer.rs insert_spans, ...).
THEOREM ReturnedIsTaken == Spec => []TakenWhenReturned
  <1>1. TakingInv => TakenWhenReturned
    BY DEF TakingInv
  <1> QED
    BY <1>1, TakingInvariant, PTL
-----------------------------------------------------------------------------
(* The write path implements RowStore *)

LEMMA AcceptedRows ==
    ASSUME TakingInv
    PROVE  InHand \subseteq AllRows /\ Accepted \subseteq AllRows
  <1>1. InSlots \subseteq AllRows /\ InHand \subseteq AllRows
    BY WorkerType DEF TakingInv, InSlots, InHand, RowsIn
  <1>2. Stored \subseteq AllRows /\ lost \subseteq AllRows
    BY DEF TakingInv, TypeOK, Stored, RowsIn
  <1> QED
    BY <1>1, <1>2 DEF Accepted

\* Between two drains the worker moves no rows.
LEMMA SelectMoves ==
    ASSUME TakingInv, TimerTick \/ Notified \/ Cancelled \/ DrainDone \/ FlushDone
    PROVE  UNCHANGED <<slots, files, lost, alive>> /\ worker'.taken = worker.taken
  <1>1. CASE TimerTick
    BY <1>1 DEF TimerTick, Start, TakingInv, WorkerInv
  <1>2. CASE Notified
    BY <1>2 DEF Notified, Start, TakingInv, WorkerInv
  <1>3. CASE Cancelled
    BY <1>3 DEF Cancelled, Start, TakingInv, WorkerInv
  <1>4. CASE DrainDone
    BY <1>4, WorkerType DEF DrainDone, TakingInv
  <1>5. CASE FlushDone
    BY <1>5 DEF FlushDone, Waiting
  <1> QED
    BY <1>1, <1>2, <1>3, <1>4, <1>5

\* A push accepts, a direct write stores at once, a flush stores or gives up, the
\* end loses what is in memory; no other step changes what RowStore sees.
LEMMA RowStoreStep ==
    ASSUME TakingInv, [Next]_vars
    PROVE  [Abstract!Next]_(Abstract!rowVars)
  <1> DEFINE Stutter == UNCHANGED <<Accepted, Stored, lost, alive>>
  <1>s. Stutter => [Abstract!Next]_(Abstract!rowVars)
    BY DEF Abstract!rowVars
  <1>1. CASE \E b \in Batches : Insert(b)
    <2>1. UNCHANGED <<slots, worker, files, lost, alive>>
      BY <1>1 DEF Insert
    <2> QED
      BY <1>s, <2>1 DEF Accepted, InSlots, InHand, Stored
  <1>2. CASE \E i \in inserts : InsertReturns(i)
    <2>1. UNCHANGED <<slots, worker, files, lost, alive>>
      BY <1>2 DEF InsertReturns
    <2> QED
      BY <1>s, <2>1 DEF Accepted, InSlots, InHand, Stored
  <1>3. CASE \E i \in inserts : InsertGroup(i)
    <2>1. PICK i \in inserts : InsertGroup(i)
      BY <1>3
    <2>2. PICK g \in i.groups :
          IF buffered
          THEN /\ Push(BufferKey(g.key, i.signal), g.rows)
               /\ NextGroup(i, g)
               /\ UNCHANGED <<files, faults>>
          ELSE /\ UNCHANGED <<slots, permit>>
               /\ \/ WriteFile(i.signal, g.key, g.rows, i.attempt) /\ NextGroup(i, g) /\ UNCHANGED faults
                  \/ WriteFails(i, g)
      BY <2>1 DEF InsertGroup
    <2>u. UNCHANGED <<buffered, worker, timer, cancelled, lost, alive>> /\ alive
      BY <2>1, InsertFacts DEF InsertGroup
    <2>3. CASE buffered
      <3>1. Accepted' = Accepted \cup g.rows /\ Stored' = Stored
        BY <2>2, <2>u, <2>3, TakingPush
      <3>2. g.rows \in SUBSET AllRows
        BY <2>2, <2>3, GroupFacts
      <3>3. Abstract!Accept(g.rows)
        BY <2>u, <3>1 DEF Abstract!Accept
      <3> QED
        BY <3>2, <3>3 DEF Abstract!Next
    <2>4. CASE ~buffered /\ WriteFile(i.signal, g.key, g.rows, i.attempt) /\ NextGroup(i, g) /\ UNCHANGED faults
      <3>1. Accepted' = Accepted \cup g.rows /\ Stored' = Stored \cup g.rows
        BY <2>2, <2>u, <2>4, TakingWrite
      <3>2. g.rows \in SUBSET AllRows
        BY <2>4, GroupFacts
      <3>3. lost = {}
        BY <2>4 DEF TakingInv, DirectInv
      <3>4. Abstract!StoreAtOnce(g.rows)
        BY <2>u, <3>1, <3>3 DEF Abstract!StoreAtOnce
      <3> QED
        BY <3>2, <3>4 DEF Abstract!Next
    <2>5. CASE ~buffered /\ WriteFails(i, g)
      <3>1. /\ Leave(i, FALSE) /\ faults < MaxFaults /\ faults' = faults + 1
            /\ UNCHANGED files \/ WriteFile(i.signal, g.key, g.rows, i.attempt)
        BY <2>5 DEF WriteFails, FailedWrite
      <3>2. faults' \in 0..MaxFaults
        BY <3>1, BufferAssumption DEF TakingInv, TypeOK
      <3>3. CASE UNCHANGED files
        <4>1. UNCHANGED <<slots, worker, files, lost, alive>>
          BY <2>2, <2>u, <2>5, <3>3
        <4> QED
          BY <1>s, <4>1 DEF Accepted, InSlots, InHand, Stored
      <3>4. CASE WriteFile(i.signal, g.key, g.rows, i.attempt)
        <4>1. Accepted' = Accepted \cup g.rows /\ Stored' = Stored \cup g.rows
          BY <2>2, <2>u, <2>5, <3>1, <3>2, <3>4, TakingFailed
        <4>2. g.rows \in SUBSET AllRows /\ lost = {}
          BY <2>5, InsertFacts DEF TakingInv, DirectInv
        <4>3. Abstract!StoreAtOnce(g.rows)
          BY <2>u, <4>1, <4>2 DEF Abstract!StoreAtOnce
        <4> QED
          BY <4>2, <4>3 DEF Abstract!Next
      <3> QED
        BY <3>1, <3>3, <3>4
    <2> QED
      BY <2>2, <2>3, <2>4, <2>5
  <1>4. CASE \E k \in worker.keys : DrainKey(k)
    <2>1. PICK k \in worker.keys : DrainKey(k)
      BY <1>4
    <2>2. InSlots = InSlots' \cup slots[k].rows /\ InHand' = InHand \cup slots[k].rows
      BY <2>1, DrainMoves
    <2>3. UNCHANGED <<files, lost, alive>>
      BY <2>1 DEF DrainKey
    <2>4. Stored' = Stored
      BY <2>3 DEF Stored
    <2>5. Accepted' = Accepted
      BY <2>2, <2>3, <2>4 DEF Accepted
    <2> QED
      BY <1>s, <2>3, <2>4, <2>5
  <1>5. CASE FlushOne
    <2>1. PICK t \in worker.taken :
            /\ InHand = InHand' \cup t.rows
            /\ \/ Stored' = Stored \cup t.rows /\ lost' \in {lost, lost \cup t.rows}
               \/ Stored' = Stored /\ lost' = lost \cup t.rows
      BY <1>5, FlushMoves
    <2>2. UNCHANGED <<slots, alive>> /\ alive
      BY <1>5, WorkBuffered DEF FlushOne, Work
    <2>3. InSlots' = InSlots
      BY <2>2 DEF InSlots
    <2>4. Accepted' = Accepted
      BY <2>1, <2>2, <2>3 DEF Accepted
    <2>5. t.rows \in SUBSET AllRows
      BY <2>1, AcceptedRows
    <2>6. t.rows \subseteq Accepted \ (Stored \cup lost)
      BY <2>1 DEF TakingInv, ApartInv, Accepted
    <2>7. Abstract!Store(t.rows) \/ Abstract!Lose(t.rows)
      BY <2>1, <2>2, <2>4, <2>6 DEF Abstract!Store, Abstract!Lose
    <2> QED
      BY <2>5, <2>7 DEF Abstract!Next
  <1>6. CASE TimerTick \/ Notified \/ Cancelled \/ DrainDone \/ FlushDone
    <2>1. UNCHANGED <<slots, files, lost, alive>> /\ worker'.taken = worker.taken
      BY <1>6, SelectMoves
    <2> QED
      BY <1>s, <2>1 DEF Accepted, InSlots, InHand, Stored
  <1>7. CASE Tick
    <2>1. InSlots' = InSlots
      BY <1>7, TickMoves DEF TakingInv
    <2>2. UNCHANGED <<worker, files, lost, alive>>
      BY <1>7 DEF Tick
    <2> QED
      BY <1>s, <2>1, <2>2 DEF Accepted, InHand, Stored
  <1>8. CASE Cancel \/ UNCHANGED vars
    <2>1. UNCHANGED <<slots, worker, files, lost, alive>>
      BY <1>8 DEF Cancel, vars
    <2> QED
      BY <1>s, <2>1 DEF Accepted, InSlots, InHand, Stored
  <1>9. CASE ProcessEnds
    <2>1. Accepted' = Accepted /\ Stored' = Stored /\ lost' = lost \cup (Accepted \ Stored)
      BY <1>9, TakingEnds
    <2>2. alive /\ alive' = FALSE
      BY <1>9 DEF ProcessEnds
    <2>3. Abstract!End
      BY <2>1, <2>2 DEF Abstract!End
    <2> QED
      BY <2>3 DEF Abstract!Next
  <1> QED
    BY <1>1, <1>2, <1>3, <1>4, <1>5, <1>6, <1>7, <1>8, <1>9 DEF Next, Work

\* The write path implements the safety part of RowStore: no accepted row is
\* forgotten between a push and a drain, none is stored after it was given up,
\* one given up is in a file only if its own failed write left it there, and
\* only the end of the process gives up rows that no write was tried for
\* (write_buffer.rs, flush_worker.rs flush_one, writer.rs register_file).
THEOREM ImplementsRowStore == Spec => RefinesRowStore
  <1>1. Init => Abstract!Init
    BY TakingInit DEF Init, Abstract!Init
  <1>2. TakingInv /\ [Next]_vars => [Abstract!Next]_(Abstract!rowVars)
    BY RowStoreStep
  <1> QED
    BY <1>1, <1>2, TakingInvariant, PTL DEF Spec, RefinesRowStore, Abstract!Safety
-----------------------------------------------------------------------------
(* Rows in the files of their partition *)

\* A file written for rows of one partition is under the path of that partition.
LEMMA PlacedFile ==
    ASSUME NEW signal, NEW key, NEW rows, NEW attempt,
           WriteFile(signal, key, rows, attempt), InPartition(key, rows),
           \A f \in files : InPartition(f, f.rows)
    PROVE  \A f \in files' : InPartition(f, f.rows)
  <1>1. PICK first \in rows :
          files' = files \cup {[signal |-> signal, ws |-> key.ws, stream |-> key.stream,
                                hour |-> DatePath(first.ts), rows |-> rows, attempt |-> attempt]}
    BY DEF WriteFile
  <1> DEFINE x == [signal |-> signal, ws |-> key.ws, stream |-> key.stream,
                   hour |-> DatePath(first.ts), rows |-> rows, attempt |-> attempt]
  <1>2. /\ files' = files \cup {x}
        /\ x.ws = key.ws /\ x.stream = key.stream /\ x.hour = DatePath(first.ts) /\ x.rows = rows
    BY <1>1
  <1>3. DatePath(first.ts) = key.hour
    BY DEF InPartition, PartitionKey
  <1> HIDE DEF x
  <1>4. InPartition(x, x.rows)
    BY <1>2, <1>3 DEF InPartition
  <1> QED
    BY <1>2, <1>4

\* The rows of a group are those of its key.
LEMMA PlacedGroup ==
    ASSUME \A b \in Batches : \A r \in RowsOf(b) : r.ts \in Nat,
           TakingInv, NEW i \in inserts, NEW g \in i.groups
    PROVE  InPartition(g.key, g.rows) /\ InPartition(BufferKey(g.key, i.signal), g.rows)
  <1>1. PICK b \in Batches : i.groups \subseteq Partition(b.rows)
    BY InsertFacts
  <1>2. \A r \in g.rows : PartitionKey(r) = g.key
    BY <1>1, PartitionPlaces
  <1>3. g.key \in PartitionKeys
    BY InsertFacts
  <1>4. g.key = [ws |-> g.key.ws, stream |-> g.key.stream, hour |-> g.key.hour]
    BY <1>3 DEF PartitionKeys, PartitionKey
  <1> QED
    BY <1>2, <1>4 DEF InPartition, BufferKey

LEMMA PlacedStep ==
    ASSUME \A b \in Batches : \A r \in RowsOf(b) : r.ts \in Nat,
           BufferIInv, [Next]_vars
    PROVE  PlacedInv'
  <1>0. /\ TakingInv
        /\ \A k \in DOMAIN slots : InPartition(k, slots[k].rows)
        /\ \A t \in worker.taken : InPartition(t.key, t.rows)
        /\ \A f \in files : InPartition(f, f.rows)
    BY DEF BufferIInv, PlacedInv
  <1>p. \A k, rows : InPartition(k, rows)' <=> InPartition(k, rows)
    BY DEF InPartition
  <1>s. ASSUME UNCHANGED <<slots, files>>, worker'.taken = worker.taken
        PROVE  PlacedInv'
    BY <1>0, <1>s DEF PlacedInv, InPartition
  <1>1. CASE \E b \in Batches : Insert(b)
    BY <1>1, <1>s DEF Insert
  <1>2. CASE \E i \in inserts : InsertReturns(i)
    BY <1>2, <1>s DEF InsertReturns
  <1>3. CASE \E i \in inserts : InsertGroup(i)
    <2>1. PICK i \in inserts : InsertGroup(i)
      BY <1>3
    <2>2. PICK g \in i.groups :
          IF buffered
          THEN /\ Push(BufferKey(g.key, i.signal), g.rows)
               /\ NextGroup(i, g)
               /\ UNCHANGED <<files, faults>>
          ELSE /\ UNCHANGED <<slots, permit>>
               /\ \/ WriteFile(i.signal, g.key, g.rows, i.attempt) /\ NextGroup(i, g) /\ UNCHANGED faults
                  \/ WriteFails(i, g)
      BY <2>1 DEF InsertGroup
    <2>u. UNCHANGED worker
      BY <2>1 DEF InsertGroup
    <2>g. InPartition(g.key, g.rows) /\ InPartition(BufferKey(g.key, i.signal), g.rows)
      BY <1>0, PlacedGroup
    <2>3. CASE buffered
      <3> DEFINE key == BufferKey(g.key, i.signal)
      <3>1. /\ DOMAIN slots' = DOMAIN slots \cup {key}
            /\ \A k \in DOMAIN slots : k # key => slots'[k] = slots[k]
            /\ key \in DOMAIN slots => slots'[key].rows = slots[key].rows \cup g.rows
            /\ key \notin DOMAIN slots => slots'[key].rows = g.rows
        BY <1>0, <2>2, <2>3, PushMoves
      <3>2. InPartition(key, g.rows)
        BY <2>g
      <3> HIDE DEF key
      <3>3. InPartition(key, slots'[key].rows)
        BY <1>0, <3>1, <3>2 DEF InPartition
      <3>4. \A k \in DOMAIN slots' : InPartition(k, slots'[k].rows)
        BY <1>0, <3>1, <3>3
      <3>5. UNCHANGED <<files, worker>>
        BY <2>2, <2>3, <2>u
      <3> QED
        BY <1>0, <3>4, <3>5 DEF PlacedInv, InPartition
    <2>4. CASE ~buffered /\ WriteFile(i.signal, g.key, g.rows, i.attempt)
      <3>1. \A f \in files' : InPartition(f, f.rows)
        BY <1>0, <2>4, <2>g, PlacedFile
      <3>2. UNCHANGED <<slots, worker>>
        BY <2>2, <2>4, <2>u
      <3> QED
        BY <1>0, <3>1, <3>2 DEF PlacedInv, InPartition
    <2>5. CASE ~buffered /\ UNCHANGED files
      BY <1>s, <2>2, <2>5, <2>u
    <2> QED
      BY <2>2, <2>3, <2>4, <2>5 DEF WriteFails, FailedWrite
  <1>4. CASE \E k \in worker.keys : DrainKey(k)
    <2>1. PICK k \in worker.keys : DrainKey(k)
      BY <1>4
    <2>2. /\ k \in DOMAIN slots
          /\ worker' = [pc |-> "drain", keys |-> worker.keys \ {k},
                        taken |-> worker.taken \cup {[key |-> k, rows |-> slots[k].rows]}, last |-> worker.last]
          /\ DOMAIN slots' = DOMAIN slots \ {k}
          /\ \A l \in DOMAIN slots' : slots'[l] = slots[l]
      BY <1>0, <2>1, DrainMoves
    <2>3. files' = files
      BY <2>1 DEF DrainKey
    <2>4. worker'.taken = worker.taken \cup {[key |-> k, rows |-> slots[k].rows]}
      BY <2>2
    <2>5. \A t \in worker'.taken : InPartition(t.key, t.rows)
      BY <1>0, <2>2, <2>4
    <2>6. \A l \in DOMAIN slots' : InPartition(l, slots'[l].rows)
      BY <1>0, <2>2
    <2> QED
      BY <1>0, <2>3, <2>5, <2>6 DEF PlacedInv, InPartition
  <1>5. CASE FlushOne
    <2>1. PICK t \in worker.taken :
          /\ WriteFile(t.key.signal, t.key, t.rows, 0) \/ UNCHANGED files
          /\ worker' = [worker EXCEPT !.taken = @ \ {t}]
      BY <1>5 DEF FlushOne, FailedWrite
    <2>2. worker'.taken = worker.taken \ {t} /\ slots' = slots
      BY <1>0, <1>5, <2>1, WorkerType DEF FlushOne, TakingInv
    <2>3. InPartition(t.key, t.rows)
      BY <1>0
    <2>4. CASE WriteFile(t.key.signal, t.key, t.rows, 0)
      <3>1. \A f \in files' : InPartition(f, f.rows)
        BY <1>0, <2>3, <2>4, PlacedFile
      <3> QED
        BY <1>0, <2>2, <3>1 DEF PlacedInv, InPartition
    <2>5. CASE UNCHANGED files
      BY <1>0, <2>2, <2>5 DEF PlacedInv, InPartition
    <2> QED
      BY <2>1, <2>4, <2>5
  <1>6. CASE TimerTick \/ Notified \/ Cancelled \/ DrainDone \/ FlushDone
    <2>1. UNCHANGED <<slots, files>> /\ worker'.taken = worker.taken
      BY <1>0, <1>6, SelectMoves
    <2> QED
      BY <1>s, <2>1
  <1>7. CASE Tick
    <2>1. /\ DOMAIN slots' = DOMAIN slots
          /\ \A k \in DOMAIN slots : slots'[k].rows = slots[k].rows
      BY <1>0, <1>7, TickMoves DEF TakingInv
    <2>2. UNCHANGED <<worker, files>>
      BY <1>7 DEF Tick
    <2> QED
      BY <1>0, <2>1, <2>2 DEF PlacedInv, InPartition
  <1>8. CASE Cancel \/ UNCHANGED vars
    BY <1>8, <1>s DEF Cancel, vars
  <1>9. CASE ProcessEnds
    <2>1. DOMAIN slots' = {} /\ worker'.taken = {} /\ files' = files
      BY <1>9 DEF ProcessEnds, Empty, Waiting
    <2> QED
      BY <1>0, <2>1 DEF PlacedInv, InPartition
  <1> QED
    BY <1>1, <1>2, <1>3, <1>4, <1>5, <1>6, <1>7, <1>8, <1>9 DEF Next, Work

\* With timestamps since 1970, every file holds the rows of one workspace,
\* stream and hour, under the path of that partition, and a row is in two
\* files only if its insert was tried again (telemetry_writer.rs
\* partition_by_storage_key, writer.rs write_spans, ...).
THEOREM RowsFiled ==
    ASSUME \A b \in Batches : \A r \in RowsOf(b) : r.ts \in Nat
    PROVE  Spec => []RowsInTheirPartition
  <1>1. Init => BufferIInv
    <2>1. Init => DOMAIN slots = {} /\ worker.taken = {} /\ files = {}
      BY DEF Init, Empty, Waiting
    <2>2. Init => PlacedInv
      BY <2>1 DEF PlacedInv
    <2> QED
      BY <2>2, TakingInit DEF BufferIInv
  <1>2. BufferIInv /\ [Next]_vars => BufferIInv'
    BY TakingStep, PlacedStep DEF BufferIInv
  <1>3. BufferIInv => RowsInTheirPartition
    <2> SUFFICES ASSUME BufferIInv
                 PROVE  RowsInTheirPartition
      OBVIOUS
    <2>1. \A f \in files : \A r \in f.rows :
            PartitionKey(r) = [ws |-> f.ws, stream |-> f.stream, hour |-> f.hour]
      BY DEF BufferIInv, PlacedInv, InPartition
    <2>2. \A f, g \in files : f.rows \cap g.rows # {} /\ f # g => f.attempt # g.attempt
      BY DEF BufferIInv, TakingInv, DirectInv, ApartInv
    <2> QED
      BY <2>1, <2>2 DEF RowsInTheirPartition
  <1> QED
    BY <1>1, <1>2, <1>3, PTL DEF Spec
=============================================================================
