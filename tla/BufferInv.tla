------------------------------ MODULE BufferInv ------------------------------
(***************************************************************************)
(* The inductive invariant behind RowsInTheirPartition, TakenWhenReturned  *)
(* and the refinement of RowStore.                                         *)
(***************************************************************************)
EXTENDS Buffer

\* Rows an insert has still to hand over.
Pending(i) == RowsIn(i.groups)

\* A batch has one insert at a time, later than all that were refused, and
\* what it has handed over was taken.
InsertsInv ==
    /\ \A i, j \in inserts : i.batch = j.batch => i = j
    /\ \A i \in inserts : \E b \in Batches :
        /\ i.batch = b.id
        /\ i.groups \subseteq Partition(b.rows)
        /\ RowsOf(b) \subseteq Pending(i) \cup Accepted
    /\ \A i \in inserts : \A d \in done :
        d.batch = i.batch => ~d.ok /\ d.attempt < i.attempt

\* What is drained is there to be drained, and nothing is in hand between
\* two flushes or after the end.
WorkerInv ==
    /\ worker.pc = "drain" => worker.keys \subseteq DOMAIN slots
    /\ worker.pc \in {"wait", "stopped"} => worker.taken = {}
    /\ ~alive => inserts = {} /\ worker = Waiting /\ slots = Empty

\* Without the buffer, a file belongs to the attempt that wrote it: one that
\* returned, or one that will not write these rows again.
WroteFile(f) ==
    \E b \in Batches :
        /\ f.rows \subseteq RowsOf(b)
        /\ \/ \E d \in done : d.batch = b.id /\ d.attempt = f.attempt
           \/ \E i \in inserts :
                i.batch = b.id /\ i.attempt = f.attempt /\ Pending(i) \cap f.rows = {}

DirectInv ==
    ~buffered =>
        /\ slots = Empty /\ ~permit /\ worker = Waiting /\ lost = {}
        /\ alive => \A f \in files : WroteFile(f)
        /\ \A f, g \in files : f.rows \cap g.rows # {} /\ f # g => f.attempt # g.attempt

\* With the buffer, no insert is refused, and rows are handed over once.
AheadInv ==
    buffered =>
        /\ \A d \in done : d.ok
        /\ \A i \in inserts : Pending(i) \cap Accepted = {}
        /\ alive => \A b \in Batches : RowsOf(b) \cap Accepted # {} =>
                \E x \in inserts \cup done : x.batch = b.id

\* A row taken is in one place: a slot, a slot in hand, or settled, and then in
\* one file at most.
ApartInv ==
    /\ buffered =>
        /\ \A k, l \in DOMAIN slots : k # l => slots[k].rows \cap slots[l].rows = {}
        /\ \A t, u \in worker.taken : t # u => t.rows \cap u.rows = {}
        /\ \A f, g \in files : f # g => f.rows \cap g.rows = {}
    /\ InSlots \cap InHand = {}
    /\ (InSlots \cup InHand) \cap (Stored \cup lost) = {}

\* Rows of one partition.
InPartition(key, rows) ==
    \A r \in rows : PartitionKey(r) = [ws |-> key.ws, stream |-> key.stream, hour |-> key.hour]

PlacedInv ==
    /\ \A k \in DOMAIN slots : InPartition(k, slots[k].rows)
    /\ \A t \in worker.taken : InPartition(t.key, t.rows)
    /\ \A f \in files : InPartition(f, f.rows)

\* Every row taken is in one place, and every row of a batch under way is taken
\* or still to come.
TakingInv ==
    /\ TypeOK
    /\ InsertsInv
    /\ WorkerInv
    /\ DirectInv
    /\ AheadInv
    /\ ApartInv
    /\ TakenWhenReturned

\* And its place is that of its own partition.
BufferIInv == TakingInv /\ PlacedInv
=============================================================================
