---------------------------- MODULE IngestProofs ----------------------------
(***************************************************************************)
(* The invariants of IngestInv are inductive, for every set of exporters,  *)
(* workload and number of faults.  From the first follows what is stored   *)
(* against what was answered (StoredAsAnswered); from the second, which    *)
(* conversion every stored row was made by, and so what may be in it       *)
(* (ContentNeedsCapture, LogsAsSent) and how it reads (FilesReadAsWritten). *)
(***************************************************************************)
EXTENDS IngestInv, FiniteSums, SequenceTheorems

Record7(c) ==
    c = [pc |-> c.pc, req |-> c.req, seen |-> c.seen, rows |-> c.rows, scores |-> c.scores,
         open |-> c.open, answer |-> c.answer]

(* Appending a record to the WAL adds it and nothing else. *)
LEMMA AppendRange ==
    ASSUME NEW S, NEW s \in Seq(S), NEW x
    PROVE  /\ Append(s, x) \in Seq(Range(Append(s, x)))
           /\ Range(Append(s, x)) = Range(s) \cup {x}
  <1>1. s \in Seq(S \cup {x})
    OBVIOUS
  <1>2. /\ Append(s, x) \in Seq(S \cup {x})
        /\ Len(Append(s, x)) = Len(s) + 1
        /\ Append(s, x)[Len(s) + 1] = x
        /\ \A i \in 1..Len(s) : Append(s, x)[i] = s[i]
    BY <1>1
  <1>3. /\ DOMAIN s = 1..Len(s) /\ Len(s) \in Nat
        /\ DOMAIN Append(s, x) = 1..(Len(s) + 1)
    BY <1>1, <1>2
  <1>4. Range(Append(s, x)) = Range(s) \cup {x}
    BY <1>2, <1>3 DEF Range
  <1>5. Append(s, x) \in Seq(Range(Append(s, x)))
    <2>1. PICK t : t = Append(s, x)
      OBVIOUS
    <2>2. t \in Seq(S \cup {x}) /\ DOMAIN t = 1..Len(t) /\ Len(t) \in Nat
      BY <2>1, <1>1, <1>2
    <2>3. \A i \in 1..Len(t) : t[i] \in Range(t)
      BY <2>2 DEF Range
    <2>4. t \in Seq(Range(t))
      BY <2>2, <2>3
    <2> QED
      BY <2>1, <2>4, Zenon
  <1> QED
    BY <1>4, <1>5

(* Setting a field of a client's record sets that field only. *)
LEMMA SetPc ==
    ASSUME NEW c, Record7(c), NEW x
    PROVE  /\ Record7([c EXCEPT !.pc = x])
           /\ [c EXCEPT !.pc = x].pc = x
           /\ [c EXCEPT !.pc = x].req = c.req
           /\ [c EXCEPT !.pc = x].seen = c.seen
           /\ [c EXCEPT !.pc = x].rows = c.rows
           /\ [c EXCEPT !.pc = x].scores = c.scores
           /\ [c EXCEPT !.pc = x].open = c.open
           /\ [c EXCEPT !.pc = x].answer = c.answer
  BY DEF Record7

(* What the sink inserts comes from the WAL, and every row of a batch whose *)
(* signal it got to and that parses is inserted.                           *)
LEMMA Inserted ==
    ASSUME NEW signals
    PROVE  /\ \A x \in RowsToInsert(signals) :
                 \E r \in Range(wal) :
                    /\ x.n = r.n /\ x.client = r.client /\ x.signal = r.signal /\ x.lacks = {}
                    /\ x.i \in DOMAIN Decoded(r) /\ x.row = Batch(r.signal, Decoded(r)[x.i])
           /\ \A r \in Range(wal) : \A i \in DOMAIN r.rows :
                 r.envelope = "batch" /\ r.signal \in signals /\ Parses(r.signal, r.rows[i]) =>
                     \E x \in RowsToInsert(signals) : x.client = r.client /\ x.signal = r.signal /\ x.i = i
  <1>1. ASSUME NEW x \in RowsToInsert(signals)
        PROVE  \E r \in Range(wal) :
                  /\ x.n = r.n /\ x.client = r.client /\ x.signal = r.signal /\ x.lacks = {}
                  /\ x.i \in DOMAIN Decoded(r) /\ x.row = Batch(r.signal, Decoded(r)[x.i])
    BY <1>1 DEF RowsToInsert
  <1>2. ASSUME NEW r \in Range(wal), NEW i \in DOMAIN r.rows, r.envelope = "batch",
               r.signal \in signals, Parses(r.signal, r.rows[i])
        PROVE  \E x \in RowsToInsert(signals) : x.client = r.client /\ x.signal = r.signal /\ x.i = i
    <2> DEFINE x == [n |-> r.n, client |-> r.client, signal |-> r.signal, i |-> i, lacks |-> {},
                     row |-> Batch(r.signal, Decoded(r)[i])]
    <2>1. Decoded(r) = r.rows
      BY <1>2 DEF Decoded
    <2> DEFINE Of(s) == {[n |-> s.n, client |-> s.client, signal |-> s.signal, i |-> k, lacks |-> {},
                          row |-> Batch(s.signal, Decoded(s)[k])] :
                            k \in {j \in DOMAIN Decoded(s) : s.signal \in signals /\ Parses(s.signal, Decoded(s)[j])}}
    <2>3. i \in {j \in DOMAIN Decoded(r) : r.signal \in signals /\ Parses(r.signal, Decoded(r)[j])}
      BY <1>2, <2>1
    <2>4. x \in Of(r)
      BY <2>3, Zenon
    <2>5. RowsToInsert(signals) = UNION {Of(s) : s \in Range(wal)}
      BY DEF RowsToInsert
    <2>2. x \in RowsToInsert(signals)
      BY <2>4, <2>5, ZenonT(40)
    <2> QED
      BY <2>2
  <1> QED
    BY <1>1, <1>2

-----------------------------------------------------------------------------
(* What a step may do to the record of an export.                          *)

Taken == {"OK", "200"}
Underway == {"sent", "screened", "accepted", "retry", "done"}

Still(c, d) ==
    d.pc = c.pc /\ d.req = c.req /\ d.rows = c.rows /\ d.scores = c.scores /\ d.open = c.open /\ d.answer = c.answer

Submitted(c, d) ==
    /\ c.pc = "idle" /\ d.pc = "sent"
    /\ d.req.signal \in {"traces", "metrics", "logs"}
    /\ d.open = c.open /\ d.answer = c.answer

\* It goes back, or on to a step before the rows are appended, and an append
\* that was made is counted.
GoesBack(c, d) ==
    /\ c.pc # "idle" /\ d.pc \in Underway /\ d.answer \notin Taken /\ d.req = c.req
    /\ d.open \in Nat /\ d.open >= c.open + (IF c.pc = "syncing" THEN 1 ELSE 0)

ScoresDone(c, d) ==
    /\ d.pc = "scored"
    /\ c.pc = "syncing scores" \/ (c.pc = "accepted" /\ c.scores = <<>>)
    /\ d.req = c.req /\ d.scores = c.scores /\ d.open = c.open /\ d.answer = c.answer

Completes(c, d) ==
    /\ d.pc = "done" /\ d.answer \in Taken
    /\ c.pc = "syncing" \/ (c.pc = "scored" /\ c.rows = <<>>)
    /\ d.req = c.req /\ d.rows = c.rows /\ d.scores = c.scores /\ d.open = c.open + 1

Advances(c, d) ==
    /\ Record7(d)
    /\ Still(c, d) \/ Submitted(c, d) \/ GoesBack(c, d) \/ ScoresDone(c, d) \/ Completes(c, d)

(* An advance keeps the types, and allows no fewer copies than before. *)
Due(c) == c.open + (IF c.pc = "syncing" THEN 1 ELSE 0)

LEMMA AdvanceTypes ==
    ASSUME NEW c, NEW d, Advances(c, d), c.open \in Nat,
           c.pc # "idle" => c.req.signal \in {"traces", "metrics", "logs"}
    PROVE  /\ Record7(d) /\ d.open \in Nat
           /\ d.pc # "idle" => d.req.signal \in {"traces", "metrics", "logs"}
           /\ c.pc # "idle" => Due(c) <= Due(d)
  <1>1. Record7(d)
    BY DEF Advances
  <1>2. CASE Still(c, d)
    BY <1>1, <1>2 DEF Still, Due
  <1>3. CASE Submitted(c, d)
    BY <1>1, <1>3 DEF Submitted, Due
  <1>4. CASE GoesBack(c, d)
    BY <1>1, <1>4 DEF GoesBack, Due, Underway
  <1>5. CASE ScoresDone(c, d)
    <2>1. /\ c.pc # "syncing" /\ d.pc # "syncing" /\ c.pc # "idle"
          /\ d.req = c.req /\ d.open = c.open
      BY <1>5, Zenon DEF ScoresDone
    <2> QED
      BY <1>1, <2>1 DEF Due
  <1>6. CASE Completes(c, d)
    BY <1>1, <1>6 DEF Completes, Due
  <1> QED
    BY <1>2, <1>3, <1>4, <1>5, <1>6 DEF Advances

(* The copies and the kept batches depend on the stores only. *)
LEMMA SameStores ==
    ASSUME UNCHANGED <<wal, parquet>>
    PROVE  /\ \A e, s : Copies(e, s)' = Copies(e, s)
           /\ \A e, s, rows : Kept(e, s, rows)' = Kept(e, s, rows)
  BY DEF Copies, Kept

(* A batch without rows is kept. *)
LEMMA NothingKept == \A e, s : Kept(e, s, <<>>)
  <1>1. DOMAIN <<>> = {}
    OBVIOUS
  <1> QED
    BY <1>1 DEF Kept

(* The copies of an export are finitely many. *)
LEMMA CopiesFinite ==
    ASSUME ShapeInv, NumberInv, NEW e \in Exporters, NEW s
    PROVE  /\ IsFiniteSet(Copies(e, s)) /\ Copies(e, s) \subseteq 1..appended
           /\ Cardinality(Copies(e, s)) \in Nat
  <1>1. Copies(e, s) \subseteq 1..appended
    BY DEF NumberInv, Copies
  <1>2. IsFiniteSet(1..appended)
    BY FS_Interval DEF ShapeInv
  <1> QED
    BY <1>1, <1>2, FS_Subset, FS_CardinalityType

(* Steps that leave the stores alone. *)
LEMMA ClientsAdvance ==
    ASSUME IngestIInv, UNCHANGED <<load, wal, parquet, appended>>, DOMAIN client' = Exporters,
           \A e \in Exporters : Advances(client[e], client'[e])
    PROVE  IngestIInv'
  <1> USE DEF IngestIInv
  <1>1. ShapeInv'
    <2>1. ASSUME NEW e \in Exporters
          PROVE  /\ Record7(client'[e]) /\ client'[e].open \in Nat
                 /\ client'[e].pc # "idle" => client'[e].req.signal \in {"traces", "metrics", "logs"}
      BY AdvanceTypes DEF ShapeInv
    <2> QED
      BY <2>1 DEF ShapeInv, Record7
  <1>2. ASSUME NEW e \in Exporters, client[e].pc # "idle"
        PROVE  client'[e].pc # "idle" /\ client'[e].req = client[e].req
    BY <1>2 DEF Advances, Still, Submitted, GoesBack, ScoresDone, Completes, Underway
  <1>3. NumberInv'
    BY <1>2 DEF NumberInv, ShapeInv
  <1>4. AnswerInv'
    BY ZenonT(40) DEF AnswerInv, Advances, Still, Submitted, GoesBack, ScoresDone, Completes, Underway, Taken
  <1>5. CopiesInv'
    <2> SUFFICES ASSUME NEW e \in Exporters, client'[e].pc # "idle"
                 PROVE  Cardinality(Copies(e, client'[e].req.signal)) <= Allowed(e)'
      BY SameStores DEF CopiesInv
    <2>1. CASE client[e].pc = "idle"
      <3>1. \A s : Copies(e, s) = {}
        BY <2>1 DEF Copies, NumberInv
      <3>2. Cardinality(Copies(e, client'[e].req.signal)) = 0
        BY <3>1, FS_EmptySet
      <3>3. Allowed(e)' \in Nat
        BY <1>1 DEF ShapeInv, Allowed
      <3> QED
        BY <3>2, <3>3
    <2>2. CASE client[e].pc # "idle"
      <3>1. client'[e].req = client[e].req
        BY <1>2, <2>2
      <3>2. Cardinality(Copies(e, client[e].req.signal)) <= Allowed(e)
        BY <2>2 DEF CopiesInv
      <3>3. Allowed(e) <= Allowed(e)' /\ Allowed(e) \in Nat /\ Allowed(e)' \in Nat
        <4>1. client[e].open \in Nat /\ client'[e].open \in Nat
          BY <1>1 DEF ShapeInv
        <4>2. Due(client[e]) <= Due(client'[e])
          BY <2>2, AdvanceTypes DEF ShapeInv
        <4> QED
          BY <4>1, <4>2 DEF Allowed, Due
      <3>4. Cardinality(Copies(e, client[e].req.signal)) \in Nat
        BY CopiesFinite
      <3> QED
        BY <3>1, <3>2, <3>3, <3>4
    <2> QED
      BY <2>1, <2>2
  <1>6. KeptInv'
    <2> SUFFICES ASSUME NEW e \in Exporters
                 PROVE  /\ client'[e].pc \in {"syncing scores", "scored", "syncing"} \/ client'[e].answer \in {"OK", "200"} =>
                              Kept(e, "scores", client'[e].scores)
                        /\ client'[e].pc = "syncing" \/ client'[e].answer \in {"OK", "200"} =>
                              Kept(e, client'[e].req.signal, client'[e].rows)
      <3>1. wal' = wal /\ parquet' = parquet
        OBVIOUS
      <3>2. ASSUME NEW e \in Exporters
            PROVE  /\ Kept(e, "scores", client[e].scores)' <=> Kept(e, "scores", client'[e].scores)
                   /\ Kept(e, client[e].req.signal, client[e].rows)' <=> Kept(e, client'[e].req.signal, client'[e].rows)
        BY <3>1 DEF Kept, IsBatch
      <3> QED
        BY <3>2, Zenon DEF KeptInv
    <2>1. CASE Still(client[e], client'[e])
      BY <2>1 DEF Still, KeptInv
    <2>2. CASE Submitted(client[e], client'[e]) \/ GoesBack(client[e], client'[e])
      BY <2>2 DEF Submitted, GoesBack, Underway, Taken, AnswerInv
    <2>3. CASE ScoresDone(client[e], client'[e])
      BY <2>3, NothingKept DEF ScoresDone, KeptInv, AnswerInv
    <2>4. CASE Completes(client[e], client'[e])
      BY <2>4, NothingKept DEF Completes, KeptInv
    <2> QED
      BY <2>1, <2>2, <2>3, <2>4 DEF Advances
  <1> QED
    BY <1>1, <1>3, <1>4, <1>5, <1>6

(* An append: the scores of an accepted request, or the rows of one whose  *)
(* scores are done.                                                        *)
Appends(e, signal, rows, next) ==
    /\ client[e].pc \in {"accepted", "scored"}
    /\ wal' = Append(wal, Record(e, signal, rows)) /\ appended' = appended + 1
    /\ client' = [client EXCEPT ![e].pc = next]
    /\ UNCHANGED <<load, parquet>>
    /\ \/ signal = "scores" /\ rows = client[e].scores /\ next = "syncing scores"
       \/ /\ client[e].pc = "scored" /\ next = "syncing"
          /\ signal = client[e].req.signal /\ rows = client[e].rows

LEMMA AppendStores ==
    ASSUME IngestIInv, NEW e \in Exporters, NEW signal, NEW rows, NEW next, Appends(e, signal, rows, next)
    PROVE  /\ wal' \in Seq(Range(wal'))
           /\ Range(wal') = Range(wal) \cup {Record(e, signal, rows)}
           /\ \A u, s : ~(u = e /\ s = signal) => Copies(u, s)' = Copies(u, s)
           /\ Copies(e, signal)' = Copies(e, signal) \cup {appended + 1}
           /\ \A u, s, q : Kept(u, s, q) => Kept(u, s, q)'
           /\ Kept(e, signal, rows)'
  <1> DEFINE r == Record(e, signal, rows)
  <1>1. r.n = appended + 1 /\ IsBatch(r, e, signal, rows)
    BY DEF Record, IsBatch
  <1>2. wal \in Seq(Range(wal)) /\ wal' = Append(wal, r) /\ parquet' = parquet
    BY DEF IngestIInv, ShapeInv, Appends
  <1> HIDE DEF r
  <1>3. wal' \in Seq(Range(wal')) /\ Range(wal') = Range(wal) \cup {r}
    BY <1>2, AppendRange
  <1>4. r.client = e /\ r.signal = signal
    BY <1>1 DEF IsBatch
  <1>5. \A u, s : ~(u = e /\ s = signal) => Copies(u, s)' = Copies(u, s)
    BY <1>2, <1>3, <1>4 DEF Copies
  <1>6. Copies(e, signal)' = Copies(e, signal) \cup {r.n}
    BY <1>2, <1>3, <1>4 DEF Copies
  <1>7. \A u, s, q : Kept(u, s, q) => Kept(u, s, q)'
    BY <1>2, <1>3 DEF Kept, IsBatch
  <1>8. Kept(e, signal, rows)'
    BY <1>1, <1>3 DEF Kept, IsBatch
  <1> QED
    BY <1>1, <1>3, <1>5, <1>6, <1>7, <1>8 DEF r

(* One more element adds at most one. *)
LEMMA OneMore ==
    ASSUME NEW S, IsFiniteSet(S), NEW x
    PROVE  Cardinality(S \cup {x}) \in Nat /\ Cardinality(S \cup {x}) <= Cardinality(S) + 1
  <1>1. Cardinality(S) \in Nat
    BY FS_CardinalityType
  <1>2. Cardinality(S \cup {x}) = IF x \in S THEN Cardinality(S) ELSE Cardinality(S) + 1
    BY FS_AddElement
  <1> QED
    BY <1>1, <1>2

LEMMA AppendStep ==
    ASSUME IngestIInv, NEW e \in Exporters, NEW signal, NEW rows, NEW next, Appends(e, signal, rows, next)
    PROVE  IngestIInv'
  <1> DEFINE r == Record(e, signal, rows)
  <1>1. /\ Record7(client[e]) /\ client[e].open \in Nat /\ appended \in Nat /\ DOMAIN client = Exporters
        /\ client[e].pc \in {"accepted", "scored"} /\ client[e].req.signal \in {"traces", "metrics", "logs"}
    BY DEF IngestIInv, ShapeInv, Record7, Appends
  <1>2. /\ DOMAIN client' = Exporters
        /\ \A u \in Exporters : u # e => client'[u] = client[u]
        /\ Record7(client'[e]) /\ client'[e].pc = next /\ client'[e].req = client[e].req
        /\ client'[e].rows = client[e].rows /\ client'[e].scores = client[e].scores
        /\ client'[e].open = client[e].open /\ client'[e].answer = client[e].answer
    <2>1. client' = [client EXCEPT ![e] = [client[e] EXCEPT !.pc = next]]
      BY <1>1 DEF Appends
    <2>2. client'[e] = [client[e] EXCEPT !.pc = next] /\ DOMAIN client' = Exporters
          /\ \A u \in Exporters : u # e => client'[u] = client[u]
      BY <2>1, <1>1
    <2> QED
      BY <2>2, <1>1, SetPc
  <1>3. next \in {"syncing scores", "syncing"} /\ next # "idle" /\ appended' = appended + 1 /\ load' = load
    BY DEF Appends
  <1>11. appended \in Nat /\ appended' = appended + 1
    BY DEF Appends, IngestIInv, ShapeInv
  <1>12. appended' \in Nat /\ 1..appended \subseteq 1..appended' /\ appended + 1 \in 1..appended'
    BY <1>11
  <1>4. /\ wal' \in Seq(Range(wal'))
        /\ Range(wal') = Range(wal) \cup {r} /\ parquet' = parquet
        /\ r.n = appended + 1 /\ r.client = e
    BY AppendStores DEF Appends, Record
  <1> HIDE DEF r
  <1>5. ShapeInv'
    <2>1. \A u \in Exporters :
             /\ Record7(client'[u]) /\ client'[u].open \in Nat
             /\ client'[u].pc # "idle" => client'[u].req.signal \in {"traces", "metrics", "logs"}
      BY <1>1, <1>2 DEF IngestIInv, ShapeInv, Record7
    <2> QED
      BY <1>2, <1>4, <1>12, <2>1 DEF ShapeInv, Record7
  <1>6. NumberInv'
    <2>1. \A u \in Exporters : client[u].pc # "idle" => client'[u].pc # "idle"
      BY <1>2, <1>3
    <2> QED
      BY <1>2, <1>3, <1>4, <1>12, <2>1 DEF IngestIInv, NumberInv
  <1>7. client[e].answer \notin {"OK", "200"}
    BY <1>1 DEF IngestIInv, AnswerInv
  <1>8. AnswerInv'
    BY <1>2, <1>7 DEF IngestIInv, AnswerInv
  <1>9. CopiesInv'
    <2> SUFFICES ASSUME NEW u \in Exporters, client'[u].pc # "idle"
                 PROVE  (Cardinality(Copies(u, client[u].req.signal)) <= Allowed(u))'
      BY DEF CopiesInv
    <2>1. CASE u # e
      <3>1. client'[u] = client[u]
        BY <2>1, <1>2
      <3>2. Cardinality(Copies(u, client[u].req.signal)) <= Allowed(u)
        BY <3>1 DEF IngestIInv, CopiesInv
      <3>3. Copies(u, client[u].req.signal)' = Copies(u, client[u].req.signal)
        BY <2>1, <3>1, AppendStores
      <3>4. Allowed(u)' = Allowed(u)
        BY <3>1 DEF Allowed
      <3> QED
        BY <3>2, <3>3, <3>4
    <2>2. CASE u = e /\ next = "syncing scores"
      <3>1. client[e].req.signal # signal
        BY <2>2, <1>1 DEF Appends
      <3>2. Cardinality(Copies(e, client[e].req.signal)) <= Allowed(e)
        BY <1>1 DEF IngestIInv, CopiesInv
      <3>3. Copies(e, client[e].req.signal)' = Copies(e, client[e].req.signal)
        BY <1>2, <3>1, AppendStores
      <3>4. Allowed(e)' = Allowed(e)
        BY <1>1, <1>2, <2>2 DEF Allowed
      <3> QED
        BY <2>2, <3>2, <3>3, <3>4
    <2>3. CASE u = e /\ next = "syncing"
      <3>1. client[e].req.signal = signal
        BY <2>3 DEF Appends
      <3>2. Cardinality(Copies(e, signal)) <= Allowed(e)
        BY <1>1, <3>1 DEF IngestIInv, CopiesInv
      <3>3. Copies(e, client[e].req.signal)' = Copies(e, signal) \cup {appended + 1}
        BY <1>2, <3>1, AppendStores
      <3>4. Allowed(e)' = Allowed(e) + 1 /\ Allowed(e) \in Nat
        BY <1>1, <1>2, <2>3 DEF Allowed
      <3>5. IsFiniteSet(Copies(e, signal)) /\ Cardinality(Copies(e, signal)) \in Nat
        BY CopiesFinite DEF IngestIInv
      <3>6. /\ Cardinality(Copies(e, signal) \cup {appended + 1}) \in Nat
            /\ Cardinality(Copies(e, signal) \cup {appended + 1}) <= Cardinality(Copies(e, signal)) + 1
        BY <3>5, OneMore
      <3>7. Cardinality(Copies(e, signal) \cup {appended + 1}) <= Allowed(e)'
        BY <3>2, <3>4, <3>5, <3>6
      <3> QED
        BY <2>3, <3>3, <3>7
    <2> QED
      BY <1>3, <2>1, <2>2, <2>3
  <1>10. KeptInv'
    <2> SUFFICES ASSUME NEW u \in Exporters
                 PROVE  (/\ client[u].pc \in {"syncing scores", "scored", "syncing"} \/ client[u].answer \in {"OK", "200"} =>
                              Kept(u, "scores", client[u].scores)
                         /\ client[u].pc = "syncing" \/ client[u].answer \in {"OK", "200"} =>
                              Kept(u, client[u].req.signal, client[u].rows))'
      BY DEF KeptInv
    <2>1. CASE u # e
      <3>1. client'[u] = client[u]
        BY <2>1, <1>2
      <3> QED
        BY <3>1, AppendStores DEF IngestIInv, KeptInv
    <2>2. CASE u = e /\ next = "syncing scores"
      <3>1. signal = "scores" /\ rows = client[e].scores
        BY <2>2 DEF Appends
      <3> QED
        BY <2>2, <1>2, <1>7, <3>1, AppendStores
    <2>3. CASE u = e /\ next = "syncing"
      <3>1. signal = client[e].req.signal /\ rows = client[e].rows /\ client[e].pc = "scored"
        BY <2>3 DEF Appends
      <3>2. Kept(e, "scores", client[e].scores)
        BY <3>1 DEF IngestIInv, KeptInv
      <3> QED
        BY <2>3, <1>2, <1>7, <3>1, <3>2, AppendStores
    <2> QED
      BY <1>3, <2>1, <2>2, <2>3
  <1> QED
    BY <1>3, <1>5, <1>6, <1>8, <1>9, <1>10 DEF IngestIInv

-----------------------------------------------------------------------------
(* Flushes.                                                                *)

(* The sink moves rows from the WAL to Parquet: it makes no new copy of an *)
(* export, and a batch it has taken from the WAL is in Parquet.            *)
LEMMA FlushStep ==
    ASSUME IngestIInv, NEW signals, UNCHANGED <<load, client, appended>>,
           parquet' = parquet \cup RowsToInsert(signals),
           \/ wal' = wal
           \/ wal' = <<>> /\ {"traces", "metrics", "logs", "scores"} \subseteq signals
    PROVE  IngestIInv'
  <1>1. wal' \in Seq(Range(wal')) /\ Range(wal') \subseteq Range(wal)
    <2>1. CASE wal' = wal
      BY <2>1 DEF IngestIInv, ShapeInv
    <2>2. CASE wal' = <<>>
      <3>1. Range(wal') = {}
        BY <2>2 DEF Range
      <3> QED
        BY <2>2, <3>1
    <2> QED
      BY <2>1, <2>2
  <1>2. client' = client /\ load' = load /\ appended' = appended
    OBVIOUS
  <1>3. ShapeInv'
    BY <1>1, <1>2 DEF IngestIInv, ShapeInv
  <1>4. NumberInv'
    BY <1>1, <1>2, Inserted DEF IngestIInv, NumberInv
  <1>5. AnswerInv'
    BY <1>2 DEF IngestIInv, AnswerInv
  <1>6. \A u, s : Copies(u, s)' \subseteq Copies(u, s)
    BY <1>1, Inserted DEF Copies
  <1>7. CopiesInv'
    <2> SUFFICES ASSUME NEW u \in Exporters, client[u].pc # "idle"
                 PROVE  (Cardinality(Copies(u, client[u].req.signal)) <= Allowed(u))'
      BY <1>2 DEF CopiesInv
    <2>1. PICK C : C = Copies(u, client[u].req.signal)
      OBVIOUS
    <2>2. PICK D : D = Copies(u, client[u].req.signal)'
      OBVIOUS
    <2>3. D \subseteq C
      <3>1. Copies(u, client[u].req.signal)' \subseteq Copies(u, client[u].req.signal)
        BY <1>1, <1>2, Inserted DEF Copies
      <3> QED
        BY <2>1, <2>2, <3>1
    <2>4. IsFiniteSet(C) /\ Cardinality(C) \in Nat
      BY <2>1, CopiesFinite DEF IngestIInv
    <2>5. Cardinality(D) \in Nat /\ Cardinality(D) <= Cardinality(C)
      BY <2>3, <2>4, FS_Subset, FS_CardinalityType
    <2>6. Allowed(u)' = Allowed(u) /\ Allowed(u) \in Nat
      BY <1>2 DEF Allowed, IngestIInv, ShapeInv
    <2>7. Cardinality(C) <= Allowed(u)
      BY <2>1 DEF IngestIInv, CopiesInv
    <2>8. Cardinality(D) <= Allowed(u)'
      BY <2>4, <2>5, <2>6, <2>7
    <2> QED
      BY <2>2, <2>8
  <1>8. ASSUME NEW u, NEW s \in {"traces", "metrics", "logs", "scores"}, NEW q, Kept(u, s, q)
        PROVE  Kept(u, s, q)'
    <2>1. CASE \A i \in DOMAIN q : Parses(s, q[i]) =>
                  \E p \in parquet : p.client = u /\ p.signal = s /\ p.i = i
      BY <2>1 DEF Kept
    <2>2. CASE \E r \in Range(wal) : IsBatch(r, u, s, q)
      <3>1. PICK r \in Range(wal) : IsBatch(r, u, s, q)
        BY <2>2
      <3>2. CASE wal' = wal
        BY <3>1, <3>2 DEF Kept, IsBatch
      <3>3. CASE {"traces", "metrics", "logs", "scores"} \subseteq signals
        <4>1. /\ r.client = u /\ r.signal = s /\ r.rows = q /\ r.envelope = "batch" /\ s \in signals
          BY <3>1, <3>3 DEF IsBatch
        <4>2. ASSUME NEW i \in DOMAIN q, Parses(s, q[i])
              PROVE  \E p \in parquet' : p.client = u /\ p.signal = s /\ p.i = i
          BY <3>1, <4>1, <4>2, Inserted
        <4> QED
          BY <4>2 DEF Kept
      <3> QED
        BY <3>2, <3>3
    <2> QED
      BY <1>8, <2>1, <2>2 DEF Kept
  <1>9. KeptInv'
    <2>1. \A u \in Exporters : client[u].pc # "idle" => client[u].req.signal \in {"traces", "metrics", "logs"}
      BY DEF IngestIInv, ShapeInv
    <2> SUFFICES ASSUME NEW u \in Exporters
                 PROVE  (/\ client[u].pc \in {"syncing scores", "scored", "syncing"} \/ client[u].answer \in {"OK", "200"} =>
                              Kept(u, "scores", client[u].scores)
                         /\ client[u].pc = "syncing" \/ client[u].answer \in {"OK", "200"} =>
                              Kept(u, client[u].req.signal, client[u].rows))'
      BY DEF KeptInv
    <2>2. client[u].pc = "syncing" \/ client[u].answer \in {"OK", "200"} => client[u].pc # "idle"
      BY DEF IngestIInv, AnswerInv
    <2> QED
      BY <1>2, <1>8, <2>1, <2>2 DEF IngestIInv, KeptInv
  <1> QED
    BY <1>2, <1>3, <1>4, <1>5, <1>7, <1>9 DEF IngestIInv

-----------------------------------------------------------------------------
(* Answers.                                                                *)

(* Only OK is told as OK, and an internal error as one. *)
LEMMA Codes ==
    ASSUME NEW req, NEW code, NEW info
    PROVE  LET told == AnswerTo(req, Status(code, info))
           IN  /\ code \notin Taken => told.code \notin Taken
               /\ code = "INTERNAL" => told.code \in {"INTERNAL", "500"}
               /\ code = "OK" => told.code \in Taken
  BY DEF AnswerTo, Status, HttpCode, Taken

(* Setting the fields an answer sets. *)
With(c, x, y, z) == [c EXCEPT !.pc = x, !.answer = y, !.open = z]

LEMMA SetAnswer ==
    ASSUME NEW c, Record7(c), NEW x, NEW y, NEW z, NEW d, d = With(c, x, y, z)
    PROVE  /\ Record7(d) /\ d.req = c.req /\ d.seen = c.seen /\ d.rows = c.rows /\ d.scores = c.scores
           /\ d.pc = x /\ d.answer = y /\ d.open = z
  <1>1. PICK c1 : c1 = [c EXCEPT !.pc = x]
    OBVIOUS
  <1>2. Record7(c1) /\ c1.pc = x /\ c1.req = c.req /\ c1.seen = c.seen /\ c1.rows = c.rows /\ c1.scores = c.scores
    BY <1>1, SetPc
  <1>3. PICK c2 : c2 = [c1 EXCEPT !.answer = y]
    OBVIOUS
  <1>4. /\ Record7(c2) /\ c2.pc = x /\ c2.answer = y /\ c2.req = c.req /\ c2.seen = c.seen
        /\ c2.rows = c.rows /\ c2.scores = c.scores
    BY <1>2, <1>3 DEF Record7
  <1>5. d = [c2 EXCEPT !.open = z]
    BY <1>1, <1>3, Zenon DEF With
  <1> QED
    BY <1>4, <1>5 DEF Record7

(* What an answer makes of the record of an export. *)
LEMMA AnsweredFields ==
    ASSUME NEW c, Record7(c), c.open \in Nat, NEW status
    PROVE  LET d == Answered(c, status)
               told == AnswerTo(c.req, status)
           IN  /\ Record7(d) /\ d.req = c.req /\ d.seen = c.seen /\ d.rows = c.rows /\ d.scores = c.scores
               /\ d.answer = told.code /\ d.pc = IF Retryable(told) THEN "retry" ELSE "done"
               /\ d.open = IF told.code \in Accepting THEN c.open + 1 ELSE c.open
  <1> DEFINE told == AnswerTo(c.req, status)
  <1>1. PICK x : x = IF Retryable(told) THEN "retry" ELSE "done"
    OBVIOUS
  <1>2. PICK z : z = IF told.code \in Accepting THEN c.open + 1 ELSE c.open
    OBVIOUS
  <1>3. PICK y : y = told.code
    OBVIOUS
  <1>4. Answered(c, status) = With(c, x, y, z)
    <2>1. Answered(c, status) = [c EXCEPT !.pc = IF Retryable(told) THEN "retry" ELSE "done", !.answer = told.code,
                                          !.open = IF told.code \in Accepting THEN c.open + 1 ELSE c.open]
      BY DEF Answered
    <2> HIDE DEF told
    <2> QED
      BY <1>1, <1>2, <1>3, <2>1, Zenon DEF With
  <1> HIDE DEF told
  <1> QED
    <2>1. PICK d : d = Answered(c, status)
      OBVIOUS
    <2>2. /\ Record7(d) /\ d.req = c.req /\ d.seen = c.seen /\ d.rows = c.rows /\ d.scores = c.scores
          /\ d.pc = x /\ d.answer = y /\ d.open = z
      BY <1>4, <2>1, SetAnswer
    <2> QED
      BY <1>1, <1>2, <1>3, <2>1, <2>2, Zenon DEF told

(* A refusal sends the export back; an internal error leaves it open. *)
LEMMA Refused ==
    ASSUME NEW c, Record7(c), c.open \in Nat, c.pc # "idle", NEW code, NEW info, code \notin Taken,
           c.pc = "syncing" => code = "INTERNAL"
    PROVE  Advances(c, Answered(c, Status(code, info)))
  <1> DEFINE d == Answered(c, Status(code, info))
             told == AnswerTo(c.req, Status(code, info))
  <1>1. /\ Record7(d) /\ d.req = c.req /\ d.answer = told.code /\ d.pc \in {"retry", "done"}
        /\ d.open = IF told.code \in Accepting THEN c.open + 1 ELSE c.open
    BY AnsweredFields
  <1>2. told.code \notin Taken /\ (code = "INTERNAL" => told.code \in {"INTERNAL", "500"})
    BY Codes
  <1> HIDE DEF d, told
  <1>3. GoesBack(c, d)
    BY <1>1, <1>2 DEF GoesBack, Underway, Accepting
  <1> QED
    BY <1>1, <1>3 DEF Advances, d

(* OK completes an export. *)
LEMMA AnsweredOk ==
    ASSUME NEW c, Record7(c), c.open \in Nat, c.pc = "syncing" \/ (c.pc = "scored" /\ c.rows = <<>>)
    PROVE  Advances(c, Answered(c, Status("OK", FALSE)))
  <1> DEFINE d == Answered(c, Status("OK", FALSE))
             told == AnswerTo(c.req, Status("OK", FALSE))
  <1>1. /\ Record7(d) /\ d.req = c.req /\ d.rows = c.rows /\ d.scores = c.scores
        /\ d.answer = told.code /\ d.pc = IF Retryable(told) THEN "retry" ELSE "done"
        /\ d.open = IF told.code \in Accepting THEN c.open + 1 ELSE c.open
    BY AnsweredFields
  <1>2. told.code \in Taken
    BY Codes
  <1>3. ~Retryable(told)
    BY <1>2 DEF Retryable, Taken
  <1> HIDE DEF d, told
  <1>4. Completes(c, d)
    BY <1>1, <1>2, <1>3 DEF Completes, Taken, Accepting
  <1> QED
    BY <1>1, <1>4 DEF Advances, d

-----------------------------------------------------------------------------
(* The steps.                                                              *)

(* What is known of every export. *)
LEMMA ClientShape ==
    ASSUME IngestIInv, NEW e \in Exporters
    PROVE  /\ Record7(client[e]) /\ client[e].open \in Nat /\ DOMAIN client = Exporters
           /\ client[e].pc # "done" => client[e].answer \notin Taken
  BY DEF IngestIInv, ShapeInv, AnswerInv, Record7, Taken

(* A step of one export that leaves the stores alone. *)
LEMMA OneAdvances ==
    ASSUME IngestIInv, NEW e \in Exporters, NEW d, Advances(client[e], d),
           client' = [client EXCEPT ![e] = d], UNCHANGED <<load, wal, parquet, appended>>
    PROVE  IngestIInv'
  <1>1. DOMAIN client' = Exporters /\ client'[e] = d /\ \A u \in Exporters : u # e => client'[u] = client[u]
    BY ClientShape
  <1>2. \A u \in Exporters : Advances(client[u], client[u])
    BY ClientShape DEF Advances, Still
  <1> QED
    BY <1>1, <1>2, ClientsAdvance

(* Moving on before the rows are appended. *)
LEMMA MovesOn ==
    ASSUME NEW c, Record7(c), c.open \in Nat, c.pc \notin {"idle", "syncing"}, c.answer \notin Taken,
           NEW x \in Underway
    PROVE  Advances(c, [c EXCEPT !.pc = x])
  <1>1. PICK d : d = [c EXCEPT !.pc = x]
    OBVIOUS
  <1>2. Record7(d) /\ d.pc = x /\ d.req = c.req /\ d.open = c.open /\ d.answer = c.answer
    BY <1>1, SetPc
  <1>3. GoesBack(c, d)
    BY <1>2 DEF GoesBack
  <1> QED
    BY <1>1, <1>2, <1>3 DEF Advances

LEMMA StepSubmit ==
    ASSUME IngestIInv, NEW e \in Exporters, Submit(e) PROVE IngestIInv'
  <1>1. PICK req \in load.requests :
           client' = [client EXCEPT ![e].pc = "sent", ![e].req = req, ![e].seen = {settings.capture}]
    BY DEF Submit
  <1>2. PICK c : c = client[e]
    OBVIOUS
  <1>3. Record7(c) /\ c.open \in Nat /\ DOMAIN client = Exporters /\ c.pc = "idle"
    BY <1>2, ClientShape DEF Submit
  <1>4. PICK d : d = [c EXCEPT !.pc = "sent", !.req = req, !.seen = {settings.capture}]
    OBVIOUS
  <1>5. Record7(d) /\ d.pc = "sent" /\ d.req = req /\ d.open = c.open /\ d.answer = c.answer
    <2>1. PICK x : x = [c EXCEPT !.pc = "sent"]
      OBVIOUS
    <2>2. Record7(x) /\ x.pc = "sent" /\ x.open = c.open /\ x.answer = c.answer
      BY <1>3, <2>1, SetPc
    <2>3. PICK y : y = [x EXCEPT !.req = req]
      OBVIOUS
    <2>4. Record7(y) /\ y.pc = "sent" /\ y.req = req /\ y.open = c.open /\ y.answer = c.answer
      BY <2>2, <2>3 DEF Record7
    <2>5. d = [y EXCEPT !.seen = {settings.capture}]
      BY <1>4, <2>1, <2>3, Zenon
    <2> QED
      BY <2>4, <2>5 DEF Record7
  <1>6. client' = [client EXCEPT ![e] = d]
    BY <1>1, <1>2, <1>3, <1>4
  <1>7. req.signal \in {"traces", "metrics", "logs"}
    BY LoadsAssumption DEF IngestIInv
  <1>8. Advances(c, d)
    BY <1>3, <1>5, <1>7 DEF Advances, Submitted
  <1> QED
    BY <1>2, <1>6, <1>8, OneAdvances DEF Submit

LEMMA StepRetry ==
    ASSUME IngestIInv, NEW e \in Exporters, Retry(e) PROVE IngestIInv'
  <1>1. /\ Record7(client[e]) /\ client[e].open \in Nat /\ client[e].pc = "retry" /\ client[e].answer \notin Taken
        /\ DOMAIN client = Exporters
    BY ClientShape DEF Retry
  <1>2. Advances(client[e], [client[e] EXCEPT !.pc = "sent"])
    BY <1>1, MovesOn DEF Underway
  <1>3. client' = [client EXCEPT ![e] = [client[e] EXCEPT !.pc = "sent"]]
    BY <1>1 DEF Retry
  <1> QED
    BY <1>2, <1>3, OneAdvances DEF Retry

LEMMA StepUndrained ==
    ASSUME IngestIInv, NEW e \in Exporters, Undrained(e) PROVE IngestIInv'
  <1>1. PICK c : c = client[e]
    OBVIOUS
  <1>2. Record7(c) /\ c.open \in Nat /\ c.pc = "sent" /\ DOMAIN client = Exporters
    BY <1>1, ClientShape DEF Undrained
  <1>3. PICK x : x = [c EXCEPT !.pc = "retry"]
    OBVIOUS
  <1>4. PICK d : d = [x EXCEPT !.answer = "reset"]
    OBVIOUS
  <1>5. Record7(x) /\ x.pc = "retry" /\ x.req = c.req /\ x.open = c.open
    BY <1>2, <1>3, SetPc
  <1>6. Record7(d) /\ d.pc = "retry" /\ d.req = c.req /\ d.open = c.open /\ d.answer = "reset"
    BY <1>4, <1>5 DEF Record7
  <1>7. GoesBack(c, d)
    BY <1>2, <1>6 DEF GoesBack, Underway, Taken
  <1>8. client' = [client EXCEPT ![e] = d]
    BY <1>1, <1>2, <1>3, <1>4 DEF Undrained
  <1> QED
    BY <1>1, <1>6, <1>7, <1>8, OneAdvances DEF Undrained, Advances, stored

LEMMA StepFails ==
    ASSUME IngestIInv, NEW e \in Exporters, SettingsFail(e) \/ FsyncDropped(e) PROVE IngestIInv'
  <1>1. /\ Record7(client[e]) /\ client[e].open \in Nat /\ client[e].pc # "idle"
    BY ClientShape DEF SettingsFail, FsyncDropped
  <1>2. Advances(client[e], Answered(client[e], Status("INTERNAL", FALSE)))
    BY <1>1, Refused DEF Taken
  <1>3. client' = [client EXCEPT ![e] = Answered(client[e], Status("INTERNAL", FALSE))]
    BY DEF SettingsFail, FsyncDropped
  <1> QED
    BY <1>2, <1>3, OneAdvances DEF SettingsFail, FsyncDropped, stored

(* A handler dropped at its deadline leaves its rows counted if they are    *)
(* appended.                                                               *)
LEMMA TimedOutFields ==
    ASSUME NEW c, Record7(c), c.open \in Nat
    PROVE  \E d : /\ d = TimedOut(c) /\ Record7(d)
                  /\ d.req = c.req /\ d.seen = c.seen /\ d.pc = "retry" /\ d.answer \notin Taken
                  /\ d.open = IF c.pc = "syncing" THEN c.open + 1 ELSE c.open
  <1>1. PICK y : y = IF c.req.transport = "grpc" THEN "DEADLINE_EXCEEDED" ELSE "504"
    OBVIOUS
  <1>2. PICK z : z = IF c.pc = "syncing" THEN c.open + 1 ELSE c.open
    OBVIOUS
  <1>3. TimedOut(c) = With(c, "retry", y, z)
    BY <1>1, <1>2, Zenon DEF TimedOut, With
  <1>4. PICK d : d = TimedOut(c)
    OBVIOUS
  <1>5. Record7(d) /\ d.req = c.req /\ d.seen = c.seen /\ d.pc = "retry" /\ d.answer = y /\ d.open = z
    BY <1>3, <1>4, SetAnswer
  <1>6. y \notin Taken
    BY <1>1 DEF Taken
  <1> QED
    BY <1>2, <1>4, <1>5, <1>6

LEMMA StepDeadline ==
    ASSUME IngestIInv, NEW e \in Exporters, Deadline(e) PROVE IngestIInv'
  <1>1. Record7(client[e]) /\ client[e].open \in Nat /\ client[e].pc \notin {"idle", "done"}
    BY ClientShape DEF Deadline
  <1>2. PICK d : /\ d = TimedOut(client[e]) /\ Record7(d)
                 /\ d.req = client[e].req /\ d.pc = "retry" /\ d.answer \notin Taken
                 /\ d.open = IF client[e].pc = "syncing" THEN client[e].open + 1 ELSE client[e].open
    BY <1>1, TimedOutFields
  <1>3. GoesBack(client[e], d)
    BY <1>1, <1>2 DEF GoesBack, Underway
  <1>4. client' = [client EXCEPT ![e] = d]
    BY <1>2 DEF Deadline
  <1> QED
    BY <1>2, <1>3, <1>4, OneAdvances DEF Advances, Deadline, stored

LEMMA StepDurable ==
    ASSUME IngestIInv, NEW e \in Exporters, Durable(e) PROVE IngestIInv'
  <1>1. /\ Record7(client[e]) /\ client[e].open \in Nat /\ client[e].pc = "syncing"
    BY ClientShape DEF Durable
  <1>2. Advances(client[e], Answered(client[e], Status("OK", FALSE)))
    BY <1>1, AnsweredOk
  <1>3. client' = [client EXCEPT ![e] = Answered(client[e], Status("OK", FALSE))]
    BY DEF Durable
  <1> QED
    BY <1>2, <1>3, OneAdvances DEF Durable, stored

(* The scores are done: durable, or there were none. *)
LEMMA ScoresAdvance ==
    ASSUME NEW c, Record7(c), c.open \in Nat,
           c.pc = "syncing scores" \/ (c.pc = "accepted" /\ c.scores = <<>>)
    PROVE  Advances(c, [c EXCEPT !.pc = "scored"])
  <1>1. PICK d : d = [c EXCEPT !.pc = "scored"]
    OBVIOUS
  <1>2. Record7(d) /\ d.pc = "scored" /\ d.req = c.req /\ d.scores = c.scores /\ d.open = c.open /\ d.answer = c.answer
    BY <1>1, SetPc
  <1> QED
    BY <1>1, <1>2, Zenon DEF Advances, ScoresDone

LEMMA StepScoresDurable ==
    ASSUME IngestIInv, NEW e \in Exporters, ScoresDurable(e) PROVE IngestIInv'
  <1>1. Record7(client[e]) /\ client[e].open \in Nat /\ client[e].pc = "syncing scores" /\ DOMAIN client = Exporters
    BY ClientShape DEF ScoresDurable
  <1>2. Advances(client[e], [client[e] EXCEPT !.pc = "scored"])
    BY <1>1, ScoresAdvance
  <1>3. client' = [client EXCEPT ![e] = [client[e] EXCEPT !.pc = "scored"]]
    BY <1>1 DEF ScoresDurable
  <1> QED
    BY <1>2, <1>3, OneAdvances DEF ScoresDurable, stored

(* An append that succeeds or is refused. *)
LEMMA StepAppend ==
    ASSUME IngestIInv, NEW e \in Exporters, NEW signal, NEW rows, NEW next,
           AppendRecord(e, signal, rows, next), UNCHANGED <<load, parquet>>,
           client[e].pc \in {"accepted", "scored"},
           \/ signal = "scores" /\ rows = client[e].scores /\ next = "syncing scores"
           \/ /\ client[e].pc = "scored" /\ next = "syncing"
              /\ signal = client[e].req.signal /\ rows = client[e].rows
    PROVE  IngestIInv'
  <1>1. CASE /\ wal' = Append(wal, Record(e, signal, rows)) /\ appended' = appended + 1
             /\ client' = [client EXCEPT ![e].pc = next]
    BY <1>1, AppendStep DEF Appends
  <1>2. CASE /\ \E error \in AppendErrors : client' = [client EXCEPT ![e] = Answered(client[e], error)]
             /\ UNCHANGED <<wal, appended>>
    <2>1. PICK error \in AppendErrors : client' = [client EXCEPT ![e] = Answered(client[e], error)]
      BY <1>2
    <2>2. Record7(client[e]) /\ client[e].open \in Nat /\ client[e].pc \notin {"idle", "syncing"}
      BY ClientShape
    <2>3. Advances(client[e], Answered(client[e], error))
      BY <2>2, Refused DEF AppendErrors, Unavailable, Taken
    <2> QED
      BY <1>2, <2>1, <2>3, OneAdvances
  <1> QED
    BY <1>1, <1>2 DEF AppendRecord

LEMMA StepInsertScores ==
    ASSUME IngestIInv, NEW e \in Exporters, InsertScores(e) PROVE IngestIInv'
  <1>1. Record7(client[e]) /\ client[e].open \in Nat /\ client[e].pc = "accepted" /\ DOMAIN client = Exporters
    BY ClientShape DEF InsertScores
  <1>2. CASE client[e].scores = <<>>
    <2>1. Advances(client[e], [client[e] EXCEPT !.pc = "scored"])
      BY <1>1, <1>2, ScoresAdvance
    <2>2. client' = [client EXCEPT ![e] = [client[e] EXCEPT !.pc = "scored"]]
      BY <1>1, <1>2 DEF InsertScores
    <2> QED
      BY <1>2, <2>1, <2>2, OneAdvances DEF InsertScores
  <1>3. CASE client[e].scores # <<>>
    <2>1. AppendRecord(e, "scores", client[e].scores, "syncing scores") /\ UNCHANGED <<load, parquet>>
      BY <1>3 DEF InsertScores
    <2> QED
      BY <1>1, <2>1, StepAppend
  <1> QED
    BY <1>2, <1>3

LEMMA StepInsertRows ==
    ASSUME IngestIInv, NEW e \in Exporters, InsertRows(e) PROVE IngestIInv'
  <1>1. Record7(client[e]) /\ client[e].open \in Nat /\ client[e].pc = "scored" /\ DOMAIN client = Exporters
    BY ClientShape DEF InsertRows
  <1>2. CASE client[e].rows = <<>>
    <2>1. Advances(client[e], Answered(client[e], Status("OK", FALSE)))
      BY <1>1, <1>2, AnsweredOk
    <2>2. client' = [client EXCEPT ![e] = Answered(client[e], Status("OK", FALSE))]
      BY <1>2 DEF InsertRows
    <2> QED
      BY <1>2, <2>1, <2>2, OneAdvances DEF InsertRows
  <1>3. CASE client[e].rows # <<>>
    <2>1. AppendRecord(e, client[e].req.signal, client[e].rows, "syncing") /\ UNCHANGED <<load, parquet>>
      BY <1>3 DEF InsertRows
    <2> QED
      BY <1>1, <2>1, StepAppend
  <1> QED
    BY <1>2, <1>3

(* The checks before the settings refuse; none of them accepts. *)
RefusalCodes == {"UNAUTHENTICATED", "UNAVAILABLE", "RESOURCE_EXHAUSTED", "415", "408", "413", "400"}
Refusals == [code : RefusalCodes, info : BOOLEAN]
Check == BOOLEAN \X Refusals

LEMMA OneCheck ==
    ASSUME NEW b \in BOOLEAN, NEW code \in RefusalCodes, NEW info \in BOOLEAN
    PROVE  <<b, Status(code, info)>> \in Check
  <1>1. Status(code, info) \in Refusals
    BY DEF Status, Refusals
  <1> QED
    BY <1>1 DEF Check

LEMMA CheckLists ==
    \A x, y, z \in Check : <<x>> \in Seq(Check) /\ <<x, y>> \in Seq(Check) /\ <<x, y, z>> \in Seq(Check)
  OBVIOUS

LEMMA ChecksRefuse ==
    ASSUME NEW req, NEW env
    PROVE  Checks(req, env) \in Seq(Check)
  <1>2. Authenticate(req, env) \in Seq(Check)
    <2>1. <<req.key = "bad", Status("UNAUTHENTICATED", FALSE)>> \in Check
      BY OneCheck DEF RefusalCodes
    <2>2. <<env.auth = "down", Unavailable>> \in Check
      BY OneCheck DEF Unavailable, RefusalCodes
    <2> QED
      BY <2>1, <2>2, CheckLists, Zenon DEF Authenticate
  <1>3. CheckBreaker(env) \in Seq(Check)
    <2>1. <<env.breaker = "open", Unavailable>> \in Check
      BY OneCheck DEF Unavailable, RefusalCodes
    <2> QED
      BY <2>1, CheckLists, Zenon DEF CheckBreaker
  <1>4. EnforcePolicy(env) \in Seq(Check)
    <2>1. <<env.policy = "throttle", Status("RESOURCE_EXHAUSTED", TRUE)>> \in Check
      BY OneCheck DEF RefusalCodes
    <2>2. <<env.policy = "block", Status("RESOURCE_EXHAUSTED", FALSE)>> \in Check
      BY OneCheck DEF RefusalCodes
    <2> QED
      BY <2>1, <2>2, CheckLists, Zenon DEF EnforcePolicy
  <1>5. CheckHeaders(req) \in Seq(Check)
    <2>1. <<req.header = "content-type", Status("415", FALSE)>> \in Check
      BY OneCheck DEF RefusalCodes
    <2>2. <<req.header = "encoding", Status("415", FALSE)>> \in Check
      BY OneCheck DEF RefusalCodes
    <2> QED
      BY <2>1, <2>2, CheckLists, Zenon DEF CheckHeaders
  <1>6. DecodeBody(req) \in Seq(Check)
    <2>1. <<req.body = "slow", Status("408", FALSE)>> \in Check
      BY OneCheck DEF RefusalCodes
    <2>2. <<req.body = "large", Status("413", FALSE)>> \in Check
      BY OneCheck DEF RefusalCodes
    <2>3. <<req.body = "garbled", Status("400", FALSE)>> \in Check
      BY OneCheck DEF RefusalCodes
    <2> QED
      BY <2>1, <2>2, <2>3, CheckLists, Zenon DEF DecodeBody
  <1>7. /\ <<<<OverCaps(req), Status("RESOURCE_EXHAUSTED", FALSE)>>>> \in Seq(Check)
        /\ <<<<OverCaps(req), Status("413", FALSE)>>>> \in Seq(Check)
    <2>1. OverCaps(req) \in BOOLEAN
      BY DEF OverCaps
    <2>2. <<OverCaps(req), Status("RESOURCE_EXHAUSTED", FALSE)>> \in Check
      BY <2>1, OneCheck DEF RefusalCodes
    <2>3. <<OverCaps(req), Status("413", FALSE)>> \in Check
      BY <2>1, OneCheck DEF RefusalCodes
    <2> QED
      BY <2>2, <2>3, CheckLists, Zenon
  <1>8. \A s, t \in Seq(Check) : s \o t \in Seq(Check)
    BY ConcatProperties
  <1> QED
    BY <1>2, <1>3, <1>4, <1>5, <1>6, <1>7, <1>8, Zenon DEF Checks

LEMMA StepScreen ==
    ASSUME IngestIInv, NEW e \in Exporters, Screen(e) PROVE IngestIInv'
  <1>1. PICK env \in Environments :
           LET checks  == Checks(client[e].req, env)
               failing == {i \in DOMAIN checks : checks[i][1]}
           IN  client' = [client EXCEPT ![e] =
                            IF failing = {} THEN [client[e] EXCEPT !.pc = "screened"]
                            ELSE Answered(client[e], checks[Min(failing)][2])]
    BY DEF Screen
  <1> DEFINE checks == Checks(client[e].req, env)
             failing == {i \in DOMAIN checks : checks[i][1]}
  <1>2. /\ Record7(client[e]) /\ client[e].open \in Nat /\ client[e].pc = "sent" /\ client[e].answer \notin Taken
        /\ DOMAIN client = Exporters
    BY ClientShape DEF Screen
  <1>3. checks \in Seq(Check)
    BY ChecksRefuse
  <1>4. UNCHANGED <<load, wal, parquet, appended>>
    BY DEF Screen, stored
  <1>5. client' = [client EXCEPT ![e] = IF failing = {} THEN [client[e] EXCEPT !.pc = "screened"]
                                        ELSE Answered(client[e], checks[Min(failing)][2])]
    BY <1>1
  <1> HIDE DEF checks
  <1>6. CASE failing = {}
    <2>1. Advances(client[e], [client[e] EXCEPT !.pc = "screened"])
      BY <1>2, MovesOn DEF Underway
    <2> QED
      BY <1>4, <1>5, <1>6, <2>1, OneAdvances
  <1>7. CASE failing # {}
    <2>1. failing \in SUBSET (1..Len(checks)) /\ Len(checks) \in Nat
      BY <1>3
    <2>2. IsFiniteSet(failing) /\ failing \in SUBSET Int
      <3> HIDE DEF failing
      <3>1. IsFiniteSet(1..Len(checks))
        BY <2>1, FS_Interval
      <3>2. IsFiniteSet(failing)
        BY <2>1, <3>1, FS_Subset
      <3>3. failing \in SUBSET Int
        BY <2>1
      <3> QED BY <3>2, <3>3
    <2>3. Min(failing) \in failing
      <3> HIDE DEF failing
      <3> QED BY <1>7, <2>2, FiniteMin
    <2>4. PICK n \in DOMAIN checks : n = Min(failing)
      BY <2>3
    <2>5. checks[n][2] \in Refusals
      BY <1>3 DEF Check
    <2>6. PICK code, info : checks[n][2] = Status(code, info) /\ code \notin Taken
      BY <2>5 DEF Refusals, RefusalCodes, Status, Taken
    <2>7. Advances(client[e], Answered(client[e], Status(code, info)))
      BY <1>2, <2>6, Refused
    <2>8. client' = [client EXCEPT ![e] = Answered(client[e], Status(code, info))]
      <3> HIDE DEF failing
      <3> QED BY <1>5, <1>7, <2>4, <2>6
    <2> QED
      BY <1>4, <2>7, <2>8, OneAdvances
  <1> QED
    BY <1>6, <1>7

LEMMA LimiterRefusals ==
    ASSUME NEW limit, NEW records
    PROVE  \/ Limiter(limit, records).refusal = {}
           \/ \E code, info : code \notin Taken /\ Limiter(limit, records).refusal = {Status(code, info)}
  BY DEF Limiter, RateLimited, Taken

LEMMA StepEnforceSettings ==
    ASSUME IngestIInv, NEW e \in Exporters, EnforceSettings(e) PROVE IngestIInv'
  <1> DEFINE checked == IF settings.blocked
                        THEN [bucket |-> bucket, refusal |-> {Status("PERMISSION_DENIED", FALSE)}]
                        ELSE IF settings.rate = NoLimit THEN [bucket |-> bucket, refusal |-> {}]
                        ELSE Limiter(settings.rate, Records(client[e].req))
  <1>1. client' = [client EXCEPT ![e] =
                      IF checked.refusal = {}
                      THEN [client[e] EXCEPT !.pc = "accepted", !.rows = Rows(client[e].req, settings.capture),
                                             !.scores = Scores(client[e].req)]
                      ELSE Answered(client[e], CHOOSE s \in checked.refusal : TRUE)]
    BY DEF EnforceSettings
  <1>2. /\ Record7(client[e]) /\ client[e].open \in Nat /\ client[e].pc = "screened" /\ client[e].answer \notin Taken
    BY ClientShape DEF EnforceSettings
  <1>3. UNCHANGED <<load, wal, parquet, appended>>
    BY DEF EnforceSettings, stored
  <1>4. \/ checked.refusal = {}
        \/ \E code, info : code \notin Taken /\ checked.refusal = {Status(code, info)}
    <2>1. CASE settings.blocked
      <3>1. checked.refusal = {Status("PERMISSION_DENIED", FALSE)}
        BY <2>1
      <3> HIDE DEF checked
      <3> QED BY <3>1 DEF Taken
    <2>2. CASE ~settings.blocked /\ settings.rate = NoLimit
      BY <2>2
    <2>3. CASE ~settings.blocked /\ settings.rate # NoLimit
      <3>1. checked = Limiter(settings.rate, Records(client[e].req))
        BY <2>3
      <3> HIDE DEF checked
      <3> QED BY <3>1, LimiterRefusals
    <2> QED BY <2>1, <2>2, <2>3
  <1> HIDE DEF checked
  <1>5. CASE checked.refusal = {}
    <2>1. PICK c : c = client[e]
      OBVIOUS
    <2>2. PICK rows, scores : rows = Rows(client[e].req, settings.capture) /\ scores = Scores(client[e].req)
      OBVIOUS
    <2>3. PICK x : x = [c EXCEPT !.pc = "accepted"]
      OBVIOUS
    <2>4. Record7(x) /\ x.pc = "accepted" /\ x.req = c.req /\ x.open = c.open /\ x.answer = c.answer
      BY <1>2, <2>1, <2>3, SetPc
    <2>5. PICK y : y = [x EXCEPT !.rows = rows]
      OBVIOUS
    <2>6. Record7(y) /\ y.pc = "accepted" /\ y.req = c.req /\ y.open = c.open /\ y.answer = c.answer
      BY <2>4, <2>5 DEF Record7
    <2>7. PICK d : d = [y EXCEPT !.scores = scores]
      OBVIOUS
    <2>8. Record7(d) /\ d.pc = "accepted" /\ d.req = c.req /\ d.open = c.open /\ d.answer = c.answer
      BY <2>6, <2>7 DEF Record7
    <2>9. GoesBack(c, d)
      BY <1>2, <2>1, <2>8 DEF GoesBack, Underway
    <2>10. client' = [client EXCEPT ![e] = d]
      <3>1. d = [client[e] EXCEPT !.pc = "accepted", !.rows = Rows(client[e].req, settings.capture),
                                  !.scores = Scores(client[e].req)]
        BY <2>1, <2>2, <2>3, <2>5, <2>7, Zenon
      <3> QED
        BY <1>1, <1>5, <3>1
    <2> QED
      BY <1>3, <2>1, <2>8, <2>9, <2>10, OneAdvances DEF Advances
  <1>6. CASE checked.refusal # {}
    <2>1. PICK code, info : code \notin Taken /\ checked.refusal = {Status(code, info)}
      BY <1>4, <1>6
    <2>2. (CHOOSE s \in checked.refusal : TRUE) = Status(code, info)
      BY <2>1
    <2>3. client' = [client EXCEPT ![e] = Answered(client[e], Status(code, info))]
      BY <1>1, <1>6, <2>2
    <2>4. Advances(client[e], Answered(client[e], Status(code, info)))
      BY <1>2, <2>1, Refused
    <2> QED
      BY <1>3, <2>3, <2>4, OneAdvances
  <1> QED
    BY <1>5, <1>6

(* A change of the settings touches only what the exports may have seen. *)
LEMMA StepChangeSettings ==
    ASSUME IngestIInv, ChangeSettings PROVE IngestIInv'
  <1>1. UNCHANGED <<load, wal, parquet, appended>>
    BY DEF ChangeSettings, stored
  <1>2. client' = [e \in Exporters |->
                     IF InFlight(client[e]) THEN [client[e] EXCEPT !.seen = @ \cup {settings'.capture}]
                     ELSE client[e]]
    BY DEF ChangeSettings
  <1>3. DOMAIN client' = Exporters
    BY <1>2
  <1>4. ASSUME NEW e \in Exporters
        PROVE  Advances(client[e], client'[e])
    <2>1. PICK c : c = client[e]
      OBVIOUS
    <2>2. Record7(c)
      BY <2>1, ClientShape
    <2>3. PICK seen : client'[e] \in {c, [c EXCEPT !.seen = seen]}
      BY <1>2, <2>1
    <2>4. ASSUME NEW d, d = [c EXCEPT !.seen = seen]
          PROVE  Record7(d) /\ Still(c, d)
      BY <2>2, <2>4 DEF Record7, Still
    <2> QED
      BY <2>1, <2>2, <2>3, <2>4 DEF Advances, Still
  <1> QED
    BY <1>1, <1>3, <1>4, ClientsAdvance

(* A crash leaves the matter open for every export the server had. *)
LEMMA StepCrash ==
    ASSUME IngestIInv, Crash PROVE IngestIInv'
  <1>1. UNCHANGED <<load, wal, parquet, appended>>
    BY DEF Crash, stored
  <1>2. client' = [e \in Exporters |-> IF client[e].pc \in {"idle", "retry", "done"} THEN client[e]
                                       ELSE Reset(client[e])]
    BY DEF Crash
  <1>3. DOMAIN client' = Exporters
    BY <1>2
  <1>4. ASSUME NEW e \in Exporters
        PROVE  Advances(client[e], client'[e])
    <2>1. PICK c : c = client[e]
      OBVIOUS
    <2>2. Record7(c) /\ c.open \in Nat
      BY <2>1, ClientShape
    <2>3. CASE c.pc \in {"idle", "retry", "done"}
      <3>1. client'[e] = c
        BY <1>2, <2>1, <2>3
      <3> QED
        BY <2>1, <2>2, <3>1 DEF Advances, Still
    <2>4. CASE c.pc \notin {"idle", "retry", "done"}
      <3>1. client'[e] = Reset(c)
        BY <1>2, <2>1, <2>4
      <3>2. Reset(c) = With(c, "retry", "reset", c.open + 1)
        BY DEF Reset, With
      <3>3. PICK d : d = With(c, "retry", "reset", c.open + 1)
        OBVIOUS
      <3>4. Record7(d) /\ d.req = c.req /\ d.pc = "retry" /\ d.answer = "reset" /\ d.open = c.open + 1
        BY <2>2, <3>3, SetAnswer
      <3>5. GoesBack(c, d)
        BY <2>2, <2>4, <3>4 DEF GoesBack, Underway, Taken
      <3> QED
        BY <2>1, <3>1, <3>2, <3>3, <3>4, <3>5 DEF Advances
    <2> QED
      BY <2>3, <2>4
  <1> QED
    BY <1>1, <1>3, <1>4, ClientsAdvance

LEMMA SameClients ==
    ASSUME IngestIInv, UNCHANGED <<load, client, wal, parquet, appended>> PROVE IngestIInv'
  <1>1. client' = client /\ DOMAIN client' = Exporters
    BY DEF IngestIInv, ShapeInv
  <1>2. \A e \in Exporters : Advances(client[e], client'[e])
    BY <1>1, ClientShape DEF Advances, Still
  <1> QED
    BY <1>1, <1>2, ClientsAdvance

LEMMA StepFlush ==
    ASSUME IngestIInv, Flush \/ FlushFails PROVE IngestIInv'
  <1>1. CASE Flush
    <2>1. {"traces", "metrics", "logs", "scores"} \subseteq Range(SignalOrder)
      BY DEF Range, SignalOrder
    <2> QED
      BY <1>1, <2>1, FlushStep DEF Flush
  <1>2. CASE FlushFails
    <2>1. PICK k \in DOMAIN SignalOrder :
             parquet' = parquet \cup RowsToInsert(Range(SubSeq(SignalOrder, 1, k - 1)))
      BY <1>2 DEF FlushFails
    <2> QED
      BY <1>2, <2>1, FlushStep DEF FlushFails
  <1> QED
    BY <1>1, <1>2

-----------------------------------------------------------------------------
(* The theorems.                                                           *)

LEMMA IngestInit == Init => IngestIInv
  <1> SUFFICES ASSUME Init PROVE IngestIInv
    OBVIOUS
  <1>1. load \in Loads /\ wal = load.wal /\ parquet = load.files /\ appended = 0
    BY DEF Init
  <1>2. ASSUME NEW e \in Exporters
        PROVE  /\ Record7(client[e]) /\ client[e].pc = "idle" /\ client[e].open = 0 /\ client[e].answer = "none"
    BY DEF Init, Record7
  <1>3. DOMAIN client = Exporters
    BY DEF Init
  <1>4. ShapeInv
    BY <1>1, <1>2, <1>3, LoadsAssumption DEF ShapeInv, Record7
  <1>5. NumberInv
    BY <1>1, LoadsAssumption DEF NumberInv
  <1>6. AnswerInv /\ CopiesInv /\ KeptInv
    BY <1>2 DEF AnswerInv, CopiesInv, KeptInv
  <1> QED
    BY <1>1, <1>4, <1>5, <1>6 DEF IngestIInv

LEMMA IngestNext == IngestIInv /\ [Next]_vars => IngestIInv'
  <1> SUFFICES ASSUME IngestIInv, [Next]_vars PROVE IngestIInv'
    OBVIOUS
  <1>1. CASE UNCHANGED vars
    BY <1>1, SameClients DEF vars
  <1>2. ASSUME NEW e \in Exporters, Submit(e) \/ Retry(e) PROVE IngestIInv'
    BY <1>2, StepSubmit, StepRetry
  <1>3. ASSUME NEW e \in Exporters, Serve(e) PROVE IngestIInv'
    BY <1>3, StepScreen, StepEnforceSettings, StepInsertScores, StepScoresDurable, StepInsertRows, StepDurable
       DEF Serve
  <1>4. ASSUME NEW e \in Exporters, Fault(e) PROVE IngestIInv'
    BY <1>4, StepUndrained, StepFails, StepDeadline DEF Fault
  <1>5. CASE Tick
    BY <1>5, SameClients DEF Tick, stored
  <1>6. CASE ChangeSettings
    BY <1>6, StepChangeSettings
  <1>7. CASE Flush \/ FlushFails
    BY <1>7, StepFlush
  <1>8. CASE Crash
    BY <1>8, StepCrash
  <1> QED
    BY <1>1, <1>2, <1>3, <1>4, <1>5, <1>6, <1>7, <1>8 DEF Next

(* Whatever an export has appended so far is kept, and counted against its *)
(* answers: append_batches, the flusher and the exporter's retries.        *)
THEOREM IngestInvariant == Spec => []IngestIInv
  <1>1. Init => IngestIInv
    BY IngestInit
  <1>2. IngestIInv /\ [Next]_vars => IngestIInv'
    BY IngestNext
  <1> QED
    BY <1>1, <1>2, PTL DEF Spec

(* A kept batch has every row that parses in the WAL or in Parquet. *)
LEMMA KeptIsStored ==
    ASSUME NEW e, NEW s, NEW rows, Kept(e, s, rows), NEW i \in DOMAIN rows, Parses(s, rows[i])
    PROVE  IsStored(e, s, i)
  <1>1. CASE \E r \in Range(wal) : IsBatch(r, e, s, rows)
    BY <1>1 DEF IsBatch, IsStored
  <1>2. CASE \A j \in DOMAIN rows : Parses(s, rows[j]) =>
                \E p \in parquet : p.client = e /\ p.signal = s /\ p.i = j
    BY <1>2 DEF IsStored
  <1> QED
    BY <1>1, <1>2 DEF Kept

LEMMA IInvStoredAsAnswered == IngestIInv => StoredAsAnswered
  <1> SUFFICES ASSUME IngestIInv, NEW e \in Exporters, client[e].pc # "idle"
               PROVE  /\ Cardinality(Copies(e, client[e].req.signal))
                            <= client[e].open + (IF client[e].pc = "syncing" THEN 1 ELSE 0)
                      /\ client[e].answer \in {"OK", "200"} =>
                            \A k \in 1..2 : \A i \in DOMAIN AllRows(e)[k][2] :
                                Parses(AllRows(e)[k][1], AllRows(e)[k][2][i]) => IsStored(e, AllRows(e)[k][1], i)
    BY DEF StoredAsAnswered
  <1>1. Cardinality(Copies(e, client[e].req.signal)) <= client[e].open + (IF client[e].pc = "syncing" THEN 1 ELSE 0)
    BY DEF IngestIInv, CopiesInv, Allowed
  <1>2. ASSUME client[e].answer \in {"OK", "200"}, NEW k \in 1..2
        PROVE  \A i \in DOMAIN AllRows(e)[k][2] :
                  Parses(AllRows(e)[k][1], AllRows(e)[k][2][i]) => IsStored(e, AllRows(e)[k][1], i)
    <2>1. AllRows(e)[1][1] = client[e].req.signal /\ AllRows(e)[1][2] = client[e].rows
      BY DEF AllRows
    <2>2. AllRows(e)[2][1] = "scores" /\ AllRows(e)[2][2] = client[e].scores
      BY DEF AllRows
    <2>3. Kept(e, client[e].req.signal, client[e].rows) /\ Kept(e, "scores", client[e].scores)
      BY <1>2 DEF IngestIInv, KeptInv
    <2>4. Kept(e, AllRows(e)[k][1], AllRows(e)[k][2])
      <3>1. k = 1 \/ k = 2
        OBVIOUS
      <3> QED BY <2>1, <2>2, <2>3, <3>1
    <2> QED
      BY <2>4, KeptIsStored
  <1> QED
    BY <1>1, <1>2

(* A refusal that invites a retry leaves nothing behind, and an export that *)
(* was answered OK has every row that parses in the WAL or in Parquet, for *)
(* every workload and any number of faults (append_batches, retry.rs).     *)
THEOREM StoredAsAnsweredHolds == Spec => []StoredAsAnswered
  BY IngestInvariant, IInvStoredAsAnswered, PTL

-----------------------------------------------------------------------------
(* What the stored rows were made from.                                    *)

\* What a step does to the record of an export, as far as its rows and the
\* settings it has seen are concerned; the setting was old and is new.
Turns(c, d, old, new) ==
    /\ c.pc = "idle" => d.pc = "idle" \/ (d.pc = "sent" /\ d.seen = {new} /\ d.req \in load.requests)
    /\ c.pc # "idle" =>
          /\ d.pc # "idle" /\ d.req = c.req /\ c.seen \subseteq d.seen /\ d.seen \subseteq c.seen \cup {new}
          /\ InFlight(d) => InFlight(c) /\ (new = old \/ new \in d.seen)
          /\ d.pc \in Converted =>
                \/ c.pc \in Converted /\ d.rows = c.rows /\ d.scores = c.scores
                \/ InFlight(c) /\ d.rows = Rows(c.req, old) /\ d.scores = Scores(c.req)

(* What an export may have become only grows with the settings it has seen. *)
LEMMA ConversionsGrow ==
    ASSUME NEW c, NEW d, d.req = c.req, c.seen \subseteq d.seen, NEW signal
    PROVE  Conversions(c, signal) \subseteq Conversions(d, signal)
  BY DEF Conversions

(* A step of the exports keeps what is known of what they have seen. *)
LEMMA SeenTurns ==
    ASSUME IngestIInv, SeenInv, load' = load, settings' \in load.settings,
           \A e \in Exporters : Turns(client[e], client'[e], settings.capture, settings'.capture)
    PROVE  SeenInv'
  <1>1. settings'.capture \in BOOLEAN /\ settings.capture \in BOOLEAN
    BY LoadsAssumption DEF IngestIInv, SeenInv
  <1> SUFFICES ASSUME NEW e \in Exporters, client'[e].pc # "idle"
               PROVE  /\ client'[e].req \in load.requests
                      /\ client'[e].seen \subseteq BOOLEAN
                      /\ InFlight(client'[e]) => settings'.capture \in client'[e].seen
                      /\ client'[e].pc \in Converted =>
                            /\ client'[e].scores \in Conversions(client'[e], "scores")
                            /\ client'[e].rows \in Conversions(client'[e], client'[e].req.signal)
    BY DEF SeenInv
  <1>2. PICK c, d, old, new : c = client[e] /\ d = client'[e] /\ old = settings.capture /\ new = settings'.capture
    OBVIOUS
  <1>3. Turns(c, d, old, new) /\ d.pc # "idle" /\ old \in BOOLEAN /\ new \in BOOLEAN
    BY <1>1, <1>2
  <1>4. CASE c.pc = "idle"
    <2>1. d.pc = "sent" /\ d.seen = {new} /\ d.req \in load.requests
      BY <1>3, <1>4 DEF Turns
    <2> QED
      BY <1>2, <1>3, <2>1 DEF Converted
  <1>5. CASE c.pc # "idle"
    <2>1. /\ c.req \in load.requests /\ c.seen \subseteq BOOLEAN /\ (InFlight(c) => old \in c.seen)
          /\ c.pc \in Converted => c.scores \in Conversions(c, "scores") /\ c.rows \in Conversions(c, c.req.signal)
      BY <1>2, <1>5 DEF SeenInv
    <2>2. /\ d.req = c.req /\ c.seen \subseteq d.seen /\ d.seen \subseteq c.seen \cup {new}
          /\ InFlight(d) => InFlight(c) /\ (new = old \/ new \in d.seen)
          /\ d.pc \in Converted =>
                \/ c.pc \in Converted /\ d.rows = c.rows /\ d.scores = c.scores
                \/ InFlight(c) /\ d.rows = Rows(c.req, old) /\ d.scores = Scores(c.req)
      BY <1>3, <1>5 DEF Turns
    <2>3. \A s : Conversions(c, s) \subseteq Conversions(d, s)
      BY <2>2, ConversionsGrow
    <2>4. c.req.signal \in {"traces", "metrics", "logs"}
      BY <2>1, LoadsAssumption DEF IngestIInv
    <2>5. ASSUME InFlight(c) PROVE Rows(c.req, old) \in Conversions(c, c.req.signal)
      <3>1. old \in c.seen
        BY <2>1, <2>5
      <3>2. Conversions(c, c.req.signal) = {Rows(c.req, capture) : capture \in c.seen}
        BY <2>4 DEF Conversions
      <3> QED
        BY <3>1, <3>2
    <2>6. Scores(c.req) \in Conversions(c, "scores")
      BY DEF Conversions
    <2>7. d.pc \in Converted => d.scores \in Conversions(d, "scores") /\ d.rows \in Conversions(d, d.req.signal)
      BY <2>1, <2>2, <2>3, <2>5, <2>6
    <2>8. /\ d.req \in load.requests /\ d.seen \subseteq BOOLEAN
          /\ InFlight(d) => new \in d.seen
      BY <1>3, <2>1, <2>2
    <2> QED
      BY <1>2, <2>7, <2>8
  <1> QED
    BY <1>4, <1>5

(* What is stored stems from its export whatever the exports do next. *)
LEMMA StillStems ==
    ASSUME IngestIInv, StemInv,
           \A e \in Exporters : Turns(client[e], client'[e], settings.capture, settings'.capture)
    PROVE  (\A r \in Range(wal) : RecordStems(r)') /\ (\A p \in parquet : RowStems(p)')
  <1>1. \A e \in Exporters : client[e].pc # "idle" =>
            \A s : Conversions(client[e], s) \subseteq Conversions(client'[e], s)
    <2> SUFFICES ASSUME NEW e \in Exporters, client[e].pc # "idle"
                 PROVE  \A s : Conversions(client[e], s) \subseteq Conversions(client'[e], s)
      OBVIOUS
    <2>1. PICK c, d : c = client[e] /\ d = client'[e]
      OBVIOUS
    <2>2. d.req = c.req /\ c.seen \subseteq d.seen
      BY <2>1 DEF Turns
    <2> QED
      BY <2>1, <2>2, ConversionsGrow
  <1>2. ASSUME NEW r \in Range(wal) PROVE RecordStems(r)'
    <2>1. r.client \in Exporters => client[r.client].pc # "idle"
      BY DEF IngestIInv, NumberInv
    <2> QED
      BY <1>1, <2>1 DEF StemInv, RecordStems
  <1>3. ASSUME NEW p \in parquet PROVE RowStems(p)'
    <2>1. p.client \in Exporters => client[p.client].pc # "idle"
      BY DEF IngestIInv, NumberInv
    <2>2. CASE p.client \in Exporters
      <3>1. PICK rows \in Conversions(client[p.client], p.signal) :
               p.i \in DOMAIN rows /\ p.row = Batch(p.signal, rows[p.i])
        BY <2>2 DEF StemInv, RowStems
      <3>2. rows \in Conversions(client'[p.client], p.signal)
        BY <1>1, <2>1, <2>2, <3>1
      <3> QED
        BY <2>2, <3>1, <3>2 DEF StemInv, RowStems
    <2>3. CASE p.client \notin Exporters
      BY <2>3 DEF StemInv, RowStems
    <2> QED
      BY <2>2, <2>3
  <1> QED
    BY <1>2, <1>3

(* Steps of the exports that leave the stores alone. *)
LEMMA AllTurn ==
    ASSUME ConvertedIInv, UNCHANGED <<load, wal, parquet>>, settings' \in load.settings,
           \A e \in Exporters : Turns(client[e], client'[e], settings.capture, settings'.capture)
    PROVE  SeenInv' /\ StemInv'
  <1>1. SeenInv'
    BY SeenTurns DEF ConvertedIInv
  <1>2. (\A r \in Range(wal) : RecordStems(r)') /\ (\A p \in parquet : RowStems(p)')
    BY StillStems DEF ConvertedIInv
  <1> QED
    BY <1>1, <1>2 DEF StemInv

(* An export that does nothing turns into itself. *)
LEMMA NoTurn == \A c, old : Turns(c, c, old, old)
  BY DEF Turns

LEMMA OneTurns ==
    ASSUME ConvertedIInv, NEW e \in Exporters, NEW d, Turns(client[e], d, settings.capture, settings.capture),
           client' = [client EXCEPT ![e] = d]
    PROVE  \A u \in Exporters : Turns(client[u], client'[u], settings.capture, settings.capture)
  <1>1. client'[e] = d /\ \A u \in Exporters : u # e => client'[u] = client[u]
    BY DEF ConvertedIInv, IngestIInv, ShapeInv
  <1> QED
    BY <1>1, NoTurn

\* A step of one export that leaves the stores and the settings alone.
LEMMA OneTurnsAlone ==
    ASSUME ConvertedIInv, NEW e \in Exporters, NEW d, Turns(client[e], d, settings.capture, settings.capture),
           client' = [client EXCEPT ![e] = d], UNCHANGED <<load, settings, wal, parquet>>
    PROVE  SeenInv' /\ StemInv'
  <1>1. \A u \in Exporters : Turns(client[u], client'[u], settings.capture, settings'.capture)
    BY OneTurns
  <1>2. settings' \in load.settings
    BY DEF ConvertedIInv, SeenInv
  <1> QED
    BY <1>1, <1>2, AllTurn

(* Any answer, and any move to a step without rows, is such a turn. *)
LEMMA TurnsBack ==
    ASSUME NEW c, NEW d, NEW old, c.pc \notin {"idle", "done"}, d.pc \notin Converted \cup {"idle"},
           d.req = c.req, d.seen = c.seen
    PROVE  Turns(c, d, old, old)
  BY DEF Turns, InFlight

LEMMA TurnsAnswered ==
    ASSUME NEW c, Record7(c), c.open \in Nat, c.pc \notin {"idle", "done"}, NEW status, NEW old
    PROVE  Turns(c, Answered(c, status), old, old)
  <1>1. PICK d : d = Answered(c, status)
    OBVIOUS
  <1>2. d.req = c.req /\ d.seen = c.seen /\ d.pc \in {"retry", "done"}
    BY <1>1, AnsweredFields
  <1> QED
    BY <1>1, <1>2, TurnsBack DEF Converted

(* Moving on with the rows there are. *)
LEMMA TurnsOn ==
    ASSUME NEW c, Record7(c), c.pc \in Converted, NEW x \in Converted, NEW old
    PROVE  Turns(c, [c EXCEPT !.pc = x], old, old)
  <1>1. PICK d : d = [c EXCEPT !.pc = x]
    OBVIOUS
  <1>2. d.pc = x /\ d.req = c.req /\ d.seen = c.seen /\ d.rows = c.rows /\ d.scores = c.scores
    BY <1>1, SetPc
  <1> QED
    BY <1>1, <1>2 DEF Turns, Converted, InFlight

(* What is known of every export. *)
LEMMA ConvertedShape ==
    ASSUME ConvertedIInv, NEW e \in Exporters
    PROVE  /\ Record7(client[e]) /\ client[e].open \in Nat /\ DOMAIN client = Exporters
           /\ settings \in load.settings
  BY ClientShape DEF ConvertedIInv, SeenInv

(* An exporter submits a request with the settings there are. *)
LEMMA TurnSubmit ==
    ASSUME ConvertedIInv, NEW e \in Exporters, Submit(e) PROVE SeenInv' /\ StemInv'
  <1>1. PICK req \in load.requests :
           client' = [client EXCEPT ![e].pc = "sent", ![e].req = req, ![e].seen = {settings.capture}]
    BY DEF Submit
  <1>2. PICK c, seen : c = client[e] /\ seen = {settings.capture}
    OBVIOUS
  <1>3. Record7(c) /\ DOMAIN client = Exporters /\ c.pc = "idle"
    BY <1>2, ConvertedShape DEF Submit
  <1>4. PICK d : d = [c EXCEPT !.pc = "sent", !.req = req, !.seen = seen]
    OBVIOUS
  <1>5. d.pc = "sent" /\ d.req = req /\ d.seen = seen
    <2>1. PICK x : x = [c EXCEPT !.pc = "sent"]
      OBVIOUS
    <2>2. Record7(x) /\ x.pc = "sent"
      BY <1>3, <2>1, SetPc
    <2>3. PICK y : y = [x EXCEPT !.req = req]
      OBVIOUS
    <2>4. Record7(y) /\ y.pc = "sent" /\ y.req = req
      BY <2>2, <2>3 DEF Record7
    <2>5. d = [y EXCEPT !.seen = seen]
      BY <1>4, <2>1, <2>3, Zenon
    <2> QED
      BY <2>4, <2>5 DEF Record7
  <1>6. client' = [client EXCEPT ![e] = d]
    BY <1>1, <1>2, <1>3, <1>4
  <1>7. Turns(client[e], d, settings.capture, settings.capture)
    BY <1>2, <1>3, <1>5 DEF Turns
  <1> QED
    BY <1>6, <1>7, OneTurnsAlone DEF Submit

(* Retries, resets and answers. *)
LEMMA TurnRetry ==
    ASSUME ConvertedIInv, NEW e \in Exporters, Retry(e) PROVE SeenInv' /\ StemInv'
  <1>1. PICK d : d = [client[e] EXCEPT !.pc = "sent"]
    OBVIOUS
  <1>2. Record7(client[e]) /\ client[e].pc = "retry" /\ DOMAIN client = Exporters
    BY ConvertedShape DEF Retry
  <1>3. d.pc = "sent" /\ d.req = client[e].req /\ d.seen = client[e].seen
    BY <1>1, <1>2, SetPc
  <1>4. Turns(client[e], d, settings.capture, settings.capture)
    BY <1>2, <1>3, TurnsBack DEF Converted
  <1>5. client' = [client EXCEPT ![e] = d]
    BY <1>1, <1>2 DEF Retry
  <1> QED
    BY <1>4, <1>5, OneTurnsAlone DEF Retry

LEMMA TurnUndrained ==
    ASSUME ConvertedIInv, NEW e \in Exporters, Undrained(e) PROVE SeenInv' /\ StemInv'
  <1>1. PICK c : c = client[e]
    OBVIOUS
  <1>2. Record7(c) /\ c.pc = "sent" /\ DOMAIN client = Exporters
    BY <1>1, ConvertedShape DEF Undrained
  <1>3. PICK x : x = [c EXCEPT !.pc = "retry"]
    OBVIOUS
  <1>4. PICK d : d = [x EXCEPT !.answer = "reset"]
    OBVIOUS
  <1>5. Record7(x) /\ x.pc = "retry" /\ x.req = c.req /\ x.seen = c.seen
    BY <1>2, <1>3, SetPc
  <1>6. d.pc = "retry" /\ d.req = c.req /\ d.seen = c.seen
    BY <1>4, <1>5 DEF Record7
  <1>7. Turns(client[e], d, settings.capture, settings.capture)
    BY <1>1, <1>2, <1>6, TurnsBack DEF Converted
  <1>8. client' = [client EXCEPT ![e] = d]
    BY <1>1, <1>2, <1>3, <1>4 DEF Undrained
  <1> QED
    BY <1>7, <1>8, OneTurnsAlone DEF Undrained, stored

LEMMA TurnAnswers ==
    ASSUME ConvertedIInv, NEW e \in Exporters, client[e].pc \notin {"idle", "done"},
           \E status : client' = [client EXCEPT ![e] = Answered(client[e], status)],
           UNCHANGED <<load, settings, wal, parquet>>
    PROVE  SeenInv' /\ StemInv'
  <1>1. PICK status : client' = [client EXCEPT ![e] = Answered(client[e], status)]
    OBVIOUS
  <1>2. Turns(client[e], Answered(client[e], status), settings.capture, settings.capture)
    BY ConvertedShape, TurnsAnswered
  <1> QED
    BY <1>1, <1>2, OneTurnsAlone

LEMMA TurnFails ==
    ASSUME ConvertedIInv, NEW e \in Exporters, SettingsFail(e) \/ FsyncDropped(e) \/ Durable(e)
    PROVE  SeenInv' /\ StemInv'
  <1>1. client[e].pc \notin {"idle", "done"}
    BY DEF SettingsFail, FsyncDropped, Durable
  <1>2. \E status : client' = [client EXCEPT ![e] = Answered(client[e], status)]
    BY DEF SettingsFail, FsyncDropped, Durable
  <1> QED
    BY <1>1, <1>2, TurnAnswers DEF SettingsFail, FsyncDropped, Durable, stored

LEMMA TurnDeadline ==
    ASSUME ConvertedIInv, NEW e \in Exporters, Deadline(e) PROVE SeenInv' /\ StemInv'
  <1>1. Record7(client[e]) /\ client[e].open \in Nat /\ client[e].pc \notin {"idle", "done"}
    BY ConvertedShape DEF Deadline
  <1>2. PICK d : d = TimedOut(client[e]) /\ d.req = client[e].req /\ d.seen = client[e].seen /\ d.pc = "retry"
    BY <1>1, TimedOutFields
  <1>3. Turns(client[e], d, settings.capture, settings.capture)
    BY <1>1, <1>2, TurnsBack DEF Converted
  <1>4. client' = [client EXCEPT ![e] = d]
    BY <1>2 DEF Deadline
  <1> QED
    BY <1>3, <1>4, OneTurnsAlone DEF Deadline, stored

LEMMA TurnScreen ==
    ASSUME ConvertedIInv, NEW e \in Exporters, Screen(e) PROVE SeenInv' /\ StemInv'
  <1>1. \/ client' = [client EXCEPT ![e] = [client[e] EXCEPT !.pc = "screened"]]
        \/ \E status : client' = [client EXCEPT ![e] = Answered(client[e], status)]
    <2>1. PICK env \in Environments :
             LET checks  == Checks(client[e].req, env)
                 failing == {i \in DOMAIN checks : checks[i][1]}
             IN  client' = [client EXCEPT ![e] =
                              IF failing = {} THEN [client[e] EXCEPT !.pc = "screened"]
                              ELSE Answered(client[e], checks[Min(failing)][2])]
      BY DEF Screen
    <2> DEFINE failing == {i \in DOMAIN Checks(client[e].req, env) : Checks(client[e].req, env)[i][1]}
    <2>2. client' = [client EXCEPT ![e] =
                        IF failing = {} THEN [client[e] EXCEPT !.pc = "screened"]
                        ELSE Answered(client[e], Checks(client[e].req, env)[Min(failing)][2])]
      BY <2>1
    <2> HIDE DEF failing
    <2> QED
      BY <2>2
  <1>2. client[e].pc = "sent" /\ UNCHANGED <<load, settings, wal, parquet>>
    BY DEF Screen, stored
  <1>3. CASE client' = [client EXCEPT ![e] = [client[e] EXCEPT !.pc = "screened"]]
    <2>1. PICK d : d = [client[e] EXCEPT !.pc = "screened"]
      OBVIOUS
    <2>2. d.pc = "screened" /\ d.req = client[e].req /\ d.seen = client[e].seen
      BY <2>1, ConvertedShape, SetPc
    <2>3. Turns(client[e], d, settings.capture, settings.capture)
      BY <1>2, <2>2, TurnsBack DEF Converted
    <2> QED
      BY <1>2, <1>3, <2>1, <2>3, OneTurnsAlone
  <1>4. CASE \E status : client' = [client EXCEPT ![e] = Answered(client[e], status)]
    BY <1>2, <1>4, TurnAnswers
  <1> QED
    BY <1>1, <1>3, <1>4

(* An accepted request is converted with the settings just read. *)
LEMMA TurnEnforceSettings ==
    ASSUME ConvertedIInv, NEW e \in Exporters, EnforceSettings(e) PROVE SeenInv' /\ StemInv'
  <1>1. PICK c, rows, scores : c = client[e] /\ rows = Rows(client[e].req, settings.capture) /\ scores = Scores(client[e].req)
    OBVIOUS
  <1>2. \/ client' = [client EXCEPT ![e] = [c EXCEPT !.pc = "accepted", !.rows = rows, !.scores = scores]]
        \/ \E status : client' = [client EXCEPT ![e] = Answered(client[e], status)]
    <2> DEFINE checked == IF settings.blocked
                          THEN [bucket |-> bucket, refusal |-> {Status("PERMISSION_DENIED", FALSE)}]
                          ELSE IF settings.rate = NoLimit THEN [bucket |-> bucket, refusal |-> {}]
                          ELSE Limiter(settings.rate, Records(client[e].req))
    <2>1. client' = [client EXCEPT ![e] =
                        IF checked.refusal = {}
                        THEN [client[e] EXCEPT !.pc = "accepted", !.rows = Rows(client[e].req, settings.capture),
                                               !.scores = Scores(client[e].req)]
                        ELSE Answered(client[e], CHOOSE s \in checked.refusal : TRUE)]
      BY DEF EnforceSettings
    <2> HIDE DEF checked
    <2> QED
      BY <1>1, <2>1
  <1>3. client[e].pc = "screened" /\ UNCHANGED <<load, settings, wal, parquet>>
    BY DEF EnforceSettings, stored
  <1>4. CASE client' = [client EXCEPT ![e] = [c EXCEPT !.pc = "accepted", !.rows = rows, !.scores = scores]]
    <2>1. PICK x : x = [c EXCEPT !.pc = "accepted"]
      OBVIOUS
    <2>2. Record7(x) /\ x.pc = "accepted" /\ x.req = c.req /\ x.seen = c.seen
      BY <1>1, <2>1, ConvertedShape, SetPc
    <2>3. PICK y : y = [x EXCEPT !.rows = rows]
      OBVIOUS
    <2>4. Record7(y) /\ y.pc = "accepted" /\ y.req = c.req /\ y.seen = c.seen /\ y.rows = rows
      BY <2>2, <2>3 DEF Record7
    <2>5. PICK d : d = [y EXCEPT !.scores = scores]
      OBVIOUS
    <2>6. d.pc = "accepted" /\ d.req = c.req /\ d.seen = c.seen /\ d.rows = rows /\ d.scores = scores
      BY <2>4, <2>5 DEF Record7
    <2>7. d = [c EXCEPT !.pc = "accepted", !.rows = rows, !.scores = scores]
      BY <2>1, <2>3, <2>5, Zenon
    <2>8. Turns(client[e], d, settings.capture, settings.capture)
      BY <1>1, <1>3, <2>6 DEF Turns, InFlight
    <2> QED
      BY <1>3, <1>4, <2>7, <2>8, OneTurnsAlone
  <1>5. CASE \E status : client' = [client EXCEPT ![e] = Answered(client[e], status)]
    BY <1>3, <1>5, TurnAnswers
  <1> QED
    BY <1>2, <1>4, <1>5

(* A change of the settings is seen by every export under way. *)
LEMMA TurnChangeSettings ==
    ASSUME ConvertedIInv, ChangeSettings PROVE SeenInv' /\ StemInv'
  <1>1. client' = [e \in Exporters |->
                     IF InFlight(client[e]) THEN [client[e] EXCEPT !.seen = @ \cup {settings'.capture}]
                     ELSE client[e]]
    BY DEF ChangeSettings
  <1>2. ASSUME NEW e \in Exporters
        PROVE  Turns(client[e], client'[e], settings.capture, settings'.capture)
    <2>1. PICK c, new : c = client[e] /\ new = settings'.capture
      OBVIOUS
    <2>2. Record7(c)
      BY <2>1, ConvertedShape
    <2>3. CASE InFlight(c)
      <3>1. PICK d : d = [c EXCEPT !.seen = c.seen \cup {new}]
        OBVIOUS
      <3>2. d.pc = c.pc /\ d.req = c.req /\ d.seen = c.seen \cup {new} /\ d.rows = c.rows /\ d.scores = c.scores
        BY <2>2, <3>1 DEF Record7
      <3>3. client'[e] = d
        BY <1>1, <2>1, <2>3, <3>1
      <3> QED
        BY <2>1, <2>3, <3>2, <3>3 DEF Turns, InFlight, Converted
    <2>4. CASE ~InFlight(c)
      <3>1. client'[e] = c
        BY <1>1, <2>1, <2>4
      <3> QED
        BY <2>1, <2>4, <3>1 DEF Turns, InFlight, Converted
    <2> QED
      BY <2>3, <2>4
  <1>3. UNCHANGED <<load, wal, parquet>> /\ settings' \in load.settings
    BY DEF ChangeSettings, stored
  <1> QED
    BY <1>2, <1>3, AllTurn

(* A crash sends the exports back. *)
LEMMA TurnCrash ==
    ASSUME ConvertedIInv, Crash PROVE SeenInv' /\ StemInv'
  <1>1. client' = [e \in Exporters |-> IF client[e].pc \in {"idle", "retry", "done"} THEN client[e]
                                       ELSE Reset(client[e])]
    BY DEF Crash
  <1>2. ASSUME NEW e \in Exporters
        PROVE  Turns(client[e], client'[e], settings.capture, settings.capture)
    <2>1. PICK c : c = client[e]
      OBVIOUS
    <2>2. Record7(c)
      BY <2>1, ConvertedShape
    <2>3. CASE c.pc \in {"idle", "retry", "done"}
      <3>1. client'[e] = c
        BY <1>1, <2>1, <2>3
      <3> QED
        BY <2>1, <3>1, NoTurn
    <2>4. CASE c.pc \notin {"idle", "retry", "done"}
      <3>1. PICK d : d = With(c, "retry", "reset", c.open + 1)
        OBVIOUS
      <3>2. client'[e] = d
        BY <1>1, <2>1, <2>4, <3>1 DEF Reset, With
      <3>3. d.req = c.req /\ d.pc = "retry" /\ d.seen = c.seen
        BY <2>2, <3>1, SetAnswer
      <3> QED
        BY <2>1, <2>4, <3>2, <3>3, TurnsBack DEF Converted
    <2> QED
      BY <2>3, <2>4
  <1>3. UNCHANGED <<load, wal, parquet>> /\ settings' = settings /\ settings' \in load.settings
    BY DEF Crash, stored, ConvertedIInv, SeenInv
  <1> QED
    BY <1>2, <1>3, AllTurn

(* A record that is appended is a conversion of the export. *)
LEMMA TurnAppend ==
    ASSUME ConvertedIInv, NEW e \in Exporters, NEW signal, NEW rows, NEW next \in Converted,
           AppendRecord(e, signal, rows, next), UNCHANGED <<load, settings, parquet>>,
           client[e].pc \in Converted, rows \in Conversions(client[e], signal)
    PROVE  SeenInv' /\ StemInv'
  <1>1. CASE /\ wal' = Append(wal, Record(e, signal, rows))
             /\ client' = [client EXCEPT ![e].pc = next]
    <2>1. PICK d : d = [client[e] EXCEPT !.pc = next]
      OBVIOUS
    <2>2. client' = [client EXCEPT ![e] = d]
      BY <1>1, <2>1, ConvertedShape
    <2>3. Turns(client[e], d, settings.capture, settings.capture)
      BY <2>1, ConvertedShape, TurnsOn
    <2>4. \A u \in Exporters : Turns(client[u], client'[u], settings.capture, settings'.capture)
      BY <2>2, <2>3, OneTurns
    <2>5. SeenInv'
      <3>1. settings' \in load.settings
        BY DEF ConvertedIInv, SeenInv
      <3> QED
        BY <2>4, <3>1, SeenTurns DEF ConvertedIInv
    <2>6. (\A r \in Range(wal) : RecordStems(r)') /\ (\A p \in parquet : RowStems(p)')
      BY <2>4, StillStems DEF ConvertedIInv
    <2>7. Range(wal') = Range(wal) \cup {Record(e, signal, rows)}
      BY <1>1, AppendRange DEF ConvertedIInv, IngestIInv, ShapeInv
    <2>8. ASSUME NEW r, r = Record(e, signal, rows) PROVE RecordStems(r)'
      <3>1. r.client = e /\ r.signal = signal /\ r.envelope = "batch" /\ r.rows = rows
        BY <2>8 DEF Record
      <3>2. d.req = client[e].req /\ d.seen = client[e].seen /\ client'[e] = d
        BY <2>1, <2>2, ConvertedShape, SetPc
      <3>3. rows \in Conversions(d, signal)
        BY <3>2, ConversionsGrow
      <3>4. r.envelope = "batch" /\ r.rows \in Conversions(client'[r.client], r.signal)
        BY <3>1, <3>2, <3>3
      <3> QED
        BY <3>4 DEF RecordStems
    <2>9. \A r \in Range(wal') : RecordStems(r)'
      BY <2>6, <2>7, <2>8
    <2> QED
      BY <2>5, <2>6, <2>9 DEF StemInv
  <1>2. CASE /\ \E error \in AppendErrors : client' = [client EXCEPT ![e] = Answered(client[e], error)]
             /\ wal' = wal
    BY <1>2, TurnAnswers DEF Converted
  <1> QED
    BY <1>1, <1>2 DEF AppendRecord

LEMMA TurnInsert ==
    ASSUME ConvertedIInv, NEW e \in Exporters, InsertScores(e) \/ InsertRows(e) PROVE SeenInv' /\ StemInv'
  <1>1. /\ Record7(client[e]) /\ DOMAIN client = Exporters /\ client[e].pc \in Converted
        /\ client[e].scores \in Conversions(client[e], "scores")
        /\ client[e].rows \in Conversions(client[e], client[e].req.signal)
    <2>1. client[e].pc \in Converted /\ client[e].pc # "idle"
      BY DEF InsertScores, InsertRows, Converted
    <2> QED
      BY <2>1, ConvertedShape DEF ConvertedIInv, SeenInv
  <1>2. UNCHANGED <<load, settings, parquet>>
    BY DEF InsertScores, InsertRows
  <1>3. CASE InsertScores(e) /\ client[e].scores = <<>>
    <2>1. client' = [client EXCEPT ![e] = [client[e] EXCEPT !.pc = "scored"]] /\ wal' = wal
      BY <1>1, <1>3 DEF InsertScores
    <2>2. Turns(client[e], [client[e] EXCEPT !.pc = "scored"], settings.capture, settings.capture)
      BY <1>1, TurnsOn DEF Converted
    <2> QED
      BY <1>2, <2>1, <2>2, OneTurnsAlone
  <1>4. CASE InsertScores(e) /\ client[e].scores # <<>>
    <2>1. AppendRecord(e, "scores", client[e].scores, "syncing scores")
      BY <1>4 DEF InsertScores
    <2>2. "syncing scores" \in Converted
      BY DEF Converted
    <2> QED
      BY <1>1, <1>2, <2>1, <2>2, TurnAppend
  <1>5. CASE InsertRows(e) /\ client[e].rows = <<>>
    <2>1. client' = [client EXCEPT ![e] = Answered(client[e], Status("OK", FALSE))] /\ wal' = wal
      BY <1>5 DEF InsertRows
    <2>2. client[e].pc \notin {"idle", "done"}
      BY <1>1 DEF Converted
    <2> QED
      BY <1>2, <2>1, <2>2, TurnAnswers
  <1>6. CASE InsertRows(e) /\ client[e].rows # <<>>
    <2>1. AppendRecord(e, client[e].req.signal, client[e].rows, "syncing")
      BY <1>6 DEF InsertRows
    <2>2. "syncing" \in Converted
      BY DEF Converted
    <2> QED
      BY <1>1, <1>2, <2>1, <2>2, TurnAppend
  <1> QED
    BY <1>3, <1>4, <1>5, <1>6

LEMMA TurnScoresDurable ==
    ASSUME ConvertedIInv, NEW e \in Exporters, ScoresDurable(e) PROVE SeenInv' /\ StemInv'
  <1>1. Record7(client[e]) /\ DOMAIN client = Exporters /\ client[e].pc = "syncing scores"
    BY ConvertedShape DEF ScoresDurable
  <1>2. client' = [client EXCEPT ![e] = [client[e] EXCEPT !.pc = "scored"]]
    BY <1>1 DEF ScoresDurable
  <1>3. Turns(client[e], [client[e] EXCEPT !.pc = "scored"], settings.capture, settings.capture)
    BY <1>1, TurnsOn DEF Converted
  <1> QED
    BY <1>2, <1>3, OneTurnsAlone DEF ScoresDurable, stored

(* What the sink inserts are rows of records that stem from their exports. *)
LEMMA TurnFlush ==
    ASSUME ConvertedIInv, NEW signals, parquet' = parquet \cup RowsToInsert(signals),
           wal' = wal \/ wal' = <<>>, UNCHANGED <<load, client, settings>>
    PROVE  SeenInv' /\ StemInv'
  <1>1. \A e \in Exporters : Turns(client[e], client'[e], settings.capture, settings'.capture)
    BY NoTurn
  <1>2. SeenInv'
    <2>1. settings' \in load.settings
      BY DEF ConvertedIInv, SeenInv
    <2> QED
      BY <1>1, <2>1, SeenTurns DEF ConvertedIInv
  <1>3. (\A r \in Range(wal) : RecordStems(r)') /\ (\A p \in parquet : RowStems(p)')
    BY <1>1, StillStems DEF ConvertedIInv
  <1>4. Range(wal') \subseteq Range(wal)
    <2>1. Range(<<>>) = {}
      BY DEF Range
    <2> QED
      BY <2>1
  <1>5. ASSUME NEW x \in RowsToInsert(signals) PROVE RowStems(x)'
    <2>1. PICK r \in Range(wal) :
             /\ x.n = r.n /\ x.client = r.client /\ x.signal = r.signal /\ x.lacks = {}
             /\ x.i \in DOMAIN Decoded(r) /\ x.row = Batch(r.signal, Decoded(r)[x.i])
      BY Inserted
    <2>2. CASE x.client \in Exporters
      <3>1. r.envelope = "batch" /\ r.rows \in Conversions(client[r.client], r.signal)
        BY <2>1, <2>2 DEF ConvertedIInv, StemInv, RecordStems
      <3>2. Decoded(r) = r.rows
        BY <3>1 DEF Decoded
      <3> QED
        BY <2>1, <2>2, <3>1, <3>2 DEF RowStems
    <2>3. CASE x.client \notin Exporters
      BY <2>1, <2>3 DEF RowStems
    <2> QED
      BY <2>2, <2>3
  <1> QED
    BY <1>2, <1>3, <1>4, <1>5 DEF StemInv

LEMMA ConvertedNext == ConvertedIInv /\ [Next]_vars => ConvertedIInv'
  <1> SUFFICES ASSUME ConvertedIInv, [Next]_vars PROVE SeenInv' /\ StemInv'
    BY IngestNext DEF ConvertedIInv
  <1>1. CASE UNCHANGED vars \/ Tick
    <2>1. UNCHANGED <<load, client, settings, wal, parquet>>
      BY <1>1 DEF vars, Tick, stored
    <2>2. /\ \A e \in Exporters : Turns(client[e], client'[e], settings.capture, settings'.capture)
          /\ settings' \in load.settings
      BY <2>1, NoTurn DEF ConvertedIInv, SeenInv
    <2> QED
      BY <2>1, <2>2, AllTurn
  <1>2. ASSUME NEW e \in Exporters, Submit(e) \/ Retry(e) PROVE SeenInv' /\ StemInv'
    BY <1>2, TurnSubmit, TurnRetry
  <1>3. ASSUME NEW e \in Exporters, Serve(e) PROVE SeenInv' /\ StemInv'
    BY <1>3, TurnScreen, TurnEnforceSettings, TurnInsert, TurnScoresDurable, TurnFails DEF Serve
  <1>4. ASSUME NEW e \in Exporters, Fault(e) PROVE SeenInv' /\ StemInv'
    BY <1>4, TurnUndrained, TurnFails, TurnDeadline DEF Fault
  <1>5. CASE ChangeSettings
    BY <1>5, TurnChangeSettings
  <1>6. CASE Flush
    BY <1>6, TurnFlush DEF Flush
  <1>7. CASE FlushFails
    <2>1. PICK k \in DOMAIN SignalOrder :
             parquet' = parquet \cup RowsToInsert(Range(SubSeq(SignalOrder, 1, k - 1)))
      BY <1>7 DEF FlushFails
    <2> QED
      BY <1>7, <2>1, TurnFlush DEF FlushFails
  <1>8. CASE Crash
    BY <1>8, TurnCrash
  <1> QED
    BY <1>1, <1>2, <1>3, <1>4, <1>5, <1>6, <1>7, <1>8 DEF Next

(* Every record of the WAL and every row in Parquet is a conversion of the *)
(* request of its export, made under a setting the workspace had while     *)
(* that export was under way, whatever was changed, retried, lost in a     *)
(* crash or flushed twice in between.                                      *)
THEOREM ConvertedInvariant == Spec => []ConvertedIInv
  <1>1. Init => ConvertedIInv
    <2> SUFFICES ASSUME Init PROVE SeenInv /\ StemInv
      BY IngestInit DEF ConvertedIInv
    <2>1. /\ load \in Loads /\ wal = load.wal /\ parquet = load.files /\ settings \in load.settings
          /\ \A e \in Exporters : client[e].pc = "idle"
      BY DEF Init
    <2>2. SeenInv
      BY <2>1 DEF SeenInv
    <2>3. StemInv
      BY <2>1, LoadsAssumption DEF StemInv, RecordStems, RowStems
    <2> QED
      BY <2>2, <2>3
  <1>2. ConvertedIInv /\ [Next]_vars => ConvertedIInv'
    BY ConvertedNext
  <1> QED
    BY <1>1, <1>2, PTL DEF Spec

(* The rows of a request, signal by signal. *)
LEMMA RowsOfTraces ==
    ASSUME NEW req, req.signal = "traces", NEW capture
    PROVE  Rows(req, capture) = [i \in DOMAIN req.items |-> ConvertSpan(req.items[i], Workspace, capture)]
  BY Zenon DEF Rows

LEMMA RowsOfLogs ==
    ASSUME NEW req, req.signal = "logs", NEW capture
    PROVE  Rows(req, capture) = [i \in DOMAIN req.items |-> ConvertLog(req.items[i], req.resource, Workspace, Now)]
  <1>1. req.signal # "traces"
    OBVIOUS
  <1> QED
    BY <1>1, Zenon DEF Rows

(* Without capture a span is scrubbed, and a scrubbed row has no content. *)
LEMMA ScrubbedHasNone ==
    ASSUME NEW s, NEW w, NEW f \in ContentFields, NEW table
    PROVE  ReadSpan([lacks |-> {}, row |-> SpanBatch(ConvertSpan(s, w, FALSE))], table)[f] = ""
  <1>1. PICK row : ConvertSpan(s, w, FALSE) = Scrubbed(row)
    BY Zenon DEF ConvertSpan
  <1>2. f \in DOMAIN Scrubbed(row) /\ Scrubbed(row)[f] = ""
    BY DEF Scrubbed
  <1>3. f \in Columns
    BY DEF ContentFields, Columns, RequiredCols, OptionalCols, AgenticCols
  <1>4. PICK b : b = SpanBatch(ConvertSpan(s, w, FALSE))
    OBVIOUS
  <1>5. f \in DOMAIN b /\ b[f] = ""
    BY <1>1, <1>2, <1>3, <1>4 DEF SpanBatch
  <1>6. ReadDefault(f) = ""
    BY DEF ContentFields, ReadDefault, TriState
  <1>7. PICK file : file = [lacks |-> {}, row |-> b]
    OBVIOUS
  <1>8. file.lacks = {} /\ file.row = b
    BY <1>7
  <1>9. ReadSpan(file, table)[f] = IF f \notin table THEN ReadDefault(f) ELSE Field(b, f)
    BY <1>3, <1>8 DEF ReadSpan
  <1>10. Field(b, f) = ""
    BY <1>5 DEF Field
  <1>11. ReadSpan(file, table)[f] = ""
    BY <1>6, <1>9, <1>10
  <1> QED
    BY <1>4, <1>7, <1>11

(* No content is stored for a workspace that did not capture content at any *)
(* time while the export was under way: not by a retry under another       *)
(* setting, nor by a replay of the WAL (converter.rs capture_content).     *)
THEOREM ContentNeedsCaptureHolds == Spec => []ContentNeedsCapture
  <1>1. ASSUME ConvertedIInv PROVE ContentNeedsCapture
    <2> SUFFICES ASSUME NEW p \in parquet, p.client \in Exporters, p.signal = "traces",
                        TRUE \notin client[p.client].seen, NEW table \in SUBSET Columns, NEW f \in ContentFields
                 PROVE  ReadSpan(p, table)[f] = ""
      BY DEF ContentNeedsCapture
    <2>1. PICK c : c = client[p.client]
      OBVIOUS
    <2>2. c.pc # "idle" /\ c.seen \subseteq BOOLEAN /\ TRUE \notin c.seen
      BY <1>1, <2>1 DEF ConvertedIInv, IngestIInv, NumberInv, SeenInv
    <2>3. PICK rows \in Conversions(c, "traces") : p.i \in DOMAIN rows /\ p.row = Batch("traces", rows[p.i])
      BY <1>1, <2>1 DEF ConvertedIInv, StemInv, RowStems
    <2>4. c.req.signal = "traces" /\ \E capture \in c.seen : rows = Rows(c.req, capture)
      BY <2>3 DEF Conversions
    <2>5. PICK capture \in c.seen : rows = Rows(c.req, capture)
      BY <2>4
    <2>6. PICK req : req = c.req
      OBVIOUS
    <2>7. rows = [i \in DOMAIN req.items |-> ConvertSpan(req.items[i], Workspace, capture)]
      <3>1. req.signal = "traces" /\ rows = Rows(req, capture)
        BY <2>4, <2>5, <2>6
      <3> QED
        BY <3>1, RowsOfTraces
    <2>c. capture = FALSE
      BY <2>2, <2>5
    <2>a. rows[p.i] = ConvertSpan(req.items[p.i], Workspace, FALSE)
      BY <2>3, <2>7, <2>c
    <2>b. p.row = SpanBatch(rows[p.i])
      BY <2>3 DEF Batch
    <2>d. PICK s : p.row = SpanBatch(ConvertSpan(s, Workspace, FALSE))
      BY <2>a, <2>b
    <2>8. p.lacks = {}
      BY <1>1 DEF ConvertedIInv, StemInv, RowStems
    <2>9. ReadSpan([lacks |-> {}, row |-> p.row], table)[f] = ""
      BY <2>d, ScrubbedHasNone
    <2>10. PICK file : file = [lacks |-> {}, row |-> p.row]
      OBVIOUS
    <2>11. file.lacks = p.lacks /\ file.row = p.row
      BY <2>8, <2>10
    <2>12. ReadSpan(p, table) = ReadSpan(file, table)
      BY <2>11, Zenon DEF ReadSpan
    <2> QED
      BY <2>9, <2>10, <2>12
  <1> QED
    BY <1>1, ConvertedInvariant, PTL

(* A column that may be missing reads as its default from a table without it,  *)
(* and as its default or, for an unknown flag, as 0 from one that has it.      *)
LEMMA MissingColumns ==
    ASSUME NEW f \in OptionalCols
    PROVE  /\ f \in Columns /\ f \notin RequiredCols /\ ReadDefault(f) = Default(f)
           /\ ReadNull(f) = IF f \in TriState THEN 0 ELSE Default(f)
  <1>1. CASE f \in GuardrailCols
    BY <1>1 DEF GuardrailCols, Columns, RequiredCols, ReadDefault, ReadNull, TriState, Default, I16Fields, I32Fields,
                I64Fields, F64Fields, JsonFields
  <1>2. CASE f \in Phase1Cols
    BY <1>2 DEF Phase1Cols, GuardrailCols, Columns, RequiredCols, ReadDefault, ReadNull, TriState, Default, I16Fields,
                I32Fields, I64Fields, F64Fields, JsonFields
  <1>3. CASE f \in Phase4Cols
    BY <1>3 DEF Phase4Cols, GuardrailCols, Columns, RequiredCols, ReadDefault, ReadNull, TriState, Default, I16Fields,
                I32Fields, I64Fields, F64Fields, JsonFields
  <1>4. CASE f \in AgenticCols
    BY <1>4 DEF AgenticCols, GuardrailCols, Columns, RequiredCols, ReadDefault, ReadNull, TriState, Default, I16Fields,
                I32Fields, I64Fields, F64Fields, JsonFields
  <1>5. CASE f \in {"prompt_id", "prompt_name"}
    BY <1>5 DEF GuardrailCols, Columns, RequiredCols, ReadDefault, ReadNull, TriState, Default, I16Fields, I32Fields,
                I64Fields, F64Fields, JsonFields
  <1> QED
    BY <1>1, <1>2, <1>3, <1>4, <1>5 DEF OptionalCols

(* Files of all releases, read together with whichever schema: no column   *)
(* that an exporter of its release could fill is lost or invented, but for *)
(* those the table lacks and the flags whose absence a null hides          *)
(* (schema/spans.rs record_batch_to_spans, reader.rs execute).             *)
THEOREM FilesReadAsWrittenHolds == Spec => []FilesReadAsWritten
  <1>1. ASSUME ConvertedIInv PROVE FilesReadAsWritten
    <2> SUFFICES ASSUME NEW files \in SUBSET SpanFiles, NEW table \in TableSchemas(files), NEW p \in files
                 PROVE  ReadAsWritten(p, table)
      BY DEF FilesReadAsWritten
    <2>1. \A q \in files : q.lacks \subseteq OptionalCols
      BY <1>1 DEF SpanFiles, ConvertedIInv, StemInv, RowStems
    <2>2. \A q \in files : RequiredCols \subseteq Columns \ q.lacks
      BY <2>1, MissingColumns DEF Columns
    <2>3. RequiredCols \subseteq table /\ table \subseteq Columns
      BY <2>2 DEF TableSchemas
    <2>4. ASSUME NEW f \in Columns, f \notin table PROVE ReadSpan(p, table)[f] = Default(f)
      <3>1. f \in OptionalCols
        BY <2>3, <2>4 DEF Columns
      <3> QED
        BY <2>4, <3>1, MissingColumns DEF ReadSpan
    <2>5. ASSUME NEW f \in Columns, f \in table, f \notin p.lacks PROVE ReadSpan(p, table)[f] = Field(p.row, f)
      BY <2>5 DEF ReadSpan
    <2>6. ASSUME NEW f \in Columns, f \in table, f \in p.lacks
          PROVE  ReadSpan(p, table)[f] = IF f \in TriState THEN 0 ELSE Default(f)
      <3>1. f \in OptionalCols
        BY <2>1, <2>6
      <3> QED
        BY <2>6, <3>1, MissingColumns DEF ReadSpan
    <2> QED
      BY <2>3, <2>4, <2>5, <2>6 DEF ReadAsWritten, ReadFails
  <1> QED
    BY <1>1, ConvertedInvariant, PTL

(* A severity that is not given in words is named after its number. *)
LEMMA SeverityNamed ==
    ASSUME NEW n \in Int
    PROVE  SeverityText(n) # ""
  <1>1. CASE n \in 1..24
    <2>1. ((n - 1) \div 4) + 1 \in 1..6
      BY <1>1
    <2>2. PICK k \in 1..6 : k = ((n - 1) \div 4) + 1
      BY <2>1
    <2>3. SeverityText(n) = <<"TRACE", "DEBUG", "INFO", "WARN", "ERROR", "FATAL">>[k]
      BY <1>1, <2>2, Zenon DEF SeverityText
    <2>4. k = 1 \/ k = 2 \/ k = 3 \/ k = 4 \/ k = 5 \/ k = 6
      BY <2>2
    <2>5. <<"TRACE", "DEBUG", "INFO", "WARN", "ERROR", "FATAL">>[k] # ""
      <3>1. PICK t : t = <<"TRACE", "DEBUG", "INFO", "WARN", "ERROR", "FATAL">>
        OBVIOUS
      <3>2. t[1] = "TRACE" /\ t[2] = "DEBUG" /\ t[3] = "INFO"
        BY <3>1
      <3>3. t[4] = "WARN" /\ t[5] = "ERROR" /\ t[6] = "FATAL"
        BY <3>1
      <3>4. t[k] # ""
        <4>1. CASE k = 1
          BY <3>2, <4>1, Zenon
        <4>2. CASE k = 2
          BY <3>2, <4>2, Zenon
        <4>3. CASE k = 3
          BY <3>2, <4>3, Zenon
        <4>4. CASE k = 4
          BY <3>3, <4>4, Zenon
        <4>5. CASE k = 5
          BY <3>3, <4>5, Zenon
        <4>6. CASE k = 6
          BY <3>3, <4>6, Zenon
        <4> QED
          BY <2>4, <4>1, <4>2, <4>3, <4>4, <4>5, <4>6
      <3> QED
        BY <3>1, <3>4, Zenon
    <2> QED
      BY <2>3, <2>5
  <1>2. CASE n \notin 1..24
    BY <1>2 DEF SeverityText
  <1> QED
    BY <1>1, <1>2

(* A log that is read back says what was sent. *)
LEMMA LogsFaithful ==
    ASSUME NEW log, log.time \in Nat, log.severity_number \in Int, NEW resource, NEW w, NEW p,
           p.row = LogBatch(ConvertLog(log, resource, w, Now))
    PROVE  LogAsSent(log, ShowLog(ReadLog(p)))
  <1>1. PICK row : row = ConvertLog(log, resource, w, Now)
    OBVIOUS
  <1>2. /\ row.timestamp = IF log.time > 0 THEN log.time ELSE Now
        /\ row.severity = IF log.severity_text # "" THEN log.severity_text ELSE SeverityText(log.severity_number)
        /\ row.message = Text(log.body) /\ row.trace_id = log.trace
    BY <1>1 DEF ConvertLog
  <1>3. PICK read : read = ReadLog(p)
    OBVIOUS
  <1>4. \A f \in LogColumns : read[f] = row[f]
    BY <1>1, <1>3 DEF ReadLog, LogBatch
  <1>5. /\ read.timestamp = row.timestamp /\ read.severity = row.severity /\ read.message = row.message
        /\ read.trace_id = row.trace_id
    BY <1>4 DEF LogColumns
  <1>6. PICK shown : shown = ShowLog(read)
    OBVIOUS
  <1>7. /\ shown.timestamp = read.timestamp /\ shown.severity = read.severity /\ shown.message = read.message
        /\ read.trace_id = "" => "trace_id" \notin DOMAIN shown
    BY <1>6 DEF ShowLog
  <1>8. row.severity # ""
    BY <1>2, SeverityNamed
  <1>9. row.timestamp > 0 /\ (log.time > 0 => row.timestamp = log.time)
    <2>1. Now \in Nat /\ Now > 0
      BY LoadsAssumption
    <2>2. CASE log.time > 0
      BY <1>2, <2>2
    <2>3. CASE ~(log.time > 0)
      <3>1. row.timestamp = Now
        BY <1>2, <2>3
      <3> QED
        BY <2>1, <2>3, <3>1
    <2> QED
      BY <2>2, <2>3
  <1> QED
    BY <1>2, <1>3, <1>5, <1>6, <1>7, <1>8, <1>9 DEF LogAsSent

(* Every stored log, read back and shown, says what the exporter sent:     *)
(* whichever attempt stored it, through failing flushes, crashes and       *)
(* replays (log_converter.rs, schema/logs.rs).                             *)
THEOREM LogsAsSentHolds == Spec => []LogsAsSent
  <1>1. ASSUME ConvertedIInv PROVE LogsAsSent
    <2> SUFFICES ASSUME NEW p \in parquet, p.client \in Exporters, p.signal = "logs"
                 PROVE  LogAsSent(client[p.client].req.items[p.i], ShowLog(ReadLog(p)))
      BY DEF LogsAsSent
    <2>1. PICK c, req : c = client[p.client] /\ req = c.req
      OBVIOUS
    <2>2. c.pc # "idle" /\ req \in load.requests /\ load \in Loads
      BY <1>1, <2>1 DEF ConvertedIInv, IngestIInv, NumberInv, SeenInv
    <2>3. PICK rows \in Conversions(c, "logs") : p.i \in DOMAIN rows /\ p.row = Batch("logs", rows[p.i])
      BY <1>1, <2>1 DEF ConvertedIInv, StemInv, RowStems
    <2>4. req.signal = "logs" /\ \E capture \in c.seen : rows = Rows(req, capture)
      BY <2>1, <2>3 DEF Conversions
    <2>5. PICK capture \in c.seen : rows = Rows(req, capture)
      BY <2>4
    <2>6. p.row = LogBatch(rows[p.i])
      BY <2>3 DEF Batch
    <2>7. rows = [i \in DOMAIN req.items |-> ConvertLog(req.items[i], req.resource, Workspace, Now)]
      BY <2>4, <2>5, RowsOfLogs
    <2>8. p.i \in DOMAIN req.items /\ rows[p.i] = ConvertLog(req.items[p.i], req.resource, Workspace, Now)
      BY <2>3, <2>7
    <2>9. req.items[p.i].time \in Nat /\ req.items[p.i].severity_number \in Int
      BY <2>2, <2>4, <2>8, LoadsAssumption
    <2>10. LogAsSent(req.items[p.i], ShowLog(ReadLog(p)))
      BY <2>6, <2>8, <2>9, LogsFaithful
    <2> QED
      BY <2>1, <2>10
  <1> QED
    BY <1>1, ConvertedInvariant, PTL
=============================================================================
