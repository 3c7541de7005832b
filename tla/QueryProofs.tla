---------------------------- MODULE QueryProofs ----------------------------
(***************************************************************************)
(* Proofs about Query: type and shape of the request in flight, the        *)
(* tenant's scope, the retention clamp, pruning by file bounds, the        *)
(* capability a caller needs, and paging.                                  *)
(***************************************************************************)
EXTENDS QueryInv, FiniteSums

-----------------------------------------------------------------------------
(* Time.                                                                   *)

\* Division by the length of a microsecond keeps the order.
LEMMA DivMonotone ==
    ASSUME NEW a \in Int, NEW b \in Int, a <= b
    PROVE  a \div Micro \in Int /\ b \div Micro \in Int /\ a \div Micro <= b \div Micro
<1>1. Micro \in Nat \ {0}
    BY QueryAssumption
<1> QED BY <1>1

-----------------------------------------------------------------------------
(* Rows and the tables a scan makes of them.                               *)

\* Numbering a copy leaves every other column alone.
LEMMA CopyKeeps ==
    ASSUME NEW r \in Rows, NEW k
    PROVE  LET x == [r EXCEPT !.copy = k]
           IN  /\ x.copy = k /\ x.id = r.id /\ x.trace_id = r.trace_id /\ x.workspace_id = r.workspace_id
               /\ x.signal = r.signal /\ x.timestamp = r.timestamp /\ x.service_name = r.service_name
               /\ r.signal = "traces" => /\ x.duration = r.duration /\ x.span_name = r.span_name
                                         /\ x.status_code = r.status_code
<1>1. IsRow(r)
    BY QueryAssumption
<1> QED BY <1>1 DEF IsRow

\* A table holds copies of stored rows.
LEMMA CopiesAreOf ==
    ASSUME NEW fs, NEW x
    PROVE  x \in Copies(fs) <=>
             \E r \in StoredRows(fs) : \E k \in 1..Cardinality({f \in fs : r \in f.rows}) : x = [r EXCEPT !.copy = k]
BY DEF Copies

\* Stored rows are rows, and those of a file have its workspace and signal.
LEMMA StoredAreRows ==
    ASSUME FilesInv, NEW fs \in SUBSET files, NEW r \in StoredRows(fs)
    PROVE  /\ r \in Rows /\ r.timestamp \in Int /\ r.workspace_id \in Workspaces
           /\ \E f \in fs : r \in f.rows
           /\ \A f \in files : r \in f.rows =>
                 /\ f.workspace_id = r.workspace_id /\ f.signal = r.signal
                 /\ f.min_ts <= r.timestamp \div Micro /\ r.timestamp \div Micro <= f.max_ts
<1>1. PICK f \in fs : r \in f.rows
    BY DEF StoredRows
<1>2. FileOK(f) /\ r \in Rows
    BY <1>1 DEF FilesInv, FileOK
<1>3. IsRow(r)
    BY <1>2, QueryAssumption
<1>4. ASSUME NEW g \in files, r \in g.rows
      PROVE  /\ g.workspace_id = r.workspace_id /\ g.signal = r.signal
             /\ g.min_ts <= r.timestamp \div Micro /\ r.timestamp \div Micro <= g.max_ts
    BY <1>4 DEF FilesInv, FileOK
<1> QED BY <1>1, <1>2, <1>3, <1>4 DEF IsRow

\* Every file that holds a row in range is listed: a row has the same copies
\* in the scan as in the whole table.
LEMMA HoldersListed ==
    ASSUME FilesInv, NEW ws, NEW signal, NEW range \in Optional([start : Int, end : Int]),
           NEW r \in StoredRows(files), r.workspace_id = ws, r.signal = signal, In(r.timestamp, range)
    PROVE  {f \in QueryFiles(files, ws, signal, range) : r \in f.rows}
             = {f \in {g \in files : g.signal = signal} : r \in f.rows}
<1>1. ASSUME NEW f \in files, r \in f.rows
      PROVE  f \in QueryFiles(files, ws, signal, range)
  <2>1. /\ r \in Rows /\ r.timestamp \in Int
        /\ f.workspace_id = r.workspace_id /\ f.signal = r.signal
        /\ f.min_ts <= r.timestamp \div Micro /\ r.timestamp \div Micro <= f.max_ts
      BY <1>1, StoredAreRows
  <2>2. CASE range = Unset
      BY <2>1, <2>2 DEF QueryFiles
  <2>3. CASE range # Unset
    <3>1. range.start \in Int /\ range.end \in Int
        BY <2>3 DEF Optional
    <3>2. range.start <= r.timestamp /\ r.timestamp <= range.end
        BY <2>3 DEF In
    <3>3. /\ range.start \div Micro \in Int /\ r.timestamp \div Micro \in Int
          /\ range.start \div Micro <= r.timestamp \div Micro
        BY <2>1, <3>1, <3>2, DivMonotone
    <3>4. range.end \div Micro \in Int /\ r.timestamp \div Micro <= range.end \div Micro
        BY <2>1, <3>1, <3>2, DivMonotone
    <3>5. f.min_ts \in Int /\ f.max_ts \in Int
        BY DEF FilesInv, FileOK
    <3>6. f.max_ts >= range.start \div Micro /\ f.min_ts <= range.end \div Micro
        BY <2>1, <3>3, <3>4, <3>5
    <3> QED BY <2>1, <3>6 DEF QueryFiles
  <2> QED BY <2>2, <2>3
<1>2. QueryFiles(files, ws, signal, range) \subseteq {g \in files : g.signal = signal}
    BY DEF QueryFiles
<1> QED BY <1>1, <1>2

\* So the rows that match the conditions of a scan are those that match them
\* in the whole table.
LEMMA ScanIsExact ==
    ASSUME FilesInv, NEW req \in Request, NEW range \in Optional([start : Int, end : Int])
    PROVE  {x \in Scanned(req, range) : Where(req, range, x)} = {x \in OfSignal(req.kind) : Where(req, range, x)}
<1> DEFINE signal == SignalOf(req.kind)
           listed == QueryFiles(files, req.workspace_id, signal, range)
           all == {f \in files : f.signal = signal}
<1> HIDE DEF signal
<1>1. Scanned(req, range) = Copies(listed) /\ OfSignal(req.kind) = Copies(all)
    BY DEF Scanned, OfSignal, signal
<1>2. listed \in SUBSET all /\ all \in SUBSET files /\ listed \in SUBSET files
    BY DEF QueryFiles
<1> HIDE DEF listed, all
<1>3. ASSUME NEW r \in StoredRows(all), NEW k, Where(req, range, [r EXCEPT !.copy = k])
      PROVE  /\ {f \in listed : r \in f.rows} = {f \in all : r \in f.rows}
             /\ r \in StoredRows(listed)
  <2>1. r \in Rows /\ (\E f \in all : r \in f.rows) /\ \A f \in files : r \in f.rows => f.signal = r.signal
      BY <1>2, StoredAreRows
  <2>2. r \in StoredRows(files) /\ r.signal = signal
      BY <1>2, <2>1 DEF all, StoredRows
  <2>3. r.workspace_id = req.workspace_id /\ In(r.timestamp, range)
      BY <1>3, <2>1, CopyKeeps DEF Where
  <2>4. {f \in listed : r \in f.rows} = {f \in all : r \in f.rows}
      BY <2>2, <2>3, HoldersListed DEF listed, all
  <2> QED BY <2>1, <2>4 DEF StoredRows
<1>4. ASSUME NEW x, Where(req, range, x)
      PROVE  x \in Copies(listed) <=> x \in Copies(all)
  <2>1. ASSUME x \in Copies(listed) PROVE x \in Copies(all)
    <3>1. PICK r \in StoredRows(listed) : \E k \in 1..Cardinality({f \in listed : r \in f.rows}) : x = [r EXCEPT !.copy = k]
        BY <2>1, CopiesAreOf
    <3>2. PICK k \in 1..Cardinality({f \in listed : r \in f.rows}) : x = [r EXCEPT !.copy = k]
        BY <3>1
    <3>3. r \in StoredRows(all)
        BY <1>2 DEF StoredRows
    <3>4. {f \in listed : r \in f.rows} = {f \in all : r \in f.rows}
        BY <1>3, <1>4, <3>2, <3>3
    <3> QED BY <3>2, <3>3, <3>4, CopiesAreOf
  <2>2. ASSUME x \in Copies(all) PROVE x \in Copies(listed)
    <3>1. PICK r \in StoredRows(all) : \E k \in 1..Cardinality({f \in all : r \in f.rows}) : x = [r EXCEPT !.copy = k]
        BY <2>2, CopiesAreOf
    <3>2. PICK k \in 1..Cardinality({f \in all : r \in f.rows}) : x = [r EXCEPT !.copy = k]
        BY <3>1
    <3>3. r \in StoredRows(listed) /\ {f \in listed : r \in f.rows} = {f \in all : r \in f.rows}
        BY <1>3, <1>4, <3>2
    <3> QED BY <3>2, <3>3, CopiesAreOf
  <2> QED BY <2>1, <2>2
<1> QED BY <1>1, <1>4

\* The units of a listing depend on the rows that match its conditions alone -
\* summaries of traces only when no span name decides which traces qualify.
LEMMA UnitsOfMatching ==
    ASSUME NEW req, NEW range, NEW rs, NEW ss, req.kind \in Listings,
           {x \in rs : Where(req, range, x)} = {x \in ss : Where(req, range, x)},
           req.kind = "traces" => req.span_name = Unset
    PROVE  Units(req, range, rs) = Units(req, range, ss)
<1>1. CASE req.kind = "traces"
  <2>1. TraceSpans(req, range, rs) = {x \in rs : Where(req, range, x)}
      BY <1>1 DEF Where, TraceSpans
  <2>2. TraceSpans(req, range, ss) = {x \in ss : Where(req, range, x)}
      BY <1>1 DEF Where, TraceSpans
  <2>3. TraceSpans(req, range, rs) = TraceSpans(req, range, ss)
      BY <2>1, <2>2
  <2> QED BY <1>1, <2>3 DEF Units
<1>2. CASE req.kind # "traces"
  <2>1. /\ MatchingSpans(req, range, rs) = MatchingSpans(req, range, ss)
        /\ MatchingLogs(req, range, rs) = MatchingLogs(req, range, ss)
        /\ MatchingMetrics(req, range, rs) = MatchingMetrics(req, range, ss)
      BY DEF MatchingSpans, MatchingLogs, MatchingMetrics
  <2>2. MatchingRows(req, range, rs) = MatchingRows(req, range, ss)
      BY <2>1 DEF MatchingRows
  <2> QED BY <1>2, <2>2 DEF Units
<1> QED BY <1>1, <1>2

\* The rows of a set of files, and the tables made of them, are finite.
LEMMA StoredFinite ==
    ASSUME FilesInv, NEW fs \in SUBSET files
    PROVE  IsFiniteSet(fs) /\ IsFiniteSet(StoredRows(fs))
<1>1. IsFiniteSet(fs)
    BY FS_Subset DEF FilesInv
<1>2. IsFiniteSet({f.rows : f \in fs})
  <2> DEFINE g == [f \in fs |-> f.rows]
  <2>1. IsFiniteSet({g[f] : f \in fs})
      BY <1>1, FiniteImage
  <2> QED BY <2>1
<1>3. \A T \in {f.rows : f \in fs} : IsFiniteSet(T)
    BY DEF FilesInv, FileOK
<1> QED BY <1>1, <1>2, <1>3, FS_UNION DEF StoredRows

LEMMA CopiesFinite ==
    ASSUME FilesInv, NEW fs \in SUBSET files
    PROVE  IsFiniteSet(Copies(fs))
<1> DEFINE Numbered(r) == {[r EXCEPT !.copy = k] : k \in 1..Cardinality({f \in fs : r \in f.rows})}
           parts == {Numbered(r) : r \in StoredRows(fs)}
<1>1. IsFiniteSet(fs) /\ IsFiniteSet(StoredRows(fs))
    BY StoredFinite
<1>2. IsFiniteSet(parts)
  <2> DEFINE g == [r \in StoredRows(fs) |-> Numbered(r)]
  <2> HIDE DEF Numbered
  <2>1. IsFiniteSet({g[r] : r \in StoredRows(fs)})
      BY <1>1, FiniteImage
  <2> QED BY <2>1
<1>3. ASSUME NEW T \in parts PROVE IsFiniteSet(T)
  <2>1. PICK r \in StoredRows(fs) : T = Numbered(r)
      OBVIOUS
  <2> DEFINE n == Cardinality({f \in fs : r \in f.rows})
             Nth(k) == [r EXCEPT !.copy = k]
             g == [k \in 1..n |-> Nth(k)]
  <2>2. IsFiniteSet({f \in fs : r \in f.rows})
      BY <1>1, FS_Subset
  <2>3. n \in Nat
      BY <2>2, FS_CardinalityType
  <2> HIDE DEF n
  <2>4. IsFiniteSet(1..n)
      BY <2>3, FS_Interval
  <2>5. T = {Nth(k) : k \in 1..n}
      BY <2>1 DEF n
  <2> HIDE DEF Nth
  <2>6. DOMAIN g = 1..n /\ T = {g[k] : k \in 1..n}
      BY <2>5
  <2> HIDE DEF g, parts
  <2>7. IsFiniteSet({g[k] : k \in 1..n})
      BY <2>4, <2>6, FiniteImage
  <2> QED BY <2>6, <2>7
<1>4. Copies(fs) = UNION parts
    BY DEF Copies
<1> HIDE DEF parts
<1> QED BY <1>2, <1>3, <1>4, FS_UNION

\* The bounds writer.rs registers enclose the rows of a new file.
LEMMA FileOfOK ==
    ASSUME NEW rs \in Batches
    PROVE  FileOK(FileOf(rs))
<1> DEFINE first == CHOOSE x \in rs : TRUE
           starts == {x.timestamp : x \in rs}
           ends == {End(x) : x \in rs}
<1>1. /\ rs \subseteq Rows /\ rs # {} /\ IsFiniteSet(rs)
      /\ \A a, b \in rs : a.workspace_id = b.workspace_id /\ a.signal = b.signal
    BY QueryAssumption
<1>2. \A r \in rs : IsRow(r)
    BY <1>1, QueryAssumption
<1>3. first \in rs
    BY <1>1
<1>4. \A r \in rs : r.timestamp \in Int /\ End(r) \in Int /\ r.timestamp <= End(r)
    BY <1>2 DEF IsRow, End
<1>5. starts \in SUBSET Int /\ ends \in SUBSET Int /\ starts # {} /\ ends # {}
    BY <1>1, <1>4
<1>6. IsFiniteSet(starts) /\ IsFiniteSet(ends)
  <2> DEFINE g == [x \in rs |-> x.timestamp]
             h == [x \in rs |-> End(x)]
  <2>0. /\ starts = {g[x] : x \in rs}
        /\ ends = {h[x] : x \in rs}
      OBVIOUS
  <2> HIDE DEF g, h, starts, ends
  <2>1. IsFiniteSet({g[x] : x \in rs})
      BY <1>1, FiniteImage, Zenon
  <2>2. IsFiniteSet({h[x] : x \in rs})
      BY <1>1, FiniteImage, Zenon
  <2> QED BY <2>0, <2>1, <2>2, Zenon
<1>7. FileOf(rs) = [workspace_id |-> first.workspace_id, signal |-> first.signal, rows |-> rs,
                    min_ts |-> Min(starts) \div Micro, max_ts |-> Max(ends) \div Micro]
    BY DEF FileOf
<1> HIDE DEF first, starts, ends
<1>8. /\ Min(starts) \in Int /\ \A y \in starts : Min(starts) <= y
      /\ Max(ends) \in Int /\ \A y \in ends : Max(ends) >= y
    BY <1>5, <1>6, FiniteMin, FiniteMax
<1>9. ASSUME NEW r \in rs
      PROVE  /\ Min(starts) \div Micro <= r.timestamp \div Micro
             /\ r.timestamp \div Micro <= Max(ends) \div Micro
             /\ Min(starts) \div Micro \in Int /\ Max(ends) \div Micro \in Int
  <2>1. Min(starts) <= r.timestamp
      BY <1>8 DEF starts
  <2>2. r.timestamp <= Max(ends)
    <3>1. End(r) \in ends
        BY DEF ends
    <3>2. Max(ends) >= End(r)
        BY <1>8, <3>1
    <3> QED BY <1>4, <1>8, <3>2
  <2> QED BY <1>4, <1>8, <2>1, <2>2, DivMonotone
<1>10. first.workspace_id \in Workspaces /\ first.signal \in {"traces", "logs", "metrics"}
    BY <1>2, <1>3 DEF IsRow
<1> QED BY <1>1, <1>3, <1>7, <1>9, <1>10 DEF FileOK

\* So do those of a merged file.
LEMMA MergedOK ==
    ASSUME FilesInv, NEW f \in files, NEW g \in files, f.workspace_id = g.workspace_id, f.signal = g.signal
    PROVE  FileOK([f EXCEPT !.rows = f.rows \cup g.rows, !.min_ts = Min({@, g.min_ts}),
                            !.max_ts = Max({@, g.max_ts})])
<1> DEFINE m == [f EXCEPT !.rows = f.rows \cup g.rows, !.min_ts = Min({@, g.min_ts}),
                          !.max_ts = Max({@, g.max_ts})]
<1>1. FileOK(f) /\ FileOK(g)
    BY DEF FilesInv
<1>2. f.min_ts \in Int /\ g.min_ts \in Int /\ f.max_ts \in Int /\ g.max_ts \in Int
    BY <1>1 DEF FileOK
<1>3. /\ Min({f.min_ts, g.min_ts}) = IF f.min_ts <= g.min_ts THEN f.min_ts ELSE g.min_ts
      /\ Max({f.max_ts, g.max_ts}) = IF f.max_ts >= g.max_ts THEN f.max_ts ELSE g.max_ts
    BY <1>2, MinOfTwo, MaxOfTwo
<1>4. /\ m.workspace_id = f.workspace_id /\ m.signal = f.signal /\ m.rows = f.rows \cup g.rows
      /\ m.min_ts = Min({f.min_ts, g.min_ts}) /\ m.max_ts = Max({f.max_ts, g.max_ts})
      /\ m = [workspace_id |-> m.workspace_id, signal |-> m.signal, rows |-> m.rows,
              min_ts |-> m.min_ts, max_ts |-> m.max_ts]
  <2> DEFINE all == f.rows \cup g.rows
             lo == Min({f.min_ts, g.min_ts})
             hi == Max({f.max_ts, g.max_ts})
  <2>1. f \in [workspace_id : Workspaces, signal : {"traces", "logs", "metrics"}, rows : SUBSET Rows,
               min_ts : Int, max_ts : Int]
      BY <1>1 DEF FileOK
  <2>2. m = [f EXCEPT !.rows = all, !.min_ts = lo, !.max_ts = hi]
      OBVIOUS
  <2> HIDE DEF all, lo, hi, m
  <2>3. m = [workspace_id |-> f.workspace_id, signal |-> f.signal, rows |-> all, min_ts |-> lo, max_ts |-> hi]
      BY <2>1, <2>2
  <2> QED BY <2>3 DEF all, lo, hi
<1> HIDE DEF m
<1>5. IsFiniteSet(m.rows) /\ m.rows # {} /\ m.rows \subseteq Rows
  <2>1. IsFiniteSet(f.rows) /\ IsFiniteSet(g.rows) /\ f.rows # {} /\ f.rows \subseteq Rows /\ g.rows \subseteq Rows
      BY <1>1 DEF FileOK
  <2>2. IsFiniteSet(f.rows \cup g.rows)
      BY <2>1, FS_Union
  <2> QED BY <1>4, <2>1, <2>2
<1>6. m.min_ts \in Int /\ m.max_ts \in Int /\ m.min_ts <= f.min_ts /\ m.min_ts <= g.min_ts
      /\ m.max_ts >= f.max_ts /\ m.max_ts >= g.max_ts
    BY <1>2, <1>3, <1>4
<1>7. m \in [workspace_id : Workspaces, signal : {"traces", "logs", "metrics"}, rows : SUBSET Rows,
             min_ts : Int, max_ts : Int]
  <2>1. m.workspace_id \in Workspaces /\ m.signal \in {"traces", "logs", "metrics"}
      BY <1>1, <1>4 DEF FileOK
  <2> QED BY <1>4, <1>5, <1>6, <2>1
<1>8. ASSUME NEW r \in m.rows
      PROVE  /\ r.workspace_id = m.workspace_id /\ r.signal = m.signal
             /\ m.min_ts <= r.timestamp \div Micro /\ r.timestamp \div Micro <= m.max_ts
  <2>1. PICK h \in {f, g} : r \in h.rows
      BY <1>4
  <2>2. /\ FileOK(h) /\ m.min_ts <= h.min_ts /\ m.max_ts >= h.max_ts /\ h.workspace_id = f.workspace_id
        /\ h.signal = f.signal /\ h.min_ts \in Int /\ h.max_ts \in Int
      BY <1>1, <1>2, <1>6
  <2>3. /\ r.workspace_id = m.workspace_id /\ r.signal = m.signal
        /\ h.min_ts <= r.timestamp \div Micro /\ r.timestamp \div Micro <= h.max_ts
      BY <1>4, <2>1, <2>2 DEF FileOK
  <2>4. r \in Rows /\ r.timestamp \in Int
      BY <1>5, QueryAssumption DEF IsRow
  <2>5. r.timestamp \div Micro \in Int
      BY <2>4, DivMonotone
  <2> QED BY <1>6, <2>2, <2>3, <2>5
<1> QED BY <1>5, <1>7, <1>8 DEF FileOK, m

\* A copy reads like the row it is of.
LEMMA CopyReads ==
    ASSUME FilesInv, NEW fs \in SUBSET files, NEW x \in Copies(fs)
    PROVE  \E r \in StoredRows(fs) :
              /\ r \in Rows /\ x.id = r.id /\ x.trace_id = r.trace_id /\ x.workspace_id = r.workspace_id
              /\ x.signal = r.signal /\ x.timestamp = r.timestamp /\ x.service_name = r.service_name
              /\ r.timestamp \in Int
<1>1. PICK r \in StoredRows(fs) : \E k \in 1..Cardinality({f \in fs : r \in f.rows}) : x = [r EXCEPT !.copy = k]
    BY CopiesAreOf
<1>2. PICK k \in 1..Cardinality({f \in fs : r \in f.rows}) : x = [r EXCEPT !.copy = k]
    BY <1>1
<1>3. r \in Rows /\ r.timestamp \in Int
    BY StoredAreRows
<1> QED BY <1>2, <1>3, CopyKeeps

\* What a listing shows is there on account of rows that meet its conditions: a
\* row, or the spans of a trace.
LEMMA UnitsHaveRows ==
    ASSUME FilesInv, NEW req, NEW range, req.kind \in Listings,
           NEW u \in Units(req, range, Scanned(req, range))
    PROVE  IF req.kind = "traces"
           THEN /\ u = Summary(u.id, u.spans)
                /\ \A x \in u.spans : x.trace_id = u.id /\ Where(req, range, x) /\ x.timestamp \in Int
                /\ \E x \in u.spans : u.at = x.timestamp
           ELSE \E r \in Rows : r.id = u.id /\ u.at = r.timestamp /\ Where(req, range, r)
<1> DEFINE listed == QueryFiles(files, req.workspace_id, SignalOf(req.kind), range)
           rs == Scanned(req, range)
<1>1. rs = Copies(listed) /\ listed \in SUBSET files
    BY DEF Scanned, QueryFiles
<1>2. IsFiniteSet(rs)
    BY <1>1, CopiesFinite
<1> HIDE DEF listed, rs
<1>3. ASSUME NEW x \in rs
      PROVE  /\ x.timestamp \in Int
             /\ Where(req, range, x) =>
                   \E r \in Rows : x.id = r.id /\ x.timestamp = r.timestamp /\ Where(req, range, r)
  <2>1. PICK r \in Rows : /\ x.id = r.id /\ x.trace_id = r.trace_id /\ x.workspace_id = r.workspace_id
                          /\ x.timestamp = r.timestamp /\ x.service_name = r.service_name /\ r.timestamp \in Int
      BY <1>1, CopyReads
  <2> QED BY <2>1 DEF Where
<1>4. CASE req.kind = "traces"
  <2> DEFINE spans == TraceSpans(req, range, rs)
  <2>1. spans \subseteq {x \in rs : Where(req, range, x)}
      BY DEF TraceSpans
  <2> HIDE DEF spans
  <2>2. PICK t \in {r.trace_id : r \in spans} : u = Summary(t, spans)
      BY <1>4 DEF Units, TraceSummaries, rs, spans
  <2> DEFINE of == {r \in spans : r.trace_id = t}
             starts == {r.timestamp : r \in of}
  <2>3. u.id = t /\ u.at = Min(starts) /\ u.spans = of
      BY <2>2 DEF Summary
  <2>4. starts \in SUBSET Int /\ starts # {}
      BY <1>3, <2>1
  <2>5. IsFiniteSet(of)
      BY <1>2, <2>1, FS_Subset
  <2>6. IsFiniteSet(starts)
    <3> DEFINE g == [r \in of |-> r.timestamp]
    <3> HIDE DEF of
    <3>1. IsFiniteSet({g[r] : r \in of})
        BY <2>5, FiniteImage
    <3> QED BY <3>1
  <2>7. Min(starts) \in starts
    <3> HIDE DEF starts
    <3> QED BY <2>4, <2>6, FiniteMin
  <2>8. \E x \in of : u.at = x.timestamp
      BY <2>3, <2>7
  <2>9. Summary(t, spans) = Summary(t, of)
    <3>1. {r \in of : r.trace_id = t} = {r \in spans : r.trace_id = t}
        OBVIOUS
    <3> HIDE DEF of
    <3> QED BY <3>1, Zenon DEF Summary
  <2>10. \A x \in of : x.trace_id = t /\ Where(req, range, x) /\ x.timestamp \in Int
      BY <1>3, <2>1
  <2> HIDE DEF of, starts
  <2>11. u = Summary(u.id, u.spans)
      BY <2>2, <2>3, <2>9
  <2>12. \A x \in u.spans : x.trace_id = u.id /\ Where(req, range, x) /\ x.timestamp \in Int
      BY <2>3, <2>10
  <2> QED BY <1>4, <2>3, <2>8, <2>11, <2>12
<1>5. CASE req.kind # "traces"
  <2>1. PICK x \in rs : Where(req, range, x) /\ u = [id |-> x.id, at |-> x.timestamp, copy |-> x.copy]
      BY <1>5 DEF Units, MatchingRows, MatchingSpans, MatchingLogs, MatchingMetrics, Listings, rs
  <2>2. PICK r \in Rows : x.id = r.id /\ x.timestamp = r.timestamp /\ Where(req, range, r)
      BY <1>3, <2>1
  <2>3. u.id = r.id /\ u.at = r.timestamp
      BY <2>1, <2>2
  <2> QED BY <1>5, <2>2, <2>3
<1> QED BY <1>4, <1>5

\* A page is taken from what there is to show.
LEMMA PageOf ==
    ASSUME NEW req, NEW S, NEW items \in Page(req, S)
    PROVE  items \subseteq S
BY DEF Page, Slices, kSubset

-----------------------------------------------------------------------------
(* Requests.                                                               *)

\* Decoding keeps a request well formed, names a page size and replaces the
\* workspace; kind, transport, credential and range stay.
LEMMA DecodedOK ==
    ASSUME NEW w \in Request
    PROVE  /\ Decoded(w) \in Request /\ Decoded(w).limit \in Nat
           /\ Decoded(w).kind = w.kind /\ Decoded(w).transport = w.transport
           /\ Decoded(w).credential = w.credential /\ Decoded(w).offset = w.offset
           /\ Decoded(w).start = w.start /\ Decoded(w).end = w.end
           /\ Decoded(w).workspace_id = w.credential.workspace_id
<1> DEFINE OK(d) == /\ d \in Request /\ d.limit \in Nat
                    /\ d.kind = w.kind /\ d.transport = w.transport /\ d.credential = w.credential
                    /\ d.offset = w.offset /\ d.start = w.start /\ d.end = w.end
                    /\ d.workspace_id = w.credential.workspace_id
<1>1. DefaultLimit \in Nat
    BY ApiAssumption
<1>2. w.credential.workspace_id \in Workspaces /\ w.transport \in {"http", "grpc"} /\ w.limit \in Optional(Nat)
    BY DEF Request
<1>3. ASSUME NEW ws \in Workspaces, ws = w.credential.workspace_id, NEW n \in Nat
      PROVE  OK([w EXCEPT !.workspace_id = ws, !.limit = n])
  <2> DEFINE v == [w EXCEPT !.workspace_id = ws]
  <2>1. v \in Request /\ v.kind = w.kind /\ v.transport = w.transport /\ v.credential = w.credential
        /\ v.offset = w.offset /\ v.start = w.start /\ v.end = w.end /\ v.workspace_id = ws
      BY DEF Request
  <2>2. [w EXCEPT !.workspace_id = ws, !.limit = n] = [v EXCEPT !.limit = n]
      OBVIOUS
  <2>3. n \in Optional(Nat)
      BY DEF Optional
  <2> HIDE DEF v
  <2>4. OK([v EXCEPT !.limit = n])
      BY <1>3, <2>1, <2>3 DEF Request
  <2> QED BY <2>2, <2>4
<1> DEFINE page == FromGrpcPage(w)
<1>4. OK(FromHttp(w)) /\ OK(page)
  <2> DEFINE a == IF w.limit = Unset THEN DefaultLimit ELSE w.limit
             b == IF w.limit \in {Unset, 0} THEN DefaultLimit ELSE w.limit
             ws == w.credential.workspace_id
  <2>1. a \in Nat /\ b \in Nat /\ ws \in Workspaces
      BY <1>1, <1>2 DEF Optional
  <2>2. /\ FromHttp(w) = [w EXCEPT !.workspace_id = ws, !.limit = a]
        /\ page = [w EXCEPT !.workspace_id = ws, !.limit = b]
      BY DEF FromHttp, FromGrpcPage
  <2>3. ws = w.credential.workspace_id
      OBVIOUS
  <2> HIDE DEF a, b, ws, OK, page
  <2> QED BY <1>3, <2>1, <2>2, <2>3
<1>5. OK(FromGrpcSpans(w))
  <2>1. FromGrpcSpans(w) = [page EXCEPT !.min_duration = Unset]
      BY DEF FromGrpcSpans
  <2> HIDE DEF page
  <2> QED BY <1>4, <2>1 DEF Request, Optional
<1> HIDE DEF OK
<1>6. OK(Decoded(w))
    BY <1>2, <1>3, <1>4, <1>5 DEF Decoded
<1> QED BY <1>6 DEF OK

\* Who gets past a handler's checks holds an accepted credential and the
\* capability of the route.
LEMMA AuthorizedOK ==
    ASSUME NEW w \in Request, Authorized(w) = "ok"
    PROVE  w.credential.verdict = "accepted" /\ Granted(Capabilities(w.credential.capability_keys), RequiredBy(w))
<1>1. w.credential.verdict \in {"accepted", "refused", "unreachable"}
    BY DEF Request
<1> QED BY <1>1 DEF Authorized, HttpAuthorize, GrpcAuthorize

\* The capability a route asks for depends on operation and transport alone.
LEMMA RequiredBySame ==
    ASSUME NEW v, NEW w, v.kind = w.kind, v.transport = w.transport
    PROVE  RequiredBy(v) = RequiredBy(w)
BY DEF RequiredBy

CapabilityFor(signal) ==
    CASE signal = "traces" -> "ReadTraces" [] signal = "logs" -> "ReadLogs" [] signal = "metrics" -> "ReadMetrics"

\* A credential has the capability for a signal by the key for it only.
LEMMA KeyOfSignal ==
    ASSUME NEW keys, NEW signal \in {"traces", "logs", "metrics"}, CapabilityFor(signal) \in Capabilities(keys)
    PROVE  KeyFor(signal) \in keys
<1>1. PICK k \in keys \cap KnownKeys : FromKey(k) = CapabilityFor(signal)
    BY DEF Capabilities
<1>2. k = KeyFor(signal)
    BY <1>1 DEF KnownKeys, FromKey, CapabilityFor, KeyFor
<1> QED BY <1>2

\* The routes of rows ask for the capability of their signal, on both
\* transports.
LEMMA RoutesAskTheSignal ==
    ASSUME NEW w \in Request, w.kind \in Listings \cup {"get_trace", "get_span", "get_log", "series"}
    PROVE  RequiredBy(w) = CapabilityFor(SignalOf(w.kind))
<1> DEFINE need == CapabilityFor(SignalOf(w.kind))
           routes == IF w.transport = "http" THEN HttpRoutes ELSE GrpcRoutes
<1>1. [op |-> w.kind, capability |-> need] \in HttpRoutes
    BY DEF HttpRoutes, HttpTraces, HttpDashboards, HttpJoined, HttpLogs, HttpMetrics, Asks, Listings,
           SignalOf, CapabilityFor, Dashboards, Joins
<1>2. [op |-> w.kind, capability |-> need] \in GrpcRoutes
    BY DEF GrpcRoutes, GrpcQuery, GrpcAnalytics, GrpcUsage, Asks, Listings,
           SignalOf, CapabilityFor, Dashboards, Joins
<1>3. \A r \in HttpRoutes : r.op = w.kind => r.capability = need
    BY DEF HttpRoutes, HttpTraces, HttpDashboards, HttpJoined, HttpLogs, HttpMetrics, Asks, Listings,
           SignalOf, CapabilityFor, Dashboards, Joins
<1>4. \A r \in GrpcRoutes : r.op = w.kind => r.capability = need
    BY DEF GrpcRoutes, GrpcQuery, GrpcAnalytics, GrpcUsage, Asks, Listings,
           SignalOf, CapabilityFor, Dashboards, Joins
<1> HIDE DEF need
<1>5. (\E r \in routes : r.op = w.kind) /\ \A r \in routes : r.op = w.kind => r.capability = need
    BY <1>1, <1>2, <1>3, <1>4
<1> HIDE DEF routes
<1> DEFINE asked == CHOOSE r \in routes : r.op = w.kind
<1>6. asked \in routes /\ asked.op = w.kind
    BY <1>5
<1>7. RequiredBy(w) = asked.capability
    BY DEF RequiredBy, routes
<1> HIDE DEF asked
<1>8. asked.capability = need
    BY <1>5, <1>6
<1> QED BY <1>7, <1>8 DEF need

\* The retention cutoff is a time.
LEMMA CutoffInt ==
    ASSUME NEW t \in Int, NEW ws \in Workspaces
    PROVE  t - Retention[ws] * DayLen \in Int
<1>1. Retention[ws] \in Nat /\ DayLen \in Nat
    BY QueryAssumption, DayLenAssumption
<1>2. Retention[ws] * DayLen \in Nat
    BY <1>1
<1> QED BY <1>2

-----------------------------------------------------------------------------
(* The invariant, component by component.                                  *)

\* The steps of a request that reads without a policy check: one record, a
\* series, a query of a dashboard or its answer.
ReadStep ==
    \/ GetTrace \/ GetSpan \/ GetLog \/ Series \/ GetAnalytics \/ GetMetricsSummary \/ GetTopEndpoints
    \/ GetLlmAnalytics \/ GetAgentAnalytics \/ GetErrorBreakdown \/ GetGuardrailsAnalytics \/ GetStorageUsage
    \/ RefuseAnalytics \/ \E part \in UNION {Reads(k) : k \in Dashboards} : ReadPart(part)

\* A refusal by the policy, or the reader's failure.
RefusalStep == PolicyRefuses \/ ReadFails

\* A request in flight that changes some of its fields keeps its shape.
LEMMA ShapeKept ==
    ASSUME RequestInv, NEW a, NEW b, NEW c,
           \/ q' = [q EXCEPT !.pc = "end", !.answer = a, !.result = b]
           \/ q' = [q EXCEPT !.pc = "end", !.answer = a]
           \/ q' = [q EXCEPT !.read = c]
    PROVE  /\ q'.pc \in {q.pc, "end"} /\ q'.req = q.req
           /\ q' = [pc |-> q'.pc, req |-> q'.req, range |-> q'.range, clamped |-> q'.clamped, total |-> q'.total,
                      items |-> q'.items, answer |-> q'.answer, read |-> q'.read, result |-> q'.result]
<1>1. q = [pc |-> q.pc, req |-> q.req, range |-> q.range, clamped |-> q.clamped, total |-> q.total,
           items |-> q.items, answer |-> q.answer, read |-> q.read, result |-> q.result]
    BY DEF RequestInv
<1> QED BY <1>1

\* Each of them leaves everything else alone.
LEMMA ReadStepEnds ==
    ASSUME RequestInv, ReadStep
    PROVE  /\ q.pc = "read" /\ q'.pc \in {"read", "end"} /\ q'.req = q.req /\ UNCHANGED <<files, now, pager>>
           /\ q' = [pc |-> q'.pc, req |-> q'.req, range |-> q'.range, clamped |-> q'.clamped, total |-> q'.total,
                      items |-> q'.items, answer |-> q'.answer, read |-> q'.read, result |-> q'.result]
<1>1. ASSUME NEW kind, NEW found, Get(kind, found)
      PROVE  /\ q.pc = "read" /\ UNCHANGED <<files, now, pager>>
             /\ \E a, b : q' = [q EXCEPT !.pc = "end", !.answer = a, !.result = b]
    BY <1>1 DEF Get
<1>2. ASSUME NEW kind, NEW result, Answer(kind, result)
      PROVE  /\ q.pc = "read" /\ UNCHANGED <<files, now, pager>>
             /\ \E a, b : q' = [q EXCEPT !.pc = "end", !.answer = a, !.result = b]
    BY <1>2 DEF Answer
<1>3. CASE \/ GetTrace \/ GetSpan \/ GetLog
    BY <1>1, <1>3, ShapeKept DEF GetTrace, GetSpan, GetLog
<1>4. CASE \/ GetAnalytics \/ GetMetricsSummary \/ GetTopEndpoints \/ GetLlmAnalytics \/ GetAgentAnalytics
           \/ GetErrorBreakdown \/ GetGuardrailsAnalytics
  <2>1. \E kind, result : Answer(kind, result)
      BY <1>4 DEF GetAnalytics, GetMetricsSummary, GetTopEndpoints, GetLlmAnalytics, GetAgentAnalytics,
                  GetErrorBreakdown, GetGuardrailsAnalytics
  <2> QED BY <1>2, <2>1, ShapeKept
<1>5. CASE Series
  <2>1. /\ q.pc = "read" /\ UNCHANGED <<files, now, pager>>
        /\ \/ \E a, b : q' = [q EXCEPT !.pc = "end", !.answer = a, !.result = b]
           \/ \E a : q' = [q EXCEPT !.pc = "end", !.answer = a]
      BY <1>5 DEF Series
  <2> QED BY <2>1, ShapeKept
<1>6. CASE GetStorageUsage \/ RefuseAnalytics
  <2>1. /\ q.pc = "read" /\ UNCHANGED <<files, now, pager>>
        /\ \/ \E a, b : q' = [q EXCEPT !.pc = "end", !.answer = a, !.result = b]
           \/ \E a : q' = [q EXCEPT !.pc = "end", !.answer = a]
      BY <1>6 DEF GetStorageUsage, RefuseAnalytics
  <2> QED BY <2>1, ShapeKept
<1>7. ASSUME NEW part, ReadPart(part)
      PROVE  /\ q.pc = "read" /\ UNCHANGED <<files, now, pager>>
             /\ \E c : q' = [q EXCEPT !.read = c]
    BY <1>7 DEF ReadPart
<1>8. CASE \E part \in UNION {Reads(k) : k \in Dashboards} : ReadPart(part)
    BY <1>7, <1>8, ShapeKept
<1> QED BY <1>3, <1>4, <1>5, <1>6, <1>8 DEF ReadStep

\* A refusal ends the request.
LEMMA RefusalEnds ==
    ASSUME RequestInv, RefusalStep
    PROVE  /\ q.pc \in {"policy", "count", "page", "read"} /\ q'.pc = "end" /\ q'.req = q.req
           /\ q'.answer # "ok" /\ q'.read = q.read /\ UNCHANGED <<files, now, pager>>
           /\ q' = [pc |-> q'.pc, req |-> q'.req, range |-> q'.range, clamped |-> q'.clamped, total |-> q'.total,
                      items |-> q'.items, answer |-> q'.answer, read |-> q'.read, result |-> q'.result]
<1>1. q = [pc |-> q.pc, req |-> q.req, range |-> q.range, clamped |-> q.clamped, total |-> q.total,
           items |-> q.items, answer |-> q.answer, read |-> q.read, result |-> q.result]
    BY DEF RequestInv
<1>2. PICK a \in {"invalid_input", "internal"} : q' = [q EXCEPT !.pc = "end", !.answer = a]
    BY DEF RefusalStep, PolicyRefuses, ReadFails
<1>3. q.pc \in {"policy", "count", "page", "read"} /\ UNCHANGED <<files, now, pager>>
    BY DEF RefusalStep, PolicyRefuses, ReadFails
<1> QED BY <1>1, <1>2, <1>3

\* A step is of the query, of the files, or of the clock.
LEMMA StepsAre ==
    ASSUME [Next]_vars
    PROVE  \/ UNCHANGED vars
           \/ \E w \in Requests : Begin(w)
           \/ RefusalStep \/ Clamp \/ Count \/ ReadPage \/ NextPage \/ ReadStep \/ Finish
           \/ \E rs \in Batches : Publish(rs)
           \/ \E f \in files : Reclaim(f)
           \/ \E f, g \in files : Merge(f, g)
           \/ \E m \in files : MergeMark(m)
           \/ Tick
<1>1. QueryStep => RefusalStep \/ Clamp \/ Count \/ ReadPage \/ NextPage \/ ReadStep
    BY DEF QueryStep, ReadStep, RefusalStep
<1> QED BY <1>1 DEF Next

\* What the visible files promise is kept by whatever happens to them.
LEMMA FilesStep ==
    ASSUME FilesInv, RequestInv, [Next]_vars
    PROVE  FilesInv'
<1>1. CASE UNCHANGED <<files, now>>
    BY <1>1 DEF FilesInv, FileOK
<1>2. ASSUME NEW rs \in Batches, Publish(rs) PROVE FilesInv'
  <2>1. FileOK(FileOf(rs))
      BY FileOfOK
  <2>2. files' = files \cup {FileOf(rs)} /\ now' = now
      BY <1>2 DEF Publish
  <2>3. IsFiniteSet(files')
      BY <2>2, FS_AddElement DEF FilesInv
  <2> QED BY <2>1, <2>2, <2>3 DEF FilesInv, FileOK
<1>3. ASSUME NEW f \in files, Reclaim(f) PROVE FilesInv'
  <2>1. files' \subseteq files /\ now' = now
      BY <1>3 DEF Reclaim
  <2>2. IsFiniteSet(files')
      BY <2>1, FS_Subset DEF FilesInv
  <2> QED BY <2>1, <2>2 DEF FilesInv, FileOK
<1>4. ASSUME NEW f \in files, NEW g \in files, Merge(f, g) PROVE FilesInv'
  <2> DEFINE m == [f EXCEPT !.rows = f.rows \cup g.rows, !.min_ts = Min({@, g.min_ts}),
                            !.max_ts = Max({@, g.max_ts})]
  <2>1. FileOK(m)
      BY <1>4, MergedOK DEF Merge
  <2>2. files' = files \cup {m} /\ now' = now
      BY <1>4 DEF Merge
  <2> HIDE DEF m
  <2>3. IsFiniteSet(files')
      BY <2>2, FS_AddElement DEF FilesInv
  <2> QED BY <2>1, <2>2, <2>3 DEF FilesInv, FileOK
<1>5. ASSUME NEW m \in files, MergeMark(m) PROVE FilesInv'
  <2>1. files' \subseteq files /\ now' = now
      BY <1>5 DEF MergeMark
  <2>2. IsFiniteSet(files')
      BY <2>1, FS_Subset DEF FilesInv
  <2> QED BY <2>1, <2>2 DEF FilesInv, FileOK
<1>6. CASE Tick
  <2>1. files' = files /\ now' = now + 1 /\ now \in Int
      BY <1>6 DEF Tick, FilesInv
  <2>2. ASSUME NEW f \in files PROVE FileOK(f)'
    <3>1. FileOK(f) /\ \A r \in f.rows : r \in Rows
        BY DEF FilesInv, FileOK
    <3>2. \A r \in f.rows : r.timestamp \in Int
        BY <3>1, QueryAssumption DEF IsRow
    <3> QED BY <2>1, <3>1, <3>2 DEF FileOK
  <2> QED BY <2>1, <2>2 DEF FilesInv
<1>7. CASE \/ \E w \in Requests : Begin(w)
           \/ RefusalStep \/ Clamp \/ Count \/ ReadPage \/ NextPage \/ ReadStep \/ Finish \/ UNCHANGED vars
  <2>1. UNCHANGED <<files, now>>
      BY <1>7, ReadStepEnds, RefusalEnds DEF Begin, Clamp, Count, ReadPage, NextPage, Finish, vars
  <2> QED BY <1>1, <2>1
<1> QED BY <1>2, <1>3, <1>4, <1>5, <1>6, <1>7, StepsAre

\* The retention clamp, as the listings apply it.
LEMMA ClampedRange ==
    ASSUME now \in Int, NEW req \in Request, req.kind \in Listings
    PROVE  LET cutoff == now - Retention[req.workspace_id] * DayLen
               range == TimeRange(req)
           IN  IF Bounded(req)
               THEN /\ range \in [start : Int, end : Int]
                    /\ range.start >= cutoff /\ range.start \in {cutoff, req.start}
                    /\ req.start # Unset => range.start >= req.start
                    /\ range.end = IF req.end = Unset THEN now ELSE req.end
               ELSE range = Unset /\ req.end = Unset
<1> DEFINE cutoff == now - Retention[req.workspace_id] * DayLen
           start == EnforceStart(req.workspace_id, req.start)
<1>1. req.start \in Optional(Int) /\ req.end \in Optional(Int) /\ req.workspace_id \in Workspaces
    BY DEF Request
<1>2. cutoff \in Int /\ Unset \notin Int
    BY <1>1, CutoffInt, QueryAssumption
<1>3. start = IF req.start = Unset \/ req.start < cutoff THEN cutoff ELSE req.start
    BY DEF EnforceStart, Cutoff
<1> HIDE DEF cutoff, start
<1>4. /\ start \in Int /\ start >= cutoff /\ start \in {cutoff, req.start}
      /\ req.start # Unset => start >= req.start
    BY <1>1, <1>2, <1>3 DEF Optional
<1>5. CASE req.kind \in {"traces", "spans"}
  <2>1. TimeRange(req) = IF req.start = Unset /\ req.end = Unset THEN Unset
                         ELSE [start |-> start, end |-> IF req.end = Unset THEN now ELSE req.end]
      BY <1>5 DEF TimeRange, TracesRange, SpansRange, start, Dashboards, Joins
  <2>2. Bounded(req) <=> ~(req.start = Unset /\ req.end = Unset)
      BY <1>5 DEF Bounded
  <2> QED BY <1>1, <1>4, <2>1, <2>2 DEF Optional, cutoff
<1>6. CASE req.kind \in {"logs", "metrics"}
  <2>1. TimeRange(req) = IF req.end = Unset THEN Unset ELSE [start |-> start, end |-> req.end]
      BY <1>6 DEF TimeRange, LogsRange, MetricsRange, start, Dashboards, Joins
  <2>2. Bounded(req) <=> req.end # Unset
      BY <1>6 DEF Bounded
  <2> QED BY <1>1, <1>4, <2>1, <2>2 DEF Optional, cutoff
<1> QED BY <1>5, <1>6 DEF Listings

\* The request in flight keeps its shape.
LEMMA RequestStep ==
    ASSUME RequestInv, [Next]_vars
    PROVE  RequestInv'
<1>1. q = [pc |-> q.pc, req |-> q.req, range |-> q.range, clamped |-> q.clamped, total |-> q.total,
           items |-> q.items, answer |-> q.answer, read |-> q.read, result |-> q.result]
    BY DEF RequestInv
<1>2. CASE q' = q
    BY <1>2 DEF RequestInv
<1>3. ASSUME NEW w \in Requests, Begin(w) PROVE RequestInv'
  <2>1. w \in Request
      BY QueryAssumption
  <2>2. /\ Decoded(w) \in Request /\ Decoded(w).limit \in Nat /\ Decoded(w).kind = w.kind
      BY <2>1, DecodedOK
  <2>3. PICK pc, a, range :
                     /\ q' = [Idle EXCEPT !.pc = pc, !.req = Decoded(w), !.answer = a, !.range = range]
                     /\ \/ pc = "end"
                        \/ pc = "policy" /\ w.kind \in Listings \cup {"series"}
                        \/ pc = "read" /\ w.kind \notin Listings
      BY <1>3 DEF Begin
  <2> QED BY <2>2, <2>3 DEF RequestInv, Steps, Idle
<1>4. CASE RefusalStep
    BY <1>4, RefusalEnds DEF RequestInv, Steps
<1>5. CASE Clamp
    BY <1>1, <1>5 DEF Clamp, RequestInv, Steps, Listings
<1>6. CASE Count
    BY <1>1, <1>6 DEF Count, RequestInv, Steps
<1>7. CASE ReadPage
  <2>1. PICK items : q' = [q EXCEPT !.pc = "answered", !.items = items]
      BY <1>7 DEF ReadPage
  <2> QED BY <1>1, <1>7, <2>1 DEF ReadPage, RequestInv, Steps
<1>8. CASE NextPage
  <2> DEFINE next == [q.req EXCEPT !.offset = @ + q.req.limit]
  <2>1. q.pc = "answered" /\ q.req \in Request /\ q.req.limit \in Nat /\ q.req.kind \in Listings
      BY <1>8 DEF NextPage, RequestInv
  <2>2. next \in Request /\ next.limit \in Nat /\ next.kind = q.req.kind
    <3>1. q.req.offset + q.req.limit \in Nat
        BY <2>1 DEF Request
    <3> QED BY <2>1, <3>1 DEF Request
  <2>3. \/ q' = [Idle EXCEPT !.pc = "policy", !.req = next]
        \/ q' = [q EXCEPT !.pc = "end", !.answer = "ok"]
      BY <1>8 DEF NextPage
  <2> HIDE DEF next
  <2> QED BY <1>1, <2>1, <2>2, <2>3 DEF RequestInv, Steps, Idle
<1>9. CASE ReadStep
    BY <1>9, ReadStepEnds DEF RequestInv, Steps
<1>10. CASE Finish
    BY <1>10 DEF Finish, RequestInv, Idle, Steps
<1>11. CASE \/ \E rs \in Batches : Publish(rs)
            \/ \E f \in files : Reclaim(f)
            \/ \E f, g \in files : Merge(f, g)
            \/ \E m \in files : MergeMark(m)
            \/ Tick \/ UNCHANGED vars
  <2>1. q' = q
      BY <1>11 DEF Publish, Reclaim, Merge, MergeMark, Tick, vars
  <2> QED BY <1>2, <2>1
<1> QED BY <1>3, <1>4, <1>5, <1>6, <1>7, <1>8, <1>9, <1>10, <1>11, StepsAre

\* Nobody gets past the checks but through them.
LEMMA AuthStep ==
    ASSUME RequestInv, AuthInv, [Next]_vars
    PROVE  AuthInv'
<1>1. q = [pc |-> q.pc, req |-> q.req, range |-> q.range, clamped |-> q.clamped, total |-> q.total,
           items |-> q.items, answer |-> q.answer, read |-> q.read, result |-> q.result]
    BY DEF RequestInv
<1>2. CASE q' = q
    BY <1>2 DEF AuthInv
<1>3. ASSUME NEW w \in Requests, Begin(w) PROVE AuthInv'
  <2>1. w \in Request
      BY QueryAssumption
  <2>2. /\ Decoded(w).credential = w.credential /\ RequiredBy(Decoded(w)) = RequiredBy(w)
        /\ Decoded(w).workspace_id = w.credential.workspace_id
      BY <2>1, DecodedOK, RequiredBySame
  <2> DEFINE refusal == IF Authorized(w) # "ok" THEN Authorized(w)
                        ELSE IF RangeMissing(w) THEN "invalid_input" ELSE "none"
  <2>3. PICK pc, range :
                  /\ q' = [Idle EXCEPT !.pc = pc, !.req = Decoded(w), !.answer = refusal, !.range = range]
                  /\ pc # "end" => refusal = "none"
      BY <1>3 DEF Begin
  <2>4. q'.req = Decoded(w) /\ q'.pc = pc /\ q'.answer = refusal
      BY <2>3 DEF Idle
  <2>5. CASE Authorized(w) = "ok"
    <3>1. w.credential.verdict = "accepted" /\ Granted(Capabilities(w.credential.capability_keys), RequiredBy(w))
        BY <2>1, <2>5, AuthorizedOK
    <3> QED BY <2>2, <2>4, <3>1 DEF AuthInv
  <2>6. CASE Authorized(w) # "ok"
    <3>1. refusal # "none" /\ refusal # "ok"
        BY <2>6 DEF Authorized, HttpAuthorize, GrpcAuthorize
    <3> QED BY <2>3, <2>4, <3>1 DEF AuthInv
  <2> QED BY <2>5, <2>6
<1>4. CASE RefusalStep
    BY <1>4, RefusalEnds DEF AuthInv
<1>5. CASE Clamp
    BY <1>1, <1>5 DEF Clamp, AuthInv
<1>6. CASE Count
    BY <1>1, <1>6 DEF Count, AuthInv
<1>7. CASE ReadPage
  <2>1. PICK items : q' = [q EXCEPT !.pc = "answered", !.items = items]
      BY <1>7 DEF ReadPage
  <2> QED BY <1>1, <1>7, <2>1 DEF ReadPage, AuthInv
<1>8. CASE NextPage
  <2> DEFINE next == [q.req EXCEPT !.offset = @ + q.req.limit]
  <2>1. q.pc = "answered" /\ q.req \in Request
      BY <1>8 DEF NextPage, RequestInv
  <2>2. /\ next.credential = q.req.credential /\ next.kind = q.req.kind /\ next.transport = q.req.transport
        /\ next.workspace_id = q.req.workspace_id
      BY <2>1 DEF Request
  <2>3. \/ q' = [Idle EXCEPT !.pc = "policy", !.req = next]
        \/ q' = [q EXCEPT !.pc = "end", !.answer = "ok"]
      BY <1>8 DEF NextPage
  <2> HIDE DEF next
  <2>4. RequiredBy(next) = RequiredBy(q.req)
      BY <2>2, RequiredBySame
  <2>5. CASE q' = [Idle EXCEPT !.pc = "policy", !.req = next]
    <3>1. q'.pc = "policy" /\ q'.req = next
        BY <2>5 DEF Idle
    <3> QED BY <1>1, <2>1, <2>2, <2>4, <3>1, SMTT(30) DEF AuthInv
  <2>6. CASE q' = [q EXCEPT !.pc = "end", !.answer = "ok"]
    <3>1. q'.pc = "end" /\ q'.req = q.req
        BY <1>1, <2>6
    <3> QED BY <1>1, <2>1, <2>6, <3>1, SMTT(30) DEF AuthInv
  <2> QED BY <2>3, <2>5, <2>6
<1>9. CASE ReadStep
    BY <1>9, ReadStepEnds DEF AuthInv
<1>10. CASE Finish
    BY <1>10 DEF Finish, AuthInv, Idle
<1>11. CASE \/ \E rs \in Batches : Publish(rs)
            \/ \E f \in files : Reclaim(f)
            \/ \E f, g \in files : Merge(f, g)
            \/ \E m \in files : MergeMark(m)
            \/ Tick \/ UNCHANGED vars
  <2>1. q' = q
      BY <1>11 DEF Publish, Reclaim, Merge, MergeMark, Tick, vars
  <2> QED BY <1>2, <2>1
<1> QED BY <1>3, <1>4, <1>5, <1>6, <1>7, <1>8, <1>9, <1>10, <1>11, StepsAre

\* A clamped listing keeps the range of the clock at which it was clamped.
LEMMA RangeStep ==
    ASSUME FilesInv, RequestInv, RangeInv, [Next]_vars
    PROVE  RangeInv'
<1> DEFINE Fits(req, range, clamped) ==
             LET cutoff == clamped - Retention[req.workspace_id] * DayLen
             IN  IF Bounded(req)
                 THEN /\ range \in [start : Int, end : Int]
                      /\ range.start >= cutoff /\ range.start \in {cutoff, req.start}
                      /\ req.start # Unset => range.start >= req.start
                      /\ range.end = IF req.end = Unset THEN clamped ELSE req.end
                 ELSE range = Unset /\ req.end = Unset
<1>1. q = [pc |-> q.pc, req |-> q.req, range |-> q.range, clamped |-> q.clamped, total |-> q.total,
           items |-> q.items, answer |-> q.answer, read |-> q.read, result |-> q.result]
    BY DEF RequestInv
<1>2. RangeInv <=> (Clamped => q.clamped \in Int /\ q.clamped <= now /\ Fits(q.req, q.range, q.clamped))
    BY DEF RangeInv
<1>3. RangeInv' <=> (Clamped' => q'.clamped \in Int /\ q'.clamped <= now' /\ Fits(q'.req, q'.range, q'.clamped))
    BY DEF RangeInv, Bounded
<1> HIDE DEF Fits
<1>4. now \in Int
    BY DEF FilesInv
<1>5. CASE /\ q'.req = q.req /\ q'.range = q.range /\ q'.clamped = q.clamped
           /\ now' \in {now, now + 1} /\ (Clamped' => Clamped)
    BY <1>2, <1>3, <1>4, <1>5
<1>6. ASSUME NEW w \in Requests, Begin(w) PROVE RangeInv'
  <2> DEFINE refusal == IF Authorized(w) # "ok" THEN Authorized(w)
                        ELSE IF RangeMissing(w) THEN "invalid_input" ELSE "none"
  <2>1. PICK pc, range :
                  /\ q' = [Idle EXCEPT !.pc = pc, !.req = Decoded(w), !.answer = refusal, !.range = range]
                  /\ pc \in {"end", "policy", "read"}
      BY <1>6 DEF Begin
  <2>2. q'.pc = pc /\ q'.answer = refusal
      BY <2>1 DEF Idle
  <2>3. refusal # "ok"
      OBVIOUS
  <2> QED BY <1>3, <2>1, <2>2, <2>3 DEF Clamped
<1>7. CASE RefusalStep
    BY <1>3, <1>7, RefusalEnds DEF Clamped
<1>8. CASE Clamp
  <2>1. q.pc = "policy" /\ q.req \in Request /\ q.req.kind \in Listings \cup {"series"}
      BY <1>8 DEF Clamp, RequestInv
  <2>2. CASE q.req.kind = "series"
    <3>1. q'.pc = "read"
        BY <1>1, <1>8, <2>2 DEF Clamp
    <3> QED BY <1>3, <3>1 DEF Clamped
  <2>3. CASE q.req.kind # "series"
    <3>1. q'.req = q.req /\ q'.range = TimeRange(q.req) /\ q'.clamped = now /\ now' = now
        BY <1>1, <1>8 DEF Clamp
    <3>2. Fits(q.req, TimeRange(q.req), now)
        BY <1>4, <2>1, <2>3, ClampedRange DEF Fits
    <3> QED BY <1>3, <1>4, <3>1, <3>2
  <2> QED BY <2>2, <2>3
<1>9. CASE Count
  <2>1. Clamped
      BY <1>9 DEF Count, Clamped
  <2> QED BY <1>1, <1>5, <1>9, <2>1 DEF Count
<1>10. CASE ReadPage
  <2>1. PICK items : q' = [q EXCEPT !.pc = "answered", !.items = items]
      BY <1>10 DEF ReadPage
  <2>2. Clamped /\ now' = now
      BY <1>10 DEF ReadPage, Clamped
  <2> QED BY <1>1, <1>5, <2>1, <2>2
<1>11. CASE NextPage
  <2>1. Clamped /\ now' = now
      BY <1>11 DEF NextPage, Clamped
  <2>2. CASE q' = [q EXCEPT !.pc = "end", !.answer = "ok"]
      BY <1>1, <1>5, <2>1, <2>2
  <2>3. CASE q' # [q EXCEPT !.pc = "end", !.answer = "ok"]
    <3>1. q'.pc = "policy"
        BY <1>11, <2>3 DEF NextPage, Idle
    <3> QED BY <1>3, <3>1 DEF Clamped
  <2> QED BY <2>2, <2>3
<1>12. CASE ReadStep
  <2>1. q'.pc \in {"read", "end"} /\ q'.req.kind \notin Listings
      BY <1>12, ReadStepEnds DEF RequestInv
  <2> QED BY <1>3, <2>1 DEF Clamped
<1>13. CASE Finish
    BY <1>3, <1>13 DEF Finish, Clamped, Idle
<1>14. CASE \/ \E rs \in Batches : Publish(rs)
            \/ \E f \in files : Reclaim(f)
            \/ \E f, g \in files : Merge(f, g)
            \/ \E m \in files : MergeMark(m)
            \/ Tick \/ UNCHANGED vars
  <2>1. q' = q /\ now' \in {now, now + 1}
      BY <1>14 DEF Publish, Reclaim, Merge, MergeMark, Tick, vars
  <2>2. Clamped' <=> Clamped
      BY <2>1 DEF Clamped
  <2> QED BY <1>5, <2>1, <2>2
<1> QED BY <1>6, <1>7, <1>8, <1>9, <1>10, <1>11, <1>12, <1>13, <1>14, StepsAre

\* What a page shows meets the conditions of its request.
LEMMA ItemsStep ==
    ASSUME FilesInv, RequestInv, ItemsInv, [Next]_vars
    PROVE  ItemsInv'
<1>1. q = [pc |-> q.pc, req |-> q.req, range |-> q.range, clamped |-> q.clamped, total |-> q.total,
           items |-> q.items, answer |-> q.answer, read |-> q.read, result |-> q.result]
    BY DEF RequestInv
<1>2. CASE ReadPage
  <2>1. PICK items \in Page(q.req, Units(q.req, q.range, Scanned(q.req, q.range))) :
            q' = [q EXCEPT !.pc = "answered", !.items = items]
      BY <1>2 DEF ReadPage
  <2>2. q'.req = q.req /\ q'.range = q.range /\ q'.items = items
      BY <1>1, <2>1
  <2>3. q.req.kind \in Listings
      BY <1>2 DEF ReadPage, RequestInv
  <2>4. ASSUME NEW u \in items
        PROVE  IF q.req.kind = "traces"
               THEN /\ u = Summary(u.id, u.spans)
                    /\ \A x \in u.spans : x.trace_id = u.id /\ Where(q.req, q.range, x) /\ x.timestamp \in Int
                    /\ \E x \in u.spans : u.at = x.timestamp
               ELSE \E r \in Rows : r.id = u.id /\ u.at = r.timestamp /\ Where(q.req, q.range, r)
    <3>1. u \in Units(q.req, q.range, Scanned(q.req, q.range))
        BY <2>1, PageOf
    <3> QED BY <2>3, <3>1, UnitsHaveRows
  <2>5. \A x : Where(q.req, q.range, x) <=> Scoped(x)'
      BY <2>2 DEF Where, Scoped
  <2> QED BY <2>2, <2>4, <2>5 DEF ItemsInv
<1>3. CASE q' = q
    BY <1>3 DEF ItemsInv, Scoped
<1>4. CASE q'.pc # "answered"
    BY <1>4 DEF ItemsInv
<1>5. ASSUME NEW w \in Requests, Begin(w) PROVE ItemsInv'
  <2>1. q'.pc # "answered"
      BY <1>5 DEF Begin, Idle
  <2> QED BY <1>4, <2>1
<1>6. CASE NextPage
  <2>1. q'.pc # "answered"
    <3>1. \/ q' = [q EXCEPT !.pc = "end", !.answer = "ok"]
          \/ \E next : q' = [Idle EXCEPT !.pc = "policy", !.req = next]
        BY <1>6 DEF NextPage
    <3> QED BY <1>1, <3>1 DEF Idle
  <2> QED BY <1>4, <2>1
<1>7. CASE \/ RefusalStep \/ Clamp \/ Count \/ ReadStep \/ Finish
  <2>1. q'.pc # "answered"
    <3>1. CASE ReadStep BY <3>1, ReadStepEnds
    <3>2. CASE RefusalStep BY <3>2, RefusalEnds
    <3>3. CASE Clamp BY <1>1, <3>3 DEF Clamp
    <3>4. CASE Count BY <1>1, <3>4 DEF Count
    <3>5. CASE Finish BY <3>5 DEF Finish, Idle
    <3> QED BY <1>7, <3>1, <3>2, <3>3, <3>4, <3>5
  <2> QED BY <1>4, <2>1
<1>8. CASE \/ \E rs \in Batches : Publish(rs)
           \/ \E f \in files : Reclaim(f)
           \/ \E f, g \in files : Merge(f, g)
           \/ \E m \in files : MergeMark(m)
           \/ Tick \/ UNCHANGED vars
  <2>1. q' = q
      BY <1>8 DEF Publish, Reclaim, Merge, MergeMark, Tick, vars
  <2> QED BY <1>3, <2>1
<1> QED BY <1>2, <1>5, <1>6, <1>7, <1>8, StepsAre

-----------------------------------------------------------------------------
(* The theorems about one listing.                                         *)

LEMMA QueryInit == Init => QueryIInv
<1> SUFFICES ASSUME Init PROVE QueryIInv
    OBVIOUS
<1>1. StartTime \in Int
    BY QueryAssumption
<1>2. IsFiniteSet({})
    BY FS_EmptySet
<1> QED BY <1>1, <1>2 DEF Init, Idle, QueryIInv, FilesInv, RequestInv, AuthInv, RangeInv, ItemsInv, Steps, Clamped

LEMMA QueryNext == QueryIInv /\ [Next]_vars => QueryIInv'
BY FilesStep, RequestStep, AuthStep, RangeStep, ItemsStep DEF QueryIInv

\* In every state the visible files enclose their rows, and the request in
\* flight is well formed, authorized, clamped at a clock that has passed and
\* shows rows that meet its conditions.
THEOREM QueryInvariant == Spec => []QueryIInv
BY QueryInit, QueryNext, PTL DEF Spec

\* What is in the clamped range is in the range as it was sent.
LEMMA ScopedIsInScope ==
    ASSUME QueryIInv, q.pc = "answered", NEW r, r.timestamp \in Int, Scoped(r)
    PROVE  InScope(r) /\ (Bounded(q.req) => r.timestamp >= q.clamped - Retention[q.req.workspace_id] * DayLen)
<1>1. Clamped /\ q.req.start \in Optional(Int) /\ q.req.workspace_id \in Workspaces
    BY DEF Clamped, QueryIInv, RequestInv, Request
<1>2. q.req.workspace_id = q.req.credential.workspace_id
    BY DEF QueryIInv, AuthInv
<1>3. CASE Bounded(q.req)
  <2> DEFINE cutoff == q.clamped - Retention[q.req.workspace_id] * DayLen
  <2>1. /\ q.clamped \in Int /\ q.range \in [start : Int, end : Int] /\ q.range.start >= cutoff
        /\ q.req.start # Unset => q.range.start >= q.req.start
        /\ q.req.end # Unset => q.range.end = q.req.end
      BY <1>1, <1>3 DEF QueryIInv, RangeInv
  <2>2. q.range.start <= r.timestamp /\ r.timestamp <= q.range.end
      BY <2>1, QueryAssumption DEF In, Scoped
  <2>3. q.range.start \in Int /\ (q.req.start # Unset => q.req.start \in Int) /\ cutoff \in Int
      BY <1>1, <2>1, CutoffInt DEF Optional
  <2> HIDE DEF cutoff
  <2>4. r.timestamp >= cutoff /\ (q.req.start # Unset => q.req.start <= r.timestamp)
      BY <2>1, <2>2, <2>3
  <2> QED BY <1>2, <2>1, <2>2, <2>4 DEF Scoped, InScope, cutoff
<1>4. CASE ~Bounded(q.req)
  <2>1. q.req.end = Unset
      BY <1>1, <1>4 DEF QueryIInv, RangeInv
  <2> QED BY <1>2, <1>4, <2>1 DEF Scoped, InScope
<1> QED BY <1>3, <1>4

\* A page shows only rows of the workspace of the credential, of the service and
\* within the range asked for, and summaries of such rows.
THEOREM PagesInScopeHolds == Spec => []PagesInScope
<1>1. ASSUME QueryIInv PROVE PagesInScope
  <2> SUFFICES ASSUME q.pc = "answered", NEW u \in q.items
               PROVE  IF q.req.kind = "traces"
                      THEN /\ u = Summary(u.id, u.spans) /\ u.spans # {}
                           /\ \A x \in u.spans : InScope(x) /\ x.trace_id = u.id
                      ELSE \E r \in Rows : r.id = u.id /\ r.timestamp = u.at /\ InScope(r)
      BY DEF PagesInScope
  <2>1. CASE q.req.kind = "traces"
    <3>1. /\ u = Summary(u.id, u.spans) /\ u.spans # {}
          /\ \A x \in u.spans : x.trace_id = u.id /\ Scoped(x) /\ x.timestamp \in Int
        BY <1>1, <2>1 DEF QueryIInv, ItemsInv
    <3> QED BY <1>1, <2>1, <3>1, ScopedIsInScope
  <2>2. CASE q.req.kind # "traces"
    <3>1. PICK r \in Rows : r.id = u.id /\ u.at = r.timestamp /\ Scoped(r)
        BY <1>1, <2>2 DEF QueryIInv, ItemsInv
    <3>2. r.timestamp \in Int
        BY QueryAssumption DEF IsRow
    <3>3. InScope(r)
        BY <1>1, <3>1, <3>2, ScopedIsInScope
    <3> QED BY <2>2, <3>1, <3>3
  <2> QED BY <2>1, <2>2
<1> QED BY <1>1, QueryInvariant, PTL

\* A bounded listing shows nothing that was beyond the retention window when
\* it was clamped.
THEOREM RetentionWhenBoundedHolds == Spec => []RetentionWhenBounded
<1>1. ASSUME QueryIInv PROVE RetentionWhenBounded
  <2> SUFFICES ASSUME q.pc = "answered", Bounded(q.req), NEW u \in q.items
               PROVE  u.at >= q.clamped - Retention[q.req.workspace_id] * DayLen
      BY DEF RetentionWhenBounded
  <2>1. PICK r : u.at = r.timestamp /\ Scoped(r) /\ r.timestamp \in Int
    <3>1. CASE q.req.kind = "traces"
        BY <1>1, <3>1 DEF QueryIInv, ItemsInv
    <3>2. CASE q.req.kind # "traces"
      <4>1. PICK r \in Rows : u.at = r.timestamp /\ Scoped(r)
          BY <1>1, <3>2 DEF QueryIInv, ItemsInv
      <4> QED BY <4>1, QueryAssumption DEF IsRow
    <3> QED BY <3>1, <3>2
  <2> QED BY <1>1, <2>1, ScopedIsInScope
<1> QED BY <1>1, QueryInvariant, PTL

\* Choosing files by their bounds loses no row, and so no unit, of a listing.
THEOREM PruningLosesNothingHolds == Spec => []PruningLosesNothing
<1>1. ASSUME QueryIInv PROVE PruningLosesNothing
  <2> SUFFICES ASSUME q.pc \in {"count", "page"}, q.req.kind = "traces" => q.req.span_name = Unset
               PROVE  Units(q.req, q.range, Scanned(q.req, q.range)) = Units(q.req, q.range, OfSignal(q.req.kind))
      BY DEF PruningLosesNothing
  <2>1. q.req \in Request /\ q.req.kind \in Listings /\ FilesInv
      BY <1>1 DEF QueryIInv, RequestInv
  <2>2. q.range \in Optional([start : Int, end : Int])
      BY <1>1 DEF QueryIInv, RangeInv, Clamped, Optional
  <2>3. {x \in Scanned(q.req, q.range) : Where(q.req, q.range, x)}
          = {x \in OfSignal(q.req.kind) : Where(q.req, q.range, x)}
      BY <2>1, <2>2, ScanIsExact
  <2> QED BY <2>1, <2>3, UnitsOfMatching
<1> QED BY <1>1, QueryInvariant, PTL

\* Rows of a signal are shown only to a caller whose credential was accepted
\* and holds the key for that signal, or no key the server knows, on either
\* transport.
THEOREM RowsNeedTheirCapabilityHolds == Spec => []RowsNeedTheirCapability
<1>1. ASSUME QueryIInv PROVE RowsNeedTheirCapability
  <2> DEFINE keys == q.req.credential.capability_keys
             signal == SignalOf(q.req.kind)
  <2> SUFFICES ASSUME \/ q.pc = "answered"
                      \/ q.pc = "end" /\ q.answer = "ok" /\ q.req.kind \in {"get_trace", "get_span", "get_log", "series"}
               PROVE  /\ q.req.credential.verdict = "accepted"
                      /\ KeyFor(signal) \in keys \/ keys \cap KnownKeys = {}
      BY DEF RowsNeedTheirCapability
  <2>1. q.req \in Request /\ q.req.kind \in Listings \cup {"get_trace", "get_span", "get_log", "series"}
      BY <1>1 DEF QueryIInv, RequestInv
  <2>2. RequiredBy(q.req) = CapabilityFor(signal)
      BY <2>1, RoutesAskTheSignal
  <2>3. signal \in {"traces", "logs", "metrics"}
      BY <2>1 DEF SignalOf, Listings, Dashboards, Joins
  <2>4. q.req.credential.verdict = "accepted" /\ Granted(Capabilities(keys), RequiredBy(q.req))
      BY <1>1 DEF QueryIInv, AuthInv
  <2> HIDE DEF keys, signal
  <2>5. CASE Capabilities(keys) = {}
      BY <2>4, <2>5 DEF Capabilities
  <2>6. CASE CapabilityFor(signal) \in Capabilities(keys)
      BY <2>3, <2>4, <2>6, KeyOfSignal
  <2> QED BY <2>2, <2>4, <2>5, <2>6 DEF Granted
<1> QED BY <1>1, QueryInvariant, PTL

-----------------------------------------------------------------------------
(* Paging: what the table of a signal holds, and who comes before whom.    *)

\* The kinds whose listings show rows, one by one.
RowKinds == {"spans", "logs", "metrics"}

\* The units of such a listing over some rows.
LEMMA MatchingAre ==
    ASSUME NEW req, req.kind \in RowKinds, NEW range, NEW rs, NEW u
    PROVE  u \in MatchingRows(req, range, rs) <=>
             \E x \in rs : /\ Keep(req, x) /\ In(x.timestamp, range)
                           /\ u = [id |-> x.id, at |-> x.timestamp, copy |-> x.copy]
<1>1. CASE req.kind = "spans"
    BY <1>1 DEF MatchingRows, MatchingSpans, Where, Keep
<1>2. CASE req.kind = "logs"
    BY <1>2 DEF MatchingRows, MatchingLogs, Where, Keep
<1>3. CASE req.kind = "metrics"
    BY <1>3 DEF MatchingRows, MatchingMetrics, Where, Keep
<1> QED BY <1>1, <1>2, <1>3 DEF RowKinds

\* A copy of a row is kept when the row is.
LEMMA KeepCopy ==
    ASSUME NEW req, req.kind \in RowKinds, NEW r \in Rows, r.signal = SignalOf(req.kind), NEW k
    PROVE  LET x == [r EXCEPT !.copy = k]
           IN  /\ Keep(req, x) <=> Keep(req, r)
               /\ x.id = r.id /\ x.timestamp = r.timestamp /\ x.copy = k
<1>1. req.kind = "spans" => r.signal = "traces"
    BY DEF SignalOf
<1> QED BY <1>1, CopyKeeps DEF Keep

\* Over the table of its signal they are the copies of the stored rows that
\* match, numbered by the files that hold them.
LEMMA UnitsAre ==
    ASSUME FilesInv, NEW req, req.kind \in RowKinds, NEW range, NEW u
    PROVE  u \in MatchingRows(req, range, OfSignal(req.kind)) <=>
             \E r \in StoredRows(files) :
                /\ r.signal = SignalOf(req.kind) /\ Keep(req, r) /\ In(r.timestamp, range)
                /\ \E k \in 1..Cardinality(Holders(r)) : u = [id |-> r.id, at |-> r.timestamp, copy |-> k]
<1> DEFINE all == {f \in files : f.signal = SignalOf(req.kind)}
<1>1. OfSignal(req.kind) = Copies(all) /\ all \in SUBSET files
    BY DEF OfSignal
<1>2. ASSUME NEW r \in StoredRows(all)
      PROVE  /\ r \in StoredRows(files) /\ r \in Rows /\ r.signal = SignalOf(req.kind)
             /\ {f \in all : r \in f.rows} = Holders(r)
  <2>1. r \in Rows /\ (\E f \in all : r \in f.rows) /\ \A f \in files : r \in f.rows => f.signal = r.signal
      BY <1>1, StoredAreRows
  <2> QED BY <2>1 DEF StoredRows, Holders
<1>3. ASSUME NEW r \in StoredRows(files), r.signal = SignalOf(req.kind)
      PROVE  r \in StoredRows(all)
  <2>1. (\E f \in files : r \in f.rows) /\ \A f \in files : r \in f.rows => f.signal = r.signal
      BY StoredAreRows
  <2> QED BY <1>3, <2>1 DEF StoredRows
<1> HIDE DEF all
<1>4. ASSUME u \in MatchingRows(req, range, OfSignal(req.kind))
      PROVE  \E r \in StoredRows(files) :
                /\ r.signal = SignalOf(req.kind) /\ Keep(req, r) /\ In(r.timestamp, range)
                /\ \E k \in 1..Cardinality(Holders(r)) : u = [id |-> r.id, at |-> r.timestamp, copy |-> k]
  <2>1. PICK x \in Copies(all) : /\ Keep(req, x) /\ In(x.timestamp, range)
                                 /\ u = [id |-> x.id, at |-> x.timestamp, copy |-> x.copy]
      BY <1>1, <1>4, MatchingAre
  <2>2. PICK r \in StoredRows(all) : \E k \in 1..Cardinality({f \in all : r \in f.rows}) : x = [r EXCEPT !.copy = k]
      BY CopiesAreOf
  <2>3. PICK k \in 1..Cardinality({f \in all : r \in f.rows}) : x = [r EXCEPT !.copy = k]
      BY <2>2
  <2>4. /\ r \in StoredRows(files) /\ r \in Rows /\ r.signal = SignalOf(req.kind)
        /\ k \in 1..Cardinality(Holders(r))
      BY <1>2
  <2>5. Keep(req, r) /\ x.id = r.id /\ x.timestamp = r.timestamp /\ x.copy = k
      BY <2>1, <2>3, <2>4, KeepCopy
  <2> QED BY <2>1, <2>4, <2>5
<1>5. ASSUME NEW r \in StoredRows(files), r.signal = SignalOf(req.kind), Keep(req, r), In(r.timestamp, range),
             NEW k \in 1..Cardinality(Holders(r)), u = [id |-> r.id, at |-> r.timestamp, copy |-> k]
      PROVE  u \in MatchingRows(req, range, OfSignal(req.kind))
  <2> DEFINE x == [r EXCEPT !.copy = k]
  <2>1. r \in StoredRows(all)
      BY <1>3, <1>5
  <2>2. r \in Rows /\ k \in 1..Cardinality({f \in all : r \in f.rows})
      BY <1>2, <2>1
  <2>3. x \in Copies(all)
      BY <2>1, <2>2, CopiesAreOf
  <2>4. Keep(req, x) /\ x.id = r.id /\ x.timestamp = r.timestamp /\ x.copy = k
      BY <1>5, <2>2, KeepCopy
  <2> HIDE DEF x
  <2> QED BY <1>1, <1>5, <2>3, <2>4, MatchingAre
<1> QED BY <1>4, <1>5

\* They are finitely many.
LEMMA UnitsFinite ==
    ASSUME FilesInv, NEW req, req.kind \in RowKinds, NEW range
    PROVE  IsFiniteSet(MatchingRows(req, range, OfSignal(req.kind)))
<1> DEFINE rs == {x \in OfSignal(req.kind) : Keep(req, x) /\ In(x.timestamp, range)}
           g == [x \in rs |-> [id |-> x.id, at |-> x.timestamp, copy |-> x.copy]]
<1>1. IsFiniteSet(OfSignal(req.kind))
    BY CopiesFinite DEF OfSignal
<1>2. IsFiniteSet(rs)
    BY <1>1, FS_Subset
<1>3. \A u : u \in MatchingRows(req, range, OfSignal(req.kind)) <=> u \in {g[x] : x \in rs}
    BY MatchingAre
<1>4. MatchingRows(req, range, OfSignal(req.kind)) = {g[x] : x \in rs}
    BY <1>3
<1>5. DOMAIN g = rs
    OBVIOUS
<1> HIDE DEF rs, g
<1>6. IsFiniteSet({g[x] : x \in rs})
    BY <1>2, <1>5, FiniteImage
<1> QED BY <1>4, <1>6

\* The rows before r.
LEMMA NewerAre ==
    ASSUME FilesInv, NEW req, req.kind \in RowKinds, NEW r, NEW end
    PROVE  /\ IsFiniteSet(Newer(req, r, end)) /\ Cardinality(Newer(req, r, end)) \in Nat
           /\ \A u : u \in Newer(req, r, end) <=>
                \E x \in StoredRows(files) :
                   /\ x.signal = SignalOf(req.kind) /\ Keep(req, x)
                   /\ x.timestamp > r.timestamp /\ (end = Unset \/ x.timestamp <= end)
                   /\ \E k \in 1..Cardinality(Holders(x)) : u = [id |-> x.id, at |-> x.timestamp, copy |-> k]
<1>1. IsFiniteSet(MatchingRows(req, Unset, OfSignal(req.kind)))
    BY UnitsFinite
<1>2. IsFiniteSet(Newer(req, r, end))
    BY <1>1, FS_Subset DEF Newer
<1>3. Cardinality(Newer(req, r, end)) \in Nat
    BY <1>2, FS_CardinalityType
<1>4. ASSUME NEW u
      PROVE  u \in MatchingRows(req, Unset, OfSignal(req.kind)) <=>
             \E x \in StoredRows(files) :
                /\ x.signal = SignalOf(req.kind) /\ Keep(req, x)
                /\ \E k \in 1..Cardinality(Holders(x)) : u = [id |-> x.id, at |-> x.timestamp, copy |-> k]
  <2> PICK range : range = Unset
      OBVIOUS
  <2>1. u \in MatchingRows(req, range, OfSignal(req.kind)) <=>
             \E x \in StoredRows(files) :
                /\ x.signal = SignalOf(req.kind) /\ Keep(req, x) /\ In(x.timestamp, range)
                /\ \E k \in 1..Cardinality(Holders(x)) : u = [id |-> x.id, at |-> x.timestamp, copy |-> k]
      BY UnitsAre
  <2> QED BY <2>1 DEF In
<1> QED BY <1>2, <1>3, <1>4 DEF Newer

NewerIs(req, r, end) ==
    /\ IsFiniteSet(Newer(req, r, end)) /\ Cardinality(Newer(req, r, end)) \in Nat
    /\ \A u : u \in Newer(req, r, end) <=>
         \E x \in StoredRows(files) :
            /\ x.signal = SignalOf(req.kind) /\ Keep(req, x)
            /\ x.timestamp > r.timestamp /\ (end = Unset \/ x.timestamp <= end)
            /\ \E k \in 1..Cardinality(Holders(x)) : u = [id |-> x.id, at |-> x.timestamp, copy |-> k]

LEMMA NewerAlways == FilesInv => \A req, r, end : req.kind \in RowKinds => NewerIs(req, r, end)
BY NewerAre DEF NewerIs

\* The same in the next state.
LEMMA NewerNext ==
    (FilesInv => \A req, r, end : req.kind \in RowKinds => NewerIs(req, r, end))'
BY NewerAlways, PTL

LEMMA StoredTimes == (FilesInv => \A x \in StoredRows(files) : x.timestamp \in Int)'
<1>1. FilesInv => \A x \in StoredRows(files) : x.timestamp \in Int
    BY StoredAreRows
<1> QED BY <1>1, PTL

\* As long as the rows before r stay and no file that holds one goes, there
\* are no fewer of them.
LEMMA NewerGrows ==
    ASSUME FilesInv, FilesInv', NEW CONSTANT req, req.kind \in RowKinds, NEW CONSTANT r, NEW CONSTANT end,
           \A x \in StoredRows(files) :
              x.signal = SignalOf(req.kind) /\ Keep(req, x) /\ x.timestamp > r.timestamp =>
                 x \in StoredRows(files') /\ Holders(x) \subseteq Holders(x)'
    PROVE  /\ Cardinality(Newer(req, r, end)) \in Nat /\ Cardinality(Newer(req, r, end)') \in Nat
           /\ Cardinality(Newer(req, r, end)) <= Cardinality(Newer(req, r, end)')
<1>1. NewerIs(req, r, end) /\ NewerIs(req, r, end)'
    BY NewerAlways, NewerNext
<1>2. ASSUME NEW u \in Newer(req, r, end) PROVE u \in Newer(req, r, end)'
  <2>1. PICK x \in StoredRows(files) :
            /\ x.signal = SignalOf(req.kind) /\ Keep(req, x)
            /\ x.timestamp > r.timestamp /\ (end = Unset \/ x.timestamp <= end)
            /\ \E k \in 1..Cardinality(Holders(x)) : u = [id |-> x.id, at |-> x.timestamp, copy |-> k]
      BY <1>1 DEF NewerIs
  <2>2. x \in StoredRows(files') /\ Holders(x) \subseteq Holders(x)'
      BY <2>1
  <2>3. /\ Cardinality(Holders(x)) \in Nat /\ Cardinality(Holders(x)') \in Nat
        /\ Cardinality(Holders(x)) <= Cardinality(Holders(x)')
    <3>1. IsFiniteSet(Holders(x)')
        BY FS_Subset DEF FilesInv, Holders
    <3> QED BY <2>2, <3>1, FS_Subset, FS_CardinalityType
  <2>4. \E k \in 1..Cardinality(Holders(x)') : u = [id |-> x.id, at |-> x.timestamp, copy |-> k]
      BY <2>1, <2>3
  <2> QED BY <1>1, <2>1, <2>2, <2>4 DEF NewerIs
<1> QED BY <1>1, <1>2, FS_Subset DEF NewerIs

\* The conditions of paging depend on what is asked for, not on the page.
SameListing(a, b) ==
    /\ a.kind = b.kind /\ a.workspace_id = b.workspace_id /\ a.service_name = b.service_name
    /\ a.span_name = b.span_name /\ a.status = b.status /\ a.start = b.start /\ a.end = b.end

LEMMA SameListingSame ==
    ASSUME FilesInv, NEW a, NEW b, SameListing(a, b), a.kind \in RowKinds, NEW r, NEW end
    PROVE  Newer(a, r, end) = Newer(b, r, end) /\ (Expected(a, r) <=> Expected(b, r))
<1>1. \A x : Keep(a, x) <=> Keep(b, x)
    BY DEF SameListing, Keep
<1>2. NewerIs(a, r, end) /\ NewerIs(b, r, end)
    BY NewerAlways DEF SameListing
<1>3. \A u : u \in Newer(a, r, end) <=> u \in Newer(b, r, end)
    BY <1>1, <1>2 DEF NewerIs, SameListing
<1>4. Bounded(a) <=> Bounded(b)
    BY DEF Bounded, SameListing
<1>5. Expected(a, r) <=> Expected(b, r)
    BY <1>1, <1>4 DEF Expected, SameListing
<1> QED BY <1>3, <1>5

\* The heart of paging.  If at least as many units as the page skips come
\* before a time, and the page shows none of that time though there is one,
\* then the page is full and everything skipped or shown comes before it.
LEMMA SliceBefore ==
    ASSUME NEW S, IsFiniteSet(S), \A u \in S : u.at \in Int,
           NEW req, req.offset \in Nat, req.limit \in Nat \ {0},
           NEW X \in Page(req, S),
           NEW t \in Int, NEW a \in S, a.at = t,
           Cardinality({u \in S : u.at > t}) >= req.offset,
           \A x \in X : x.at # t
    PROVE  /\ Cardinality(X) = req.limit
           /\ Cardinality({u \in S : u.at > t}) >= req.offset + req.limit
<1> DEFINE N == {u \in S : u.at > t}
           k == Min({req.offset, Cardinality(S)})
           n == Min({req.limit, Cardinality(S) - k})
<1>1. Cardinality(S) \in Nat
    BY FS_CardinalityType
<1>2. k = IF req.offset <= Cardinality(S) THEN req.offset ELSE Cardinality(S)
    BY <1>1, MinOfTwo
<1>3. k \in Nat /\ k <= req.offset /\ k <= Cardinality(S)
    BY <1>1, <1>2
<1>4. X \in Slices(S, k, n)
    BY DEF Page
<1> HIDE DEF k
<1>5. n = IF req.limit <= Cardinality(S) - k THEN req.limit ELSE Cardinality(S) - k
    BY <1>1, <1>3, MinOfTwo
<1> HIDE DEF n
<1>6. X \subseteq S /\ Cardinality(X) = n
    BY <1>4 DEF Slices, kSubset
<1>7. PICK B : /\ B \subseteq S \ X /\ Cardinality(B) = k
               /\ \A b \in B, x \in X : b.at >= x.at
               /\ \A y \in B \cup X, z \in S \ (B \cup X) : y.at >= z.at
    BY <1>4 DEF Slices, kSubset
<1>8. IsFiniteSet(X) /\ IsFiniteSet(B) /\ IsFiniteSet(N) /\ IsFiniteSet(B \cup X)
  <2>1. B \cup X \subseteq S /\ N \subseteq S
      BY <1>6, <1>7
  <2> QED BY <1>6, <1>7, <2>1, FS_Subset
<1>9. Cardinality(B \cup X) = k + n
  <2>1. B \cap X = {}
      BY <1>7
  <2>2. Cardinality(B \cup X) = Cardinality(B) + Cardinality(X) - Cardinality(B \cap X)
      BY <1>8, FS_Union
  <2>3. n \in Int
      BY <1>1, <1>3, <1>5
  <2>4. Cardinality(B \cap X) = 0
      BY <2>1, FS_EmptySet
  <2>5. Cardinality(B) = k /\ Cardinality(X) = n
      BY <1>6, <1>7
  <2> QED BY <1>3, <2>2, <2>3, <2>4, <2>5
<1>10. ASSUME NEW b \in B, b.at = t PROVE FALSE
  <2>1. ASSUME NEW u \in N PROVE u \in B
    <3>1. u \in S /\ u.at \in Int /\ u.at > t
        OBVIOUS
    <3>2. u \in B \cup X
        BY <1>7, <1>10, <3>1
    <3>3. u \notin X
        BY <1>7, <1>10, <3>1
    <3> QED BY <3>2, <3>3
  <2>2. b \notin N
      BY <1>10
  <2>3. Cardinality(N) <= Cardinality(B) /\ (Cardinality(B) = Cardinality(N) => B = N)
      BY <1>8, <2>1, FS_Subset
  <2>4. Cardinality(N) # Cardinality(B)
      BY <2>2, <2>3
  <2>5. Cardinality(N) \in Nat /\ Cardinality(N) >= req.offset
      BY <1>8, FS_CardinalityType
  <2> HIDE DEF N
  <2> QED BY <1>3, <1>7, <2>3, <2>4, <2>5
<1>11. a \notin B \cup X
    BY <1>10
<1>12. ASSUME NEW y \in B \cup X PROVE y \in N
  <2>1. y \in S /\ y.at \in Int /\ y.at >= t
      BY <1>6, <1>7, <1>11
  <2>2. y.at # t
      BY <1>10
  <2> QED BY <2>1, <2>2
<1>13. k + n <= Cardinality(N)
    BY <1>8, <1>9, <1>12, FS_Subset
<1>14. k + n # Cardinality(S)
  <2>1. B \cup X \in SUBSET S /\ B \cup X # S
      BY <1>6, <1>7, <1>11
  <2> QED BY <1>9, <2>1, FS_Subset
<1>15. n = req.limit /\ k = req.offset
    BY <1>1, <1>2, <1>3, <1>5, <1>14
<1> QED BY <1>6, <1>13, <1>15

-----------------------------------------------------------------------------
(* What happens meanwhile.                                                 *)

\* Rows of a file that retention takes are at or before the cutoff.
LEMMA ReclaimedOld ==
    ASSUME FilesInv, NEW f \in files, Reclaim(f), NEW x \in f.rows
    PROVE  x.timestamp \div Micro <= Cutoff(x.workspace_id) \div Micro
<1>1. FileOK(f) /\ x \in Rows
    BY DEF FilesInv, FileOK
<1>2. /\ x.workspace_id = f.workspace_id /\ x.timestamp \div Micro <= f.max_ts /\ f.max_ts \in Int
      /\ f.workspace_id \in Workspaces
    BY <1>1 DEF FileOK
<1>3. f.max_ts <= Cutoff(f.workspace_id) \div Micro
    BY DEF Reclaim
<1>4. x.timestamp \in Int /\ Cutoff(f.workspace_id) \in Int
    BY <1>1, <1>2, CutoffInt, QueryAssumption DEF IsRow, Cutoff, FilesInv
<1>5. x.timestamp \div Micro \in Int /\ Cutoff(f.workspace_id) \div Micro \in Int
    BY <1>4, DivMonotone
<1> QED BY <1>2, <1>3, <1>5

\* Marking the originals of a merged file takes no row away.
LEMMA MarkKeepsRows ==
    ASSUME NEW m \in files, MergeMark(m)
    PROVE  StoredRows(files') = StoredRows(files)
<1>1. files' = files \ Originals(m)
    BY DEF MergeMark
<1>2. m \in files' /\ \A f \in files : f \in files' \/ f.rows \subseteq m.rows
    BY <1>1 DEF Originals
<1> QED BY <1>1, <1>2 DEF StoredRows

\* The cutoff only moves on.
LEMMA CutoffMoves ==
    ASSUME now \in Int, now' \in {now, now + 1}, NEW ws \in Workspaces
    PROVE  /\ Cutoff(ws) \div Micro \in Int /\ Cutoff(ws)' \div Micro \in Int
           /\ Cutoff(ws) \div Micro <= Cutoff(ws)' \div Micro
           /\ Cutoff(ws) \in Int /\ Cutoff(ws)' \in Int /\ Cutoff(ws) <= Cutoff(ws)'
<1>1. Retention[ws] \in Nat /\ DayLen \in Nat
    BY QueryAssumption, DayLenAssumption
<1>2. Retention[ws] * DayLen \in Nat
    BY <1>1
<1>3. Cutoff(ws) \in Int /\ Cutoff(ws)' \in Int /\ Cutoff(ws) <= Cutoff(ws)'
    BY <1>2 DEF Cutoff
<1> QED BY <1>3, DivMonotone

\* What the client may expect afterwards it could expect before, and - but
\* for marking - no row before one it may expect goes.
LEMMA Meanwhile ==
    ASSUME FilesInv, FilesInv', PagerInv, NEW CONSTANT r, r \in pager.stored,
           NEW CONSTANT req, req.kind \in RowKinds, Expected(req, r)',
           \/ \E rs \in Batches : Publish(rs)
           \/ \E f \in files : Reclaim(f)
           \/ \E f, g \in files : Merge(f, g)
           \/ \E m \in files : MergeMark(m)
           \/ Tick
    PROVE  /\ Expected(req, r)
           /\ \/ \E m \in files : MergeMark(m)
              \/ \A x \in StoredRows(files) :
                    x.signal = SignalOf(req.kind) /\ Keep(req, x) /\ x.timestamp > r.timestamp =>
                       x \in StoredRows(files') /\ Holders(x) \subseteq Holders(x)'
<1>1. r \in Rows /\ r.timestamp \in Int /\ r.workspace_id \in Workspaces
    BY QueryAssumption DEF PagerInv, IsRow
<1>2. now \in Int /\ now' \in {now, now + 1}
    BY DEF FilesInv, Publish, Reclaim, Merge, MergeMark, Tick
<1>3. /\ Cutoff(r.workspace_id) \div Micro \in Int /\ Cutoff(r.workspace_id)' \div Micro \in Int
      /\ Cutoff(r.workspace_id) \div Micro <= Cutoff(r.workspace_id)' \div Micro
      /\ r.timestamp \div Micro \in Int
    BY <1>1, <1>2, CutoffMoves, DivMonotone
<1>4. r.timestamp \div Micro > Cutoff(r.workspace_id)' \div Micro
    BY DEF Expected
<1>5. r.timestamp \div Micro > Cutoff(r.workspace_id) \div Micro
    BY <1>3, <1>4
<1>6. r \in StoredRows(files)
    BY <1>3, <1>5 DEF PagerInv
<1>7. /\ r.signal = SignalOf(req.kind) /\ Keep(req, r)
      /\ Bounded(req) /\ req.start # Unset => req.start <= r.timestamp
      /\ req.end # Unset => r.timestamp <= req.end
    BY DEF Expected, Bounded
<1>8. CASE files \subseteq files'
  <2>1. StoredRows(files) \subseteq StoredRows(files') /\ \A x : Holders(x) \subseteq Holders(x)'
      BY <1>8 DEF StoredRows, Holders
  <2> QED BY <1>5, <1>6, <1>7, <2>1 DEF Expected
<1>9. ASSUME NEW m \in files, MergeMark(m)
      PROVE  Expected(req, r)
    BY <1>5, <1>6, <1>7, <1>9, MarkKeepsRows DEF Expected
<1>10. ASSUME NEW f \in files, Reclaim(f)
       PROVE  /\ Expected(req, r)
              /\ \A x \in StoredRows(files) :
                    x.signal = SignalOf(req.kind) /\ Keep(req, x) /\ x.timestamp > r.timestamp =>
                       x \in StoredRows(files') /\ Holders(x) \subseteq Holders(x)'
  <2>1. files' = files \ {f}
      BY <1>10 DEF Reclaim
  <2>2. ASSUME NEW x \in StoredRows(files), Keep(req, x), x.timestamp >= r.timestamp
        PROVE  x \in StoredRows(files') /\ Holders(x) \subseteq Holders(x)'
    <3>1. x.timestamp \in Int /\ (\E g \in files : x \in g.rows)
        BY StoredAreRows
    <3>2. x.workspace_id = r.workspace_id
        BY <1>7, <2>2 DEF Keep
    <3>3. x.timestamp \div Micro \in Int /\ r.timestamp \div Micro <= x.timestamp \div Micro
        BY <1>1, <2>2, <3>1, DivMonotone
    <3>4. ~(x.timestamp \div Micro <= Cutoff(x.workspace_id) \div Micro)
        BY <1>3, <1>5, <3>2, <3>3
    <3>5. x \notin f.rows
        BY <1>10, <3>4, ReclaimedOld
    <3> QED BY <2>1, <3>1, <3>5 DEF StoredRows, Holders
  <2>3. ASSUME NEW x \in StoredRows(files), x.signal = r.signal, Keep(req, x), x.timestamp = r.timestamp
        PROVE  x.id = r.id
    <3>1. x \in StoredRows(files')
        BY <1>1, <2>2, <2>3
    <3> QED BY <2>3, <3>1 DEF Expected
  <2>4. Expected(req, r)
      BY <1>5, <1>6, <1>7, <2>3 DEF Expected
  <2>5. ASSUME NEW x \in StoredRows(files), Keep(req, x), x.timestamp > r.timestamp
        PROVE  x \in StoredRows(files') /\ Holders(x) \subseteq Holders(x)'
    <3>1. x.timestamp \in Int
        BY StoredAreRows
    <3>2. x.timestamp >= r.timestamp
        BY <1>1, <2>5, <3>1
    <3> QED BY <2>2, <2>5, <3>2
  <2> QED BY <2>4, <2>5
<1>11. CASE (\E rs \in Batches : Publish(rs)) \/ (\E f, g \in files : Merge(f, g)) \/ Tick
  <2>1. files \subseteq files'
      BY <1>11 DEF Publish, Merge, Tick
  <2> QED BY <1>8, <2>1
<1> QED BY <1>9, <1>10, <1>11

-----------------------------------------------------------------------------
(* The invariant of paging.                                                *)

\* A new request is not clamped yet.
LEMMA BegunNotClamped ==
    ASSUME NEW w \in Requests, Begin(w)
    PROVE  ~Clamped' /\ q'.req = Decoded(w) /\ q'.pc \in {"end", "policy", "read"} /\ (q'.pc = "end" => q'.answer # "ok")
           /\ (q'.pc = "policy" => w.kind \in Listings \cup {"series"})
<1> DEFINE refusal == IF Authorized(w) # "ok" THEN Authorized(w)
                      ELSE IF RangeMissing(w) THEN "invalid_input" ELSE "none"
           pc == IF refusal # "none" THEN "end" ELSE IF w.kind \in Listings \cup {"series"} THEN "policy" ELSE "read"
           range == IF w.kind \in Dashboards THEN TimeRange(Decoded(w)) ELSE Unset
<1>1. q' = [Idle EXCEPT !.pc = pc, !.req = Decoded(w), !.answer = refusal, !.range = range]
    BY DEF Begin
<1>2. q'.pc = pc /\ q'.req = Decoded(w) /\ q'.answer = refusal
  <2> HIDE DEF pc, refusal, range
  <2> QED BY <1>1 DEF Idle
<1>3. refusal # "ok"
    OBVIOUS
<1> HIDE DEF refusal
<1> QED BY <1>1, <1>2, <1>3 DEF Clamped

\* How the later steps of a listing move.
LEMMA ListingMoves ==
    ASSUME RequestInv
    PROVE  /\ Clamp => /\ q.pc = "policy" /\ q'.req = q.req /\ q'.clamped = now /\ q'.range = TimeRange(q.req)
                       /\ q'.pc = (IF q.req.kind = "series" THEN "read" ELSE "count")
                       /\ UNCHANGED <<files, now, pager>>
           /\ Count => /\ q.pc = "count" /\ q'.pc = "page" /\ q'.req = q.req /\ q'.range = q.range
                       /\ q'.clamped = q.clamped /\ UNCHANGED <<files, now, pager>>
           /\ ReadPage => /\ q.pc = "page" /\ q'.pc = "answered" /\ q'.req = q.req /\ q'.range = q.range
                          /\ q'.clamped = q.clamped /\ UNCHANGED <<files, now>>
           /\ NextPage => /\ q.pc = "answered" /\ UNCHANGED <<files, now, pager>>
                          /\ \/ /\ q.req.limit > 0 /\ Cardinality(q.items) = q.req.limit /\ q'.pc = "policy"
                                /\ q'.req = [q.req EXCEPT !.offset = @ + q.req.limit]
                             \/ /\ ~(q.req.limit > 0 /\ Cardinality(q.items) = q.req.limit) /\ q'.pc = "end"
                                /\ q'.req = q.req /\ q'.clamped = q.clamped /\ q'.range = q.range
<1>1. q = [pc |-> q.pc, req |-> q.req, range |-> q.range, clamped |-> q.clamped, total |-> q.total,
           items |-> q.items, answer |-> q.answer, read |-> q.read, result |-> q.result]
    BY DEF RequestInv
<1>3. Clamp => /\ q.pc = "policy" /\ q'.req = q.req /\ q'.clamped = now /\ q'.range = TimeRange(q.req)
               /\ q'.pc = (IF q.req.kind = "series" THEN "read" ELSE "count")
               /\ UNCHANGED <<files, now, pager>>
    BY <1>1 DEF Clamp
<1>4. Count => /\ q.pc = "count" /\ q'.pc = "page" /\ q'.req = q.req /\ q'.range = q.range
               /\ q'.clamped = q.clamped /\ UNCHANGED <<files, now, pager>>
    BY <1>1 DEF Count
<1>5. ASSUME ReadPage
      PROVE  /\ q.pc = "page" /\ q'.pc = "answered" /\ q'.req = q.req /\ q'.range = q.range
             /\ q'.clamped = q.clamped /\ UNCHANGED <<files, now>>
  <2>1. PICK items : q' = [q EXCEPT !.pc = "answered", !.items = items]
      BY <1>5 DEF ReadPage
  <2> QED BY <1>1, <1>5, <2>1 DEF ReadPage
<1>6. ASSUME NextPage
      PROVE  /\ q.pc = "answered" /\ UNCHANGED <<files, now, pager>>
             /\ \/ /\ q.req.limit > 0 /\ Cardinality(q.items) = q.req.limit /\ q'.pc = "policy"
                   /\ q'.req = [q.req EXCEPT !.offset = @ + q.req.limit]
                \/ /\ ~(q.req.limit > 0 /\ Cardinality(q.items) = q.req.limit) /\ q'.pc = "end"
                   /\ q'.req = q.req /\ q'.clamped = q.clamped /\ q'.range = q.range
  <2> DEFINE next == [q.req EXCEPT !.offset = @ + q.req.limit]
             more == q.req.limit > 0 /\ Cardinality(q.items) = q.req.limit
  <2>1. q' = IF more THEN [Idle EXCEPT !.pc = "policy", !.req = next] ELSE [q EXCEPT !.pc = "end", !.answer = "ok"]
      BY <1>6 DEF NextPage
  <2> HIDE DEF next, more
  <2>2. more => q'.pc = "policy" /\ q'.req = next
      BY <2>1 DEF Idle
  <2>3. ~more => q'.pc = "end" /\ q'.req = q.req /\ q'.clamped = q.clamped /\ q'.range = q.range
      BY <1>1, <2>1
  <2> QED BY <1>6, <2>2, <2>3 DEF NextPage, next, more
<1> QED BY <1>3, <1>4, <1>5, <1>6

\* What the client remembers.
LEMMA PagerStep ==
    ASSUME FilesInv, FilesInv', RequestInv, PagerInv, [Next]_vars
    PROVE  PagerInv'
<1>1. \A r \in pager.stored : r \in Rows /\ r.timestamp \in Int /\ r.workspace_id \in Workspaces
    BY QueryAssumption DEF PagerInv, IsRow
<1>2. now \in Int
    BY DEF FilesInv
<1>3. ASSUME UNCHANGED <<files, now>>, pager'.stored = pager.stored,
             pager' = [seen |-> pager'.seen, stored |-> pager'.stored, merged |-> pager'.merged],
             Clamped' => (Clamped /\ q'.clamped = q.clamped) \/ q'.clamped = now,
             q'.req.kind = q.req.kind /\ q'.req.start = q.req.start /\ q'.req.end = q.req.end
      PROVE  PagerInv'
  <2>1. \A ws : Cutoff(ws)' = Cutoff(ws)
      BY <1>3 DEF Cutoff
  <2>2. OpenEnded(q.req)' <=> OpenEnded(q.req)
      BY <1>3 DEF OpenEnded, Bounded
  <2> QED BY <1>3, <2>1, <2>2 DEF PagerInv
<1>4. ASSUME NEW w \in Requests, Begin(w) PROVE PagerInv'
  <2>1. files' = files /\ now' = now
      BY <1>4 DEF Begin
  <2>2. \/ pager' = [seen |-> {}, stored |-> Expectable(w), merged |-> FALSE]
        \/ pager' = [seen |-> {}, stored |-> {}, merged |-> FALSE]
      BY <1>4 DEF Begin, NoPages
  <2>3. \A r \in StoredRows(files) : r \in Rows
      BY StoredAreRows
  <2>4. q'.req = Decoded(w) /\ ~Clamped'
      BY <1>4, BegunNotClamped
  <2>5. Decoded(w).kind = w.kind /\ Decoded(w).start = w.start /\ Decoded(w).end = w.end
      BY DecodedOK, QueryAssumption
  <2>6. OpenEnded(q.req)' <=> OpenEnded(w)
      BY <2>4, <2>5 DEF OpenEnded, Bounded
  <2>7. \A r \in Expectable(w) : r \in StoredRows(files) /\ (OpenEnded(w) => r.timestamp <= now)
      BY DEF Expectable, OpenEnded
  <2> QED BY <2>1, <2>2, <2>3, <2>4, <2>6, <2>7 DEF PagerInv
<1>5. CASE RefusalStep
    BY <1>3, <1>5, RefusalEnds DEF Clamped, PagerInv
<1>6. CASE Clamp
    BY <1>3, <1>6, ListingMoves DEF PagerInv
<1>7. CASE Count
    BY <1>3, <1>7, ListingMoves DEF Clamped, PagerInv
<1>8. CASE ReadPage
  <2>1. PICK seen : pager' = [pager EXCEPT !.seen = seen]
      BY <1>8 DEF ReadPage
  <2>2. /\ pager' = [seen |-> pager'.seen, stored |-> pager'.stored, merged |-> pager'.merged]
        /\ pager'.stored = pager.stored
      BY <2>1 DEF PagerInv
  <2> QED BY <1>3, <1>8, <2>2, ListingMoves DEF Clamped
<1>9. CASE NextPage
  <2>1. q.req \in Request
      BY <1>1, <1>9, ListingMoves DEF RequestInv
  <2>2. q'.req.kind = q.req.kind /\ q'.req.start = q.req.start /\ q'.req.end = q.req.end
      BY <1>9, <2>1, ListingMoves DEF Request
  <2> QED BY <1>3, <1>9, <2>2, ListingMoves DEF Clamped, PagerInv
<1>10. CASE ReadStep
  <2>1. q'.pc \in {"read", "end"} /\ q'.req = q.req /\ q'.req.kind \notin Listings /\ UNCHANGED <<files, now, pager>>
      BY <1>10, ReadStepEnds DEF RequestInv
  <2> QED BY <1>3, <2>1 DEF Clamped, PagerInv
<1>11. CASE Finish
    BY <1>11 DEF Finish, NoPages, PagerInv
<1>12. CASE (\E rs \in Batches : Publish(rs)) \/ (\E f, g \in files : Merge(f, g))
  <2>1. files \subseteq files' /\ UNCHANGED <<now, q, pager>>
      BY <1>12 DEF Publish, Merge
  <2>2. /\ StoredRows(files) \subseteq StoredRows(files') /\ \A ws : Cutoff(ws)' = Cutoff(ws)
        /\ Clamped' <=> Clamped
        /\ OpenEnded(q.req)' <=> OpenEnded(q.req)
      BY <2>1 DEF StoredRows, Cutoff, Clamped, OpenEnded, Bounded
  <2> QED BY <2>1, <2>2 DEF PagerInv
<1>13. ASSUME NEW f \in files, Reclaim(f) PROVE PagerInv'
  <2>1. files' = files \ {f} /\ UNCHANGED <<now, q, pager>>
      BY <1>13 DEF Reclaim
  <2>2. (\A ws : Cutoff(ws)' = Cutoff(ws)) /\ (Clamped' <=> Clamped) /\ (OpenEnded(q.req)' <=> OpenEnded(q.req))
      BY <2>1 DEF Cutoff, Clamped, OpenEnded, Bounded
  <2>3. ASSUME NEW r \in pager.stored, r \notin StoredRows(files')
        PROVE  r.timestamp \div Micro <= Cutoff(r.workspace_id) \div Micro
    <3>1. CASE r \in f.rows
        BY <1>13, <3>1, ReclaimedOld
    <3>2. CASE r \notin f.rows
      <4>1. r \notin StoredRows(files)
          BY <2>1, <2>3, <3>2 DEF StoredRows
      <4> QED BY <4>1 DEF PagerInv
    <3> QED BY <3>1, <3>2
  <2> QED BY <2>1, <2>2, <2>3 DEF PagerInv
<1>14. ASSUME NEW m \in files, MergeMark(m) PROVE PagerInv'
  <2>1. UNCHANGED <<now, q>> /\ (pager' = pager \/ pager' = [pager EXCEPT !.merged = TRUE])
      BY <1>14 DEF MergeMark
  <2>2. /\ pager' = [seen |-> pager'.seen, stored |-> pager'.stored, merged |-> pager'.merged]
        /\ pager'.stored = pager.stored
      BY <2>1 DEF PagerInv
  <2>3. (\A ws : Cutoff(ws)' = Cutoff(ws)) /\ (Clamped' <=> Clamped) /\ (OpenEnded(q.req)' <=> OpenEnded(q.req))
      BY <2>1 DEF Cutoff, Clamped, OpenEnded, Bounded
  <2>4. StoredRows(files') = StoredRows(files)
      BY <1>14, MarkKeepsRows
  <2> QED BY <2>1, <2>2, <2>3, <2>4 DEF PagerInv
<1>15. CASE Tick
  <2>1. now' = now + 1 /\ UNCHANGED <<files, q, pager>>
      BY <1>15 DEF Tick
  <2>2. (Clamped' <=> Clamped) /\ (OpenEnded(q.req)' <=> OpenEnded(q.req))
      BY <2>1 DEF Clamped, OpenEnded, Bounded
  <2>3. ASSUME NEW r \in pager.stored
        PROVE  /\ OpenEnded(q.req) => r.timestamp <= now'
               /\ r \notin StoredRows(files') => r.timestamp \div Micro <= Cutoff(r.workspace_id)' \div Micro
    <3>1. OpenEnded(q.req) => r.timestamp <= now'
        BY <1>1, <1>2, <2>1 DEF PagerInv
    <3>2. /\ Cutoff(r.workspace_id) \div Micro \in Int /\ Cutoff(r.workspace_id)' \div Micro \in Int
          /\ Cutoff(r.workspace_id) \div Micro <= Cutoff(r.workspace_id)' \div Micro
          /\ r.timestamp \div Micro \in Int
        BY <1>1, <1>2, <2>1, CutoffMoves, DivMonotone
    <3>3. r \notin StoredRows(files) => r.timestamp \div Micro <= Cutoff(r.workspace_id) \div Micro
        BY DEF PagerInv
    <3> QED BY <2>1, <3>1, <3>2, <3>3
  <2> QED BY <2>1, <2>2, <2>3 DEF PagerInv
<1>16. CASE UNCHANGED vars
  <2>1. UNCHANGED <<files, now, q, pager>>
      BY <1>16 DEF vars
  <2> QED BY <1>3, <2>1 DEF Clamped, PagerInv
<1> QED BY <1>4, <1>5, <1>6, <1>7, <1>8, <1>9, <1>10, <1>11, <1>12, <1>13, <1>14, <1>15, <1>16, StepsAre

\* A row the client may expect is in the range of its page.
LEMMA ExpectedInRange ==
    ASSUME QueryIInv, PagerInv, q.pc = "page", q.req.kind \in RowKinds,
           NEW r \in pager.stored, Expected(q.req, r)
    PROVE  In(r.timestamp, q.range)
<1>1. /\ Clamped /\ r.timestamp \in Int /\ r.workspace_id \in Workspaces /\ now \in Int
      /\ q.req.start \in Optional(Int)
  <2>1. r \in Rows
      BY DEF PagerInv
  <2> QED BY <2>1, QueryAssumption DEF QueryIInv, FilesInv, IsRow, Clamped, RequestInv, Request
<1>2. CASE ~Bounded(q.req)
    BY <1>1, <1>2 DEF QueryIInv, RangeInv, In
<1>3. CASE Bounded(q.req)
  <2> DEFINE cutoff == q.clamped - Retention[q.req.workspace_id] * DayLen
  <2>1. /\ q.clamped \in Int /\ q.clamped <= now /\ q.range \in [start : Int, end : Int]
        /\ q.range.start \in {cutoff, q.req.start}
        /\ q.range.end = (IF q.req.end = Unset THEN q.clamped ELSE q.req.end)
      BY <1>1, <1>3 DEF QueryIInv, RangeInv
  <2>2. r.timestamp <= q.range.end
      BY <1>1, <1>3, <2>1 DEF Expected, PagerInv, OpenEnded
  <2>3. r.workspace_id = q.req.workspace_id
      BY DEF Expected, Keep
  <2>4. cutoff <= r.timestamp
    <3>1. Retention[r.workspace_id] \in Nat /\ DayLen \in Nat
        BY <1>1, QueryAssumption, DayLenAssumption
    <3>2. Retention[r.workspace_id] * DayLen \in Nat
        BY <3>1
    <3>3. cutoff \in Int /\ Cutoff(r.workspace_id) \in Int /\ cutoff <= Cutoff(r.workspace_id)
        BY <1>1, <2>1, <2>3, <3>2 DEF Cutoff
    <3>4. r.timestamp \div Micro > Cutoff(r.workspace_id) \div Micro
        BY DEF Expected
    <3> HIDE DEF cutoff
    <3>5. ~(r.timestamp <= Cutoff(r.workspace_id))
        BY <1>1, <3>3, <3>4, DivMonotone
    <3> QED BY <1>1, <3>3, <3>5
  <2>5. q.req.start # Unset => q.req.start <= r.timestamp
      BY <1>3 DEF Expected
  <2>6. q.range.start <= r.timestamp
    <3>1. CASE q.range.start = cutoff
        BY <2>4, <3>1
    <3>2. CASE q.range.start = q.req.start
      <4>1. q.req.start # Unset
          BY <2>1, <3>2, QueryAssumption
      <4> QED BY <2>5, <3>2, <4>1
    <3> QED BY <2>1, <3>1, <3>2
  <2> QED BY <2>2, <2>6 DEF In
<1> QED BY <1>2, <1>3

\* A page shows an expected row that is not behind it, or is full and leaves
\* the row ahead of the next one.
LEMMA PageShows ==
    ASSUME QueryIInv, PagerInv, q.pc = "page", q.req.kind \in RowKinds, q.req.limit > 0,
           NEW r \in pager.stored, Expected(q.req, r),
           Cardinality(Newer(q.req, r, PageEnd(q.range))) >= q.req.offset,
           NEW items \in Page(q.req, Units(q.req, q.range, Scanned(q.req, q.range))),
           r.id \notin {u.id : u \in items}
    PROVE  /\ Cardinality(items) = q.req.limit
           /\ Cardinality(Newer(q.req, r, PageEnd(q.range))) >= q.req.offset + q.req.limit
<1> DEFINE S == MatchingRows(q.req, q.range, OfSignal(q.req.kind))
           N == Newer(q.req, r, PageEnd(q.range))
           end == PageEnd(q.range)
           mine == [id |-> r.id, at |-> r.timestamp, copy |-> 1]
<1>1. /\ FilesInv /\ q.req \in Request /\ q.req.kind \in Listings /\ q.req.offset \in Nat
      /\ q.req.limit \in Nat \ {0}
    BY DEF QueryIInv, RequestInv, Request
<1>2. q.range \in Optional([start : Int, end : Int])
    BY DEF QueryIInv, RangeInv, Clamped, Optional
<1>3. Units(q.req, q.range, Scanned(q.req, q.range)) = S
  <2>1. {x \in Scanned(q.req, q.range) : Where(q.req, q.range, x)}
          = {x \in OfSignal(q.req.kind) : Where(q.req, q.range, x)}
      BY <1>1, <1>2, ScanIsExact
  <2>2. q.req.kind # "traces"
      BY DEF RowKinds
  <2>3. Units(q.req, q.range, Scanned(q.req, q.range)) = Units(q.req, q.range, OfSignal(q.req.kind))
      BY <1>1, <2>1, <2>2, UnitsOfMatching
  <2> QED BY <2>2, <2>3 DEF Units
<1>4. r \in StoredRows(files) /\ r \in Rows /\ r.timestamp \in Int
  <2>1. r \in StoredRows(files)
      BY DEF Expected
  <2> QED BY <1>1, <2>1, StoredAreRows
<1>5. In(r.timestamp, q.range)
    BY ExpectedInRange
<1>6. ASSUME NEW u
      PROVE  u \in S <=> \E x \in StoredRows(files) :
                /\ x.signal = SignalOf(q.req.kind) /\ Keep(q.req, x) /\ In(x.timestamp, q.range)
                /\ \E k \in 1..Cardinality(Holders(x)) : u = [id |-> x.id, at |-> x.timestamp, copy |-> k]
    BY <1>1, UnitsAre, SMTT(30)
<1>7. mine \in S
  <2>1. Holders(r) # {} /\ IsFiniteSet(Holders(r))
      BY <1>1, <1>4, FS_Subset DEF Holders, StoredRows, FilesInv
  <2>2. 1 \in 1..Cardinality(Holders(r))
      BY <2>1, FS_CardinalityType, FS_EmptySet
  <2>3. r.signal = SignalOf(q.req.kind) /\ Keep(q.req, r)
      BY DEF Expected
  <2> HIDE DEF S
  <2> QED BY <1>4, <1>5, <1>6, <2>2, <2>3
<1>8. IsFiniteSet(S)
    BY <1>1, UnitsFinite
<1>9. NewerIs(q.req, r, end)
    BY <1>1, NewerAlways
<1> HIDE DEF S
<1>10. \A u \in S : u.at \in Int
  <2>1. \A x \in StoredRows(files) : x.timestamp \in Int
      BY <1>1, StoredAreRows
  <2> QED BY <1>6, <2>1
<1>11. ASSUME NEW u PROVE u \in N <=> u \in S /\ u.at > r.timestamp
  <2>1. ASSUME NEW x \in StoredRows(files), x.timestamp > r.timestamp
        PROVE  In(x.timestamp, q.range) <=> (end = Unset \/ x.timestamp <= end)
    <3>1. x.timestamp \in Int
        BY <1>1, StoredAreRows
    <3>2. CASE q.range = Unset
        BY <3>2 DEF In, PageEnd
    <3>3. CASE q.range # Unset
      <4>1. q.range.start \in Int /\ q.range.end \in Int /\ q.range.start <= r.timestamp
          BY <1>2, <1>5, <3>3 DEF Optional, In
      <4>2. end = q.range.end /\ end # Unset
          BY <3>3, <4>1, QueryAssumption DEF PageEnd
      <4> QED BY <1>4, <2>1, <3>1, <3>3, <4>1, <4>2 DEF In
    <3> QED BY <3>2, <3>3
  <2> HIDE DEF end
  <2>2. u \in N <=>
         \E x \in StoredRows(files) :
            /\ x.signal = SignalOf(q.req.kind) /\ Keep(q.req, x)
            /\ x.timestamp > r.timestamp /\ (end = Unset \/ x.timestamp <= end)
            /\ \E k \in 1..Cardinality(Holders(x)) : u = [id |-> x.id, at |-> x.timestamp, copy |-> k]
      BY <1>9 DEF NewerIs, end
  <2>3. u \in N => u \in S /\ u.at > r.timestamp
      BY <1>6, <2>1, <2>2
  <2>4. u \in S /\ u.at > r.timestamp => u \in N
      BY <1>6, <2>1, <2>2
  <2> QED BY <2>3, <2>4
<1>12. N = {u \in S : u.at > r.timestamp}
    BY <1>11
<1>13. ASSUME NEW x \in items PROVE x.at # r.timestamp
  <2>1. SUFFICES ASSUME x.at = r.timestamp PROVE FALSE
      OBVIOUS
  <2>2. x \in S
      BY <1>3, PageOf
  <2>3. PICK y \in StoredRows(files) : /\ y.signal = SignalOf(q.req.kind) /\ Keep(q.req, y)
                                       /\ x.id = y.id /\ x.at = y.timestamp
      BY <1>6, <2>2
  <2>4. y.id = r.id
      BY <2>1, <2>3 DEF Expected
  <2> QED BY <2>3, <2>4
<1> HIDE DEF N
<1>14. Cardinality({u \in S : u.at > r.timestamp}) >= q.req.offset
    BY <1>12 DEF N
<1>15. /\ Cardinality(items) = q.req.limit
       /\ Cardinality({u \in S : u.at > r.timestamp}) >= q.req.offset + q.req.limit
  <2>1. mine.at = r.timestamp /\ items \in Page(q.req, S)
      BY <1>3
  <2> HIDE DEF mine
  <2> QED BY <1>1, <1>4, <1>7, <1>8, <1>10, <1>13, <1>14, <2>1, SliceBefore
<1> QED BY <1>12, <1>15 DEF N

\* A client that has not been shown an expected row has it ahead, whatever it
\* or the files do next, if it began with the first page.
LEMMA PagingStep ==
    ASSUME \A w \in Requests : w.offset = 0,
           PageIInv, QueryIInv', [Next]_vars
    PROVE  PagingInv'
<1>1. /\ FilesInv /\ FilesInv' /\ RequestInv /\ PagerInv /\ PagingInv
      /\ \A r \in pager.stored : r \in Rows /\ r.timestamp \in Int
    BY QueryAssumption DEF PageIInv, QueryIInv, PagerInv, IsRow
<1>2. Paging => /\ q.req \in Request /\ q.req.kind \in RowKinds /\ q.req.limit \in Nat \ {0} /\ q.req.offset \in Nat
    BY <1>1 DEF Paging, RequestInv, RowKinds, Request
<1> SUFFICES ASSUME Paging', NEW CONSTANT r, r \in pager'.stored, Expected(q.req, r)', r.id \notin pager'.seen
             PROVE  Ahead(r)'
    BY DEF PagingInv
<1>3. /\ q'.req \in Request /\ q'.req.kind \in RowKinds /\ q'.req.limit \in Nat \ {0} /\ q'.req.offset \in Nat
      /\ q'.pc \in {"policy", "count", "page", "answered"} \/ (q'.pc = "end" /\ q'.answer = "ok")
      /\ ~pager'.merged
    BY DEF Paging, QueryIInv, RequestInv, RowKinds, Request
<1> PICK new : new = q'.req
    OBVIOUS
<1>4. /\ Expected(new, r)' /\ \A end : NewerIs(new, r, end)'
      /\ \A end : end = OpenEnd(q.req)' => Newer(q.req, r, OpenEnd(q.req))' = Newer(new, r, end)'
      /\ \A range : range = q'.range => Newer(q.req, r, PageEnd(q.range))' = Newer(new, r, PageEnd(range))'
    BY <1>1, <1>3, NewerNext DEF PageEnd
<1>5. ASSUME NEW w \in Requests, Begin(w) PROVE Ahead(r)'
  <2>1. /\ q'.req = Decoded(w) /\ q'.pc \in {"end", "policy", "read"} /\ (q'.pc = "end" => q'.answer # "ok")
        /\ w \in Request
      BY <1>5, BegunNotClamped, QueryAssumption
  <2>2. q'.pc = "policy" /\ q'.req.offset = 0
      BY <1>3, <2>1, DecodedOK
  <2>3. PICK end : end = OpenEnd(q.req)'
      OBVIOUS
  <2>4. Cardinality(Newer(new, r, end)') \in Nat
      BY <1>4 DEF NewerIs
  <2>5. Cardinality(Newer(q.req, r, OpenEnd(q.req))') \in Nat
      BY <1>4, <2>3, <2>4
  <2> QED BY <2>2, <2>5 DEF Ahead
<1>6. ASSUME UNCHANGED <<files, now, pager>>, Paging, SameListing(q.req, new)
      PROVE  /\ Expected(q.req, r) /\ r \in pager.stored /\ r.id \notin pager.seen /\ Ahead(r)
             /\ \A end : Newer(new, r, end)' = Newer(q.req, r, end)
  <2>1. Expected(new, r)' <=> Expected(new, r)
      BY <1>6 DEF Expected, Cutoff, Bounded
  <2>2. Expected(q.req, r)
      BY <1>1, <1>2, <1>4, <1>6, <2>1, SameListingSame
  <2>3. \A end : Newer(new, r, end)' = Newer(new, r, end)
      BY <1>6 DEF Newer, OfSignal
  <2>4. \A end : Newer(new, r, end) = Newer(q.req, r, end)
      BY <1>1, <1>2, <1>6, SameListingSame
  <2> QED BY <1>1, <1>6, <2>2, <2>3, <2>4 DEF PagingInv
<1>7. CASE RefusalStep
    BY <1>1, <1>3, <1>7, RefusalEnds
<1>8. CASE Clamp
  <2>1. /\ q.pc = "policy" /\ q'.req = q.req /\ q'.clamped = now /\ q'.pc = "count"
        /\ UNCHANGED <<files, now, pager>>
      BY <1>1, <1>3, <1>8, ListingMoves DEF RowKinds
  <2>2. Paging /\ SameListing(q.req, new)
      BY <1>3, <2>1 DEF Paging, SameListing, RowKinds
  <2>3. Cardinality(Newer(q.req, r, OpenEnd(q.req))) >= q.req.offset
      BY <1>6, <2>1, <2>2 DEF Ahead
  <2>4. OpenEnd(q.req) = PageEnd(q'.range)
    <3>1. /\ Bounded(q.req) => /\ q'.range \in [start : Int, end : Int]
                               /\ q'.range.end = (IF q.req.end = Unset THEN now ELSE q.req.end)
          /\ ~Bounded(q.req) => q'.range = Unset /\ q.req.end = Unset
      <4>1. Clamped' /\ (Bounded(q.req)' <=> Bounded(q.req))
          BY <2>1 DEF Clamped, Bounded
      <4> QED BY <2>1, <4>1 DEF QueryIInv, RangeInv
    <3> QED BY <3>1, QueryAssumption DEF PageEnd, OpenEnd, OpenEnded
  <2>5. Newer(q.req, r, PageEnd(q.range))' = Newer(q.req, r, PageEnd(q'.range))
    <3>1. PICK range : range = q'.range
        OBVIOUS
    <3> QED BY <1>4, <1>6, <2>1, <2>2, <3>1
  <2> QED BY <2>1, <2>3, <2>4, <2>5 DEF Ahead
<1>9. CASE Count
  <2>1. /\ q.pc = "count" /\ q'.pc = "page" /\ q'.req = q.req /\ q'.range = q.range
        /\ UNCHANGED <<files, now, pager>>
      BY <1>1, <1>9, ListingMoves
  <2>2. Paging /\ SameListing(q.req, new)
      BY <1>3, <2>1 DEF Paging, SameListing, RowKinds
  <2>3. Cardinality(Newer(q.req, r, PageEnd(q.range))) >= q.req.offset
      BY <1>6, <2>1, <2>2 DEF Ahead
  <2>4. Newer(q.req, r, PageEnd(q.range))' = Newer(q.req, r, PageEnd(q.range))
    <3>1. PICK range : range = q'.range
        OBVIOUS
    <3> QED BY <1>4, <1>6, <2>1, <2>2, <3>1
  <2> QED BY <2>1, <2>3, <2>4 DEF Ahead
<1>10. CASE ReadPage
  <2>1. /\ q.pc = "page" /\ q'.pc = "answered" /\ q'.req = q.req /\ q'.range = q.range
        /\ UNCHANGED <<files, now>>
      BY <1>1, <1>10, ListingMoves
  <2>2. PICK items \in Page(q.req, Units(q.req, q.range, Scanned(q.req, q.range))) :
            /\ q' = [q EXCEPT !.pc = "answered", !.items = items]
            /\ pager' = [pager EXCEPT !.seen = @ \cup {u.id : u \in items}]
      BY <1>10 DEF ReadPage
  <2>3. q'.items = items
      BY <1>1, <2>2 DEF RequestInv
  <2>4. /\ pager'.stored = pager.stored /\ pager'.merged = pager.merged
        /\ pager'.seen = pager.seen \cup {u.id : u \in items}
    <3> DEFINE shown == pager.seen \cup {u.id : u \in items}
    <3>1. pager' = [pager EXCEPT !.seen = shown]
        BY <2>2
    <3> HIDE DEF shown
    <3>2. /\ pager'.stored = pager.stored /\ pager'.merged = pager.merged /\ pager'.seen = shown
        BY <1>1, <3>1 DEF PagerInv
    <3> QED BY <3>2 DEF shown
  <2>5. Paging /\ r \in pager.stored /\ r.id \notin pager.seen /\ r.id \notin {u.id : u \in items}
      BY <1>3, <2>1, <2>4 DEF Paging, RowKinds
  <2>6. Expected(q.req, r)
      BY <2>1 DEF Expected, Cutoff, Bounded
  <2>7. Cardinality(Newer(q.req, r, PageEnd(q.range))) >= q.req.offset
      BY <1>1, <2>1, <2>5, <2>6 DEF PagingInv, Ahead
  <2>8. /\ Cardinality(items) = q.req.limit
        /\ Cardinality(Newer(q.req, r, PageEnd(q.range))) >= q.req.offset + q.req.limit
    <3>1. QueryIInv /\ q.req.limit > 0
        BY <1>2, <2>5 DEF PageIInv
    <3> QED BY <1>1, <1>2, <2>1, <2>5, <2>6, <2>7, <3>1, PageShows
  <2>9. Newer(q.req, r, PageEnd(q.range))' = Newer(q.req, r, PageEnd(q.range))
      BY <2>1 DEF Newer, OfSignal, PageEnd
  <2> QED BY <2>1, <2>3, <2>8, <2>9 DEF Ahead
<1>11. CASE NextPage
  <2> DEFINE next == [q.req EXCEPT !.offset = @ + q.req.limit]
  <2>1. /\ q.pc = "answered" /\ UNCHANGED <<files, now, pager>> /\ q.req \in Request
        /\ \/ /\ q.req.limit > 0 /\ Cardinality(q.items) = q.req.limit /\ q'.pc = "policy" /\ q'.req = next
           \/ /\ ~(q.req.limit > 0 /\ Cardinality(q.items) = q.req.limit) /\ q'.pc = "end" /\ q'.req = q.req
      BY <1>1, <1>11, ListingMoves DEF RequestInv
  <2>2. SameListing(q.req, next) /\ next.limit = q.req.limit /\ next.offset = q.req.offset + q.req.limit
    <3>1. q.req.offset + q.req.limit = q.req.offset + q.req.limit
        OBVIOUS
    <3> QED BY <2>1 DEF SameListing, Request
  <2> HIDE DEF next
  <2>3. Paging /\ SameListing(q.req, new)
      BY <1>3, <2>1, <2>2 DEF Paging, SameListing, RowKinds
  <2>4. /\ Cardinality(q.items) = q.req.limit /\ q.req.limit > 0
        /\ Cardinality(Newer(q.req, r, PageEnd(q.range))) >= q.req.offset + q.req.limit
      BY <1>2, <1>6, <2>1, <2>3 DEF Ahead
  <2>5. q'.pc = "policy" /\ q'.req = next
      BY <2>1, <2>4
  <2>6. /\ NewerIs(q.req, r, PageEnd(q.range)) /\ NewerIs(q.req, r, OpenEnd(q.req))
      BY <1>1, <1>2, <2>3, NewerAlways
  <2>7. \/ PageEnd(q.range) = OpenEnd(q.req)
        \/ /\ PageEnd(q.range) \in Int /\ PageEnd(q.range) # Unset
           /\ OpenEnd(q.req) = now /\ PageEnd(q.range) <= now /\ now \in Int
    <3>1. Clamped
        BY <2>1 DEF Clamped
    <3>2. /\ Bounded(q.req) => /\ q.range \in [start : Int, end : Int]
                               /\ q.range.end = (IF q.req.end = Unset THEN q.clamped ELSE q.req.end)
          /\ ~Bounded(q.req) => q.range = Unset /\ q.req.end = Unset
          /\ q.clamped \in Int /\ q.clamped <= now
        BY <3>1 DEF PageIInv, QueryIInv, RangeInv
    <3> QED BY <1>1, <3>2, QueryAssumption DEF PageEnd, OpenEnd, OpenEnded, FilesInv
  <2>8. \A u : u \in Newer(q.req, r, PageEnd(q.range)) => u \in Newer(q.req, r, OpenEnd(q.req))
    <3>1. \A x \in StoredRows(files) : x.timestamp \in Int
        BY <1>1, StoredAreRows
    <3>2. \A x \in StoredRows(files) : PageEnd(q.range) = Unset \/ x.timestamp <= PageEnd(q.range) =>
                                        OpenEnd(q.req) = Unset \/ x.timestamp <= OpenEnd(q.req)
        BY <2>7, <3>1
    <3> QED BY <2>6, <3>2 DEF NewerIs
  <2>9. Cardinality(Newer(q.req, r, OpenEnd(q.req))) >= q.req.offset + q.req.limit
    <3>1. Cardinality(Newer(q.req, r, PageEnd(q.range))) <= Cardinality(Newer(q.req, r, OpenEnd(q.req)))
        BY <2>6, <2>8, FS_Subset DEF NewerIs
    <3> QED BY <1>2, <2>3, <2>4, <2>6, <3>1 DEF NewerIs
  <2>10. Newer(q.req, r, OpenEnd(q.req))' = Newer(q.req, r, OpenEnd(q.req))
    <3>1. new.end = q.req.end /\ new.kind = q.req.kind /\ new.start = q.req.start /\ now' = now
        BY <2>1, <2>3 DEF SameListing
    <3>2. PICK end : end = OpenEnd(q.req)'
        OBVIOUS
    <3>3. end = OpenEnd(q.req)
        BY <3>1, <3>2 DEF OpenEnd, OpenEnded, Bounded
    <3> QED BY <1>4, <1>6, <2>1, <2>3, <3>2, <3>3
  <2> QED BY <2>2, <2>5, <2>9, <2>10 DEF Ahead
<1>12. CASE ReadStep
  <2>1. q'.req.kind \notin Listings
      BY <1>1, <1>12, ReadStepEnds DEF RequestInv
  <2> QED BY <1>3, <2>1 DEF Listings, RowKinds
<1>13. CASE Finish
    BY <1>3, <1>13 DEF Finish, Idle
<1>14. CASE \/ \E rs \in Batches : Publish(rs)
            \/ \E f \in files : Reclaim(f)
            \/ \E f, g \in files : Merge(f, g)
            \/ \E m \in files : MergeMark(m)
            \/ Tick
  <2>1. q' = q
      BY <1>14 DEF Publish, Reclaim, Merge, MergeMark, Tick
  <2>2. pager' = pager
    <3>1. CASE \E m \in files : MergeMark(m)
      <4>1. pager' = pager \/ pager' = [pager EXCEPT !.merged = TRUE]
          BY <3>1 DEF MergeMark
      <4> QED BY <1>1, <1>3, <4>1 DEF PagerInv
    <3>2. CASE ~(\E m \in files : MergeMark(m))
        BY <1>14, <3>2 DEF Publish, Reclaim, Merge, Tick
    <3> QED BY <3>1, <3>2
  <2>3. PICK req, range, items : req = q.req /\ range = q.range /\ items = q.items
      OBVIOUS
  <2>4. req.kind \in RowKinds /\ Expected(req, r)' /\ r \in pager.stored /\ r.id \notin pager.seen /\ Paging
    <3>1. Expected(q.req, r)' <=> Expected(req, r)'
        BY <2>1, <2>3
    <3> QED BY <1>3, <2>1, <2>2, <2>3, <3>1 DEF Paging
  <2>5. /\ Expected(req, r)
        /\ \/ \E m \in files : MergeMark(m)
           \/ \A x \in StoredRows(files) :
                 x.signal = SignalOf(req.kind) /\ Keep(req, x) /\ x.timestamp > r.timestamp =>
                    x \in StoredRows(files') /\ Holders(x) \subseteq Holders(x)'
      BY <1>1, <1>14, <2>4, Meanwhile
  <2>6. Ahead(r)
      BY <1>1, <2>3, <2>4, <2>5 DEF PagingInv
  <2>7. q.pc # "end"
      BY <2>6 DEF Ahead
  <2>8. ~(\E m \in files : MergeMark(m))
    <3>1. ASSUME NEW m \in files, MergeMark(m) PROVE FALSE
      <4>1. pager' = [pager EXCEPT !.merged = TRUE]
          BY <1>3, <2>1, <2>7, <3>1 DEF MergeMark
      <4> QED BY <1>1, <1>3, <4>1 DEF PagerInv
    <3> QED BY <3>1
  <2>9. ASSUME NEW CONSTANT end
        PROVE  /\ Cardinality(Newer(req, r, end)) \in Nat /\ Cardinality(Newer(req, r, end)') \in Nat
               /\ Cardinality(Newer(req, r, end)) <= Cardinality(Newer(req, r, end)')
      BY <1>1, <2>4, <2>5, <2>8, NewerGrows
  <2> DEFINE e == PageEnd(range)
  <2>10. Newer(q.req, r, PageEnd(q.range)) = Newer(req, r, e)
      BY <2>3
  <2>11. Newer(q.req, r, PageEnd(q.range))' = Newer(req, r, e)'
      BY <2>1, <2>3 DEF PageEnd
  <2> HIDE DEF e
  <2>12. req.offset \in Nat /\ req.limit \in Nat
      BY <1>2, <2>3, <2>4
  <2>13. CASE q.pc = "policy"
    <3>1. PICK end, later : end = OpenEnd(q.req) /\ later = OpenEnd(q.req)'
        OBVIOUS
    <3>2. Cardinality(Newer(req, r, end)) >= req.offset
        BY <2>3, <2>6, <2>13, <3>1 DEF Ahead
    <3>3. Cardinality(Newer(req, r, end)') >= req.offset /\ Cardinality(Newer(req, r, end)') \in Nat
        BY <2>9, <2>12, <3>2
    <3>4. later = end \/ (end \in Int /\ later \in Int /\ end <= later /\ end # Unset)
      <4>1. now \in Int /\ now' \in {now, now + 1}
          BY <1>1, <1>14 DEF FilesInv, Publish, Reclaim, Merge, MergeMark, Tick
      <4> QED BY <2>1, <3>1, <4>1, QueryAssumption DEF OpenEnd, OpenEnded, Bounded
    <3>5. NewerIs(req, r, end)' /\ NewerIs(req, r, later)'
        BY <1>1, <2>4, NewerNext
    <3>6. \A x \in StoredRows(files') : x.timestamp \in Int
        BY <1>1, StoredTimes
    <3>7. \A x \in StoredRows(files') : end = Unset \/ x.timestamp <= end => later = Unset \/ x.timestamp <= later
        BY <3>4, <3>6
    <3>8. Newer(req, r, end)' \subseteq Newer(req, r, later)'
        BY <3>5, <3>7 DEF NewerIs
    <3>9. Cardinality(Newer(req, r, later)') >= req.offset
        BY <2>12, <3>3, <3>5, <3>8, FS_Subset DEF NewerIs
    <3>10. Newer(q.req, r, OpenEnd(q.req))' = Newer(req, r, later)'
        BY <2>1, <2>3, <3>1
    <3> QED BY <2>1, <2>3, <2>13, <3>9, <3>10 DEF Ahead
  <2>14. CASE q.pc \in {"count", "page"}
    <3>1. Cardinality(Newer(req, r, e)) >= req.offset
        BY <2>3, <2>6, <2>10, <2>14 DEF Ahead
    <3>2. Cardinality(Newer(req, r, e)') >= req.offset
        BY <2>9, <2>12, <3>1
    <3> QED BY <2>1, <2>3, <2>11, <2>14, <3>2 DEF Ahead
  <2>15. CASE q.pc = "answered"
    <3>1. Cardinality(q.items) = req.limit /\ Cardinality(Newer(req, r, e)) >= req.offset + req.limit
        BY <2>3, <2>6, <2>10, <2>15 DEF Ahead
    <3>2. Cardinality(Newer(req, r, e)') >= req.offset + req.limit
        BY <2>9, <2>12, <3>1
    <3> QED BY <2>1, <2>3, <2>11, <2>15, <3>1, <3>2 DEF Ahead
  <2> QED BY <2>4, <2>7, <2>13, <2>14, <2>15 DEF Paging
<1>15. CASE UNCHANGED vars
  <2>1. UNCHANGED <<files, now, pager, q>>
      BY <1>15 DEF vars
  <2>2. Paging /\ Expected(q.req, r) /\ (Ahead(r)' <=> Ahead(r))
      BY <2>1 DEF Paging, Expected, Cutoff, Ahead, Newer, OfSignal, PageEnd, OpenEnd, OpenEnded, Bounded
  <2> QED BY <1>1, <2>1, <2>2 DEF PagingInv
<1> QED BY <1>5, <1>7, <1>8, <1>9, <1>10, <1>11, <1>12, <1>13, <1>14, <1>15, StepsAre

\* For clients that begin with the first page the invariant of paging holds.
LEMMA PageInvariant ==
    ASSUME \A w \in Requests : w.offset = 0
    PROVE  Spec => []PageIInv
<1>1. Init => PageIInv
  <2>1. Init => PagerInv
      BY DEF Init, NoPages, PagerInv
  <2>2. Init => PagingInv
      BY DEF Init, Idle, PagingInv, Paging
  <2> QED BY <2>1, <2>2, QueryInit DEF PageIInv
<1>2. PageIInv /\ [Next]_vars => PageIInv'
  <2> SUFFICES ASSUME PageIInv, [Next]_vars PROVE PageIInv'
      OBVIOUS
  <2>1. QueryIInv'
      BY QueryNext DEF PageIInv
  <2>2. PagerInv'
      BY <2>1, PagerStep DEF PageIInv, QueryIInv
  <2>3. PagingInv'
      BY <2>1, PagingStep
  <2> QED BY <2>1, <2>2, <2>3 DEF PageIInv
<1> QED BY <1>1, <1>2, PTL DEF Spec

\* A client that pages until a page comes back short, beginning with the first,
\* has been shown every row it could expect, for any number of rows, files and
\* pages and whatever was published, reclaimed or merged meanwhile.
THEOREM PagingMissesNothingHolds ==
    ASSUME \A w \in Requests : w.offset = 0
    PROVE  Spec => []PagingMissesNothing
<1>1. ASSUME PageIInv PROVE PagingMissesNothing
  <2> SUFFICES ASSUME q.pc = "end", q.answer = "ok", ~pager.merged, q.req.kind \in RowKinds, q.req.limit > 0,
                      NEW r \in pager.stored \cap StoredRows(files), r.signal = SignalOf(q.req.kind),
                      MatchingRows(q.req, q.range, {r}) # {},
                      r.timestamp \div Micro > Cutoff(r.workspace_id) \div Micro,
                      \A u \in MatchingRows(q.req, q.range, OfSignal(q.req.kind)) :
                         u.at = r.timestamp => u.id = r.id
               PROVE  r.id \in pager.seen
      BY DEF PagingMissesNothing, RowKinds
  <2>1. FilesInv /\ PagingInv /\ Clamped /\ q.req.kind \in Listings
      BY <1>1 DEF PageIInv, QueryIInv, Clamped, Listings, RowKinds
  <2>2. r.timestamp \in Int
      BY <2>1, StoredAreRows
  <2>3. Keep(q.req, r) /\ In(r.timestamp, q.range)
    <3>1. PICK u : u \in MatchingRows(q.req, q.range, {r})
        OBVIOUS
    <3> QED BY <3>1, MatchingAre
  <2>4. ASSUME NEW x \in StoredRows(files), x.signal = r.signal, Keep(q.req, x), x.timestamp = r.timestamp
        PROVE  x.id = r.id
    <3> DEFINE u == [id |-> x.id, at |-> x.timestamp, copy |-> 1]
    <3>1. Holders(x) # {} /\ IsFiniteSet(Holders(x))
        BY <2>1, FS_Subset DEF Holders, StoredRows, FilesInv
    <3>2. 1 \in 1..Cardinality(Holders(x))
        BY <3>1, FS_CardinalityType, FS_EmptySet
    <3>3. u \in MatchingRows(q.req, q.range, OfSignal(q.req.kind))
        BY <2>1, <2>3, <2>4, <3>2, UnitsAre
    <3>4. u.at = x.timestamp /\ u.id = x.id
        OBVIOUS
    <3> HIDE DEF u
    <3> QED BY <2>4, <3>3, <3>4
  <2>5. /\ Bounded(q.req) /\ q.req.start # Unset => q.req.start <= r.timestamp
        /\ q.req.end # Unset => r.timestamp <= q.req.end
    <3>1. q.req.start \in Optional(Int)
        BY <1>1 DEF PageIInv, QueryIInv, RequestInv, Request
    <3>2. CASE Bounded(q.req)
      <4>1. /\ q.range \in [start : Int, end : Int] /\ (q.req.start # Unset => q.range.start >= q.req.start)
            /\ q.req.end # Unset => q.range.end = q.req.end
          BY <1>1, <2>1, <3>2 DEF PageIInv, QueryIInv, RangeInv
      <4>2. q.range.start <= r.timestamp /\ r.timestamp <= q.range.end /\ q.range.start \in Int
          BY <2>3, <4>1, QueryAssumption DEF In
      <4> QED BY <2>2, <3>1, <4>1, <4>2 DEF Optional
    <3>3. CASE ~Bounded(q.req)
        BY <1>1, <2>1, <3>3 DEF PageIInv, QueryIInv, RangeInv
    <3> QED BY <3>2, <3>3
  <2>6. Expected(q.req, r)
      BY <2>3, <2>4, <2>5 DEF Expected
  <2>7. Paging /\ ~Ahead(r)
      BY DEF Paging, Ahead, RowKinds
  <2> QED BY <2>1, <2>6, <2>7 DEF PagingInv
<1> QED BY <1>1, PageInvariant, PTL


-----------------------------------------------------------------------------
(* Dashboards: what the aggregations of a set of rows add up to.           *)

\* The rows a point stands for.
Behind(rs, dims, b, g) == {r \in rs : Bucket(r.timestamp) = b /\ \A d \in dims : r[d] = g[d]}
Groups(r, dims) == [d \in dims |-> r[d]]
Grouped(rs, dims) == {r \in rs : \A d \in dims : r[d] # ""}
PointOf(metric, dims, rs, r) ==
    [bucket |-> Bucket(r.timestamp), groups |-> Groups(r, dims),
     value |-> Aggregate(metric, Behind(rs, dims, Bucket(r.timestamp), Groups(r, dims)))]

\* There is one point for the day and the groups of each grouped row, and it
\* aggregates just the rows of that day and those groups.
LEMMA PointsAre ==
    ASSUME NEW metric, NEW dims, NEW rs
    PROVE  Points(metric, dims, rs) = {PointOf(metric, dims, rs, r) : r \in Grouped(rs, dims)}
<1> DEFINE Key(r) == <<Bucket(r.timestamp), [d \in dims |-> r[d]]>>
           At(k) == [bucket |-> k[1], groups |-> k[2],
                     value |-> Aggregate(metric, {r \in Grouped(rs, dims) : Key(r) = k})]
<1>1. Points(metric, dims, rs) = {At(k) : k \in {Key(r) : r \in Grouped(rs, dims)}}
    BY DEF Points, Grouped
<1>2. ASSUME NEW r \in Grouped(rs, dims)
      PROVE  At(Key(r)) = PointOf(metric, dims, rs, r)
  <2>1. Key(r)[1] = Bucket(r.timestamp) /\ Key(r)[2] = Groups(r, dims)
      BY DEF Groups
  <2>2. {x \in Grouped(rs, dims) : Key(x) = Key(r)} = Behind(rs, dims, Bucket(r.timestamp), Groups(r, dims))
    <3>1. ASSUME NEW x \in rs
          PROVE  x \in Grouped(rs, dims) /\ Key(x) = Key(r)
                   <=> Bucket(x.timestamp) = Bucket(r.timestamp) /\ \A d \in dims : x[d] = Groups(r, dims)[d]
      <4>1. Key(x) = Key(r) <=> Bucket(x.timestamp) = Bucket(r.timestamp) /\ Groups(x, dims) = Groups(r, dims)
          BY DEF Groups
      <4>2. Groups(x, dims) = Groups(r, dims) <=> \A d \in dims : x[d] = r[d]
          BY DEF Groups
      <4>3. \A d \in dims : Groups(r, dims)[d] = r[d] /\ r[d] # ""
          BY DEF Groups, Grouped
      <4> QED BY <4>1, <4>2, <4>3 DEF Grouped
    <3> QED BY <3>1 DEF Behind, Grouped
  <2> HIDE DEF Key
  <2> QED BY <2>1, <2>2 DEF PointOf
<1> HIDE DEF Key, At
<1>3. {At(k) : k \in {Key(r) : r \in Grouped(rs, dims)}} = {At(Key(r)) : r \in Grouped(rs, dims)}
    OBVIOUS
<1> QED BY <1>1, <1>2, <1>3

\* The fields of a point.
LEMMA PointFields ==
    ASSUME NEW metric, NEW dims, NEW rs, NEW r
    PROVE  LET p == PointOf(metric, dims, rs, r)
           IN  /\ p.bucket = Bucket(r.timestamp) /\ p.groups = Groups(r, dims)
               /\ p.value = Aggregate(metric, Behind(rs, dims, p.bucket, p.groups))
BY DEF PointOf

\* The images of a finite set under a function are finitely many (restated for
\* a set given by what it holds).
LEMMA FiniteHeld ==
    ASSUME NEW S, IsFiniteSet(S), NEW f, NEW T, \A y : y \in T <=> \E x \in S : y = f[x]
    PROVE  IsFiniteSet(T)
<1>1. T = {f[x] : x \in S}
    OBVIOUS
<1> QED BY <1>1, FiniteImage

\* The rows of a group, those of a day, and the first day.
InGroup(rs, dims, g) == {r \in rs : \A d \in dims : r[d] = g[d]}
OnDay(day, rs) == {r \in rs : Bucket(r.timestamp) = day}
FirstDayOf(rs) == Min({Bucket(r.timestamp) : r \in rs})

LEMMA BehindIs ==
    ASSUME NEW rs, NEW dims, NEW b, NEW g
    PROVE  Behind(rs, dims, b, g) = OnDay(b, InGroup(rs, dims, g))
BY DEF Behind, OnDay, InGroup

\* The first day of some rows is one of theirs.
LEMMA FirstDayIs ==
    ASSUME NEW rs, IsFiniteSet(rs), \A r \in rs : r.timestamp \in Int, rs # {}
    PROVE  /\ FirstDayOf(rs) \in Int
           /\ \E r \in rs : Bucket(r.timestamp) = FirstDayOf(rs)
           /\ \A r \in rs : Bucket(r.timestamp) \in Int /\ FirstDayOf(rs) <= Bucket(r.timestamp)
<1> DEFINE days == {Bucket(r.timestamp) : r \in rs}
           h == [r \in rs |-> Bucket(r.timestamp)]
<1>1. \A r \in rs : Bucket(r.timestamp) \in Int
    BY DayLenAssumption DEF Bucket
<1>2. days # {} /\ days \in SUBSET Int
    BY <1>1
<1>3. \A y : y \in days <=> \E x \in rs : y = h[x]
    OBVIOUS
<1>4. IsFiniteSet(days)
  <2> HIDE DEF days, h
  <2> QED BY <1>3, FiniteHeld
<1>5. FirstDayOf(rs) = Min(days)
    BY DEF FirstDayOf
<1>6. Min(days) \in days /\ \A d \in days : Min(days) <= d
  <2> HIDE DEF days
  <2> QED BY <1>2, <1>4, FiniteMin
<1> QED BY <1>1, <1>2, <1>5, <1>6

\* The value `find` takes for a group is that of the rows of the group on its
\* first day, and 0 when there is none.
LEMMA FindsFirstDay ==
    ASSUME NEW metric, NEW dims, NEW rs, IsFiniteSet(rs), \A r \in rs : r.timestamp \in Int,
           NEW x, \A d \in dims : x[d] # ""
    PROVE  LET G == InGroup(rs, dims, Groups(x, dims))
           IN  FindGroupValue(Points(metric, dims, rs), Groups(x, dims))
                 = IF G = {} THEN 0 ELSE Aggregate(metric, OnDay(FirstDayOf(G), G))
<1> DEFINE pts == Points(metric, dims, rs)
           g == Groups(x, dims)
           G == InGroup(rs, dims, g)
           same == {p \in pts : p.groups = g}
<1>1. ASSUME NEW y
      PROVE  y \in G <=> y \in Grouped(rs, dims) /\ Groups(y, dims) = g
  <2>1. \A d \in dims : g[d] = x[d]
      BY DEF Groups
  <2>2. Groups(y, dims) = g <=> \A d \in dims : y[d] = x[d]
      BY DEF Groups
  <2> QED BY <2>1, <2>2 DEF InGroup, Grouped
<1>2. ASSUME NEW p
      PROVE  p \in same <=> \E y \in G : p = PointOf(metric, dims, rs, y)
  <2>1. p \in pts <=> \E y \in Grouped(rs, dims) : p = PointOf(metric, dims, rs, y)
      BY PointsAre
  <2>2. \A y : PointOf(metric, dims, rs, y).groups = Groups(y, dims)
      BY DEF PointOf
  <2> HIDE DEF pts, G, g
  <2> QED BY <1>1, <2>1, <2>2
<1>3. FindGroupValue(pts, g) = IF same = {} THEN 0 ELSE (CHOOSE p \in same : \A y \in same : p.bucket <= y.bucket).value
    BY DEF FindGroupValue
<1>4. IsFiniteSet(G) /\ \A y \in G : y.timestamp \in Int
    BY FS_Subset DEF InGroup
<1>5. \A b : Behind(rs, dims, b, g) = OnDay(b, G)
    BY BehindIs
<1> HIDE DEF pts, g, G, same
<1>6. CASE G = {}
    BY <1>2, <1>3, <1>6 DEF pts, g, G
<1>7. CASE G # {}
  <2> DEFINE F == FirstDayOf(G)
             found == CHOOSE p \in same : \A y \in same : p.bucket <= y.bucket
  <2>1. /\ F \in Int /\ \E r \in G : Bucket(r.timestamp) = F
        /\ \A r \in G : Bucket(r.timestamp) \in Int /\ F <= Bucket(r.timestamp)
      BY <1>4, <1>7, FirstDayIs
  <2> HIDE DEF F
  <2>2. ASSUME NEW y \in G
        PROVE  LET p == PointOf(metric, dims, rs, y)
               IN  p \in same /\ p.bucket = Bucket(y.timestamp) /\ p.value = Aggregate(metric, OnDay(p.bucket, G))
    <3>1. Groups(y, dims) = g
        BY <1>1
    <3>2. PICK p : p = PointOf(metric, dims, rs, y)
        OBVIOUS
    <3>3. /\ p.bucket = Bucket(y.timestamp) /\ p.groups = g
          /\ p.value = Aggregate(metric, Behind(rs, dims, p.bucket, g))
        BY <3>1, <3>2 DEF PointOf
    <3>4. p \in same
        BY <1>2, <3>2
    <3> QED BY <1>5, <3>2, <3>3, <3>4
  <2>3. PICK r \in G : Bucket(r.timestamp) = F
      BY <2>1
  <2>4. PICK first : first = PointOf(metric, dims, rs, r)
      OBVIOUS
  <2>5. ASSUME NEW p \in same PROVE p.bucket \in Int /\ F <= p.bucket
    <3>1. PICK y \in G : p = PointOf(metric, dims, rs, y)
        BY <1>2
    <3>2. p.bucket = Bucket(y.timestamp)
        BY <2>2, <3>1
    <3> QED BY <2>1, <3>2
  <2>6. first \in same /\ first.bucket = F
      BY <2>2, <2>3, <2>4
  <2>7. \A p \in same : first.bucket <= p.bucket
      BY <2>5, <2>6
  <2>8. found \in same /\ \A p \in same : found.bucket <= p.bucket
      BY <2>6, <2>7
  <2> HIDE DEF found
  <2>9. found.bucket = F
    <3>1. found.bucket \in Int /\ F <= found.bucket
        BY <2>5, <2>8
    <3>2. found.bucket <= F
        BY <2>6, <2>8
    <3>3. PICK a, b : a = found.bucket /\ b = F
        OBVIOUS
    <3>4. a \in Int /\ b \in Int /\ a <= b /\ b <= a
        BY <2>1, <3>1, <3>2, <3>3
    <3>5. a = b
        BY ONLY <3>4, SMT
    <3> QED BY <3>3, <3>5
  <2>10. found.value = Aggregate(metric, OnDay(F, G))
      BY <1>2, <2>2, <2>8, <2>9
  <2> QED BY <1>3, <1>7, <2>6, <2>10 DEF found, F, pts, g, G
<1> QED BY <1>6, <1>7

\* Each entry of a joined endpoint counts the rows of its day and group that the
\* counting query read, and has beside it what the other queries read of the
\* first day of the group.  When they read the same, an entry of the first day
\* has no more errors than rows.
LEMMA JoinedAddUp ==
    ASSUME NEW kind \in Joins, NEW read,
           \A m \in {"span_count"} \cup Joined(kind) : IsFiniteSet(read[m]) /\ \A r \in read[m] : r.timestamp \in Int,
           NEW e \in JoinedEntries(kind, read)
    PROVE  LET G(m) == InGroup(read[m], GroupBy(kind), e.groups)
           IN  /\ e.count = Cardinality(OnDay(e.bucket, G("span_count")))
               /\ \A m \in Joined(kind) :
                     e.other[m] = IF G(m) = {} THEN 0 ELSE Aggregate(m, OnDay(FirstDayOf(G(m)), G(m)))
               /\ /\ "error_count" \in Joined(kind) /\ read["error_count"] = read["span_count"]
                  /\ e.bucket = FirstDayOf(G("span_count"))
                  => e.other["error_count"] <= e.count
<1> DEFINE dims == GroupBy(kind)
           rs == read["span_count"]
           G(m) == InGroup(read[m], dims, e.groups)
<1>1. PICK p \in Points("span_count", dims, rs) :
         e = [bucket |-> p.bucket, groups |-> p.groups, count |-> p.value,
              other |-> [m \in Joined(kind) |-> FindGroupValue(Points(m, dims, read[m]), p.groups)]]
    BY DEF JoinedEntries
<1>2. PICK r \in Grouped(rs, dims) : p = PointOf("span_count", dims, rs, r)
    BY PointsAre
<1>3. /\ p.bucket = Bucket(r.timestamp) /\ p.groups = Groups(r, dims)
      /\ p.value = Aggregate("span_count", Behind(rs, dims, p.bucket, p.groups))
    BY <1>2, PointFields
<1>4. Aggregate("span_count", Behind(rs, dims, p.bucket, p.groups)) = Cardinality(Behind(rs, dims, p.bucket, p.groups))
    BY DEF Aggregate
<1>5. /\ e.bucket = p.bucket /\ e.groups = p.groups /\ e.count = p.value
      /\ \A m \in Joined(kind) : e.other[m] = FindGroupValue(Points(m, dims, read[m]), p.groups)
    BY <1>1
<1>6. r \in rs /\ \A d \in dims : r[d] # ""
    BY DEF Grouped
<1>7. Behind(rs, dims, p.bucket, p.groups) = OnDay(e.bucket, G("span_count"))
    BY <1>5, BehindIs
<1>8. e.count = Cardinality(OnDay(e.bucket, G("span_count")))
    BY <1>3, <1>4, <1>5, <1>7
<1> HIDE DEF dims
<1>9. ASSUME NEW m \in Joined(kind)
      PROVE  e.other[m] = IF G(m) = {} THEN 0 ELSE Aggregate(m, OnDay(FirstDayOf(G(m)), G(m)))
  <2>1. PICK of : of = read[m]
      OBVIOUS
  <2>2. IsFiniteSet(of) /\ \A x \in of : x.timestamp \in Int
      BY <2>1
  <2>3. LET H == InGroup(of, dims, Groups(r, dims))
        IN  FindGroupValue(Points(m, dims, of), Groups(r, dims))
              = IF H = {} THEN 0 ELSE Aggregate(m, OnDay(FirstDayOf(H), H))
      BY <1>6, <2>2, FindsFirstDay
  <2>4. e.groups = Groups(r, dims) /\ e.other[m] = FindGroupValue(Points(m, dims, of), Groups(r, dims))
      BY <1>3, <1>5, <2>1
  <2>5. G(m) = InGroup(of, dims, Groups(r, dims))
      BY <2>1, <2>4
  <2> QED BY <2>3, <2>4, <2>5
<1>10. ASSUME "error_count" \in Joined(kind), read["error_count"] = rs, e.bucket = FirstDayOf(G("span_count"))
       PROVE  e.other["error_count"] <= e.count
  <2> DEFINE H == G("span_count")
             day == OnDay(e.bucket, H)
             wrong == {x \in day : x.status_code = "ERROR"}
  <2>1. r \in H
    <3>1. \A d \in dims : e.groups[d] = r[d]
        BY <1>3, <1>5 DEF Groups
    <3> QED BY <1>6, <3>1 DEF InGroup
  <2>2. G("error_count") = H
      BY <1>10
  <2>3. e.other["error_count"] = Aggregate("error_count", day)
      BY <1>9, <1>10, <2>1, <2>2
  <2>4. Aggregate("error_count", day) = Cardinality(wrong)
      BY DEF Aggregate
  <2>5. IsFiniteSet(day)
      BY FS_Subset DEF OnDay, InGroup
  <2>6. wrong \subseteq day
      OBVIOUS
  <2> HIDE DEF wrong, day, H
  <2>7. Cardinality(wrong) <= Cardinality(day)
      BY <2>5, <2>6, FS_Subset
  <2> QED BY <1>8, <2>3, <2>4, <2>7 DEF day, H
<1> QED BY <1>8, <1>9, <1>10 DEF dims

\* The errors by service and day add up to their total: the errors of rows
\* that name a service.
LEMMA ErrorsAddUp ==
    ASSUME NEW rs, IsFiniteSet(rs)
    PROVE  ErrorBreakdown(rs).total = Cardinality({r \in rs : r.status_code = "ERROR" /\ r.service_name # ""})
<1> DEFINE E == {r \in rs : r.status_code = "ERROR"}
           dims == {"service_name"}
           pts == Points("error_count", dims, E)
           f == [p \in pts |-> p.value]
           part == [p \in pts |-> Behind(E, dims, p.bucket, p.groups)]
<1>1. ErrorBreakdown(rs).total = SumFunctionOnSet(f, pts)
    BY DEF ErrorBreakdown, SumOf
<1>2. IsFiniteSet(E) /\ IsFiniteSet(Grouped(E, dims))
    BY FS_Subset DEF Grouped
<1>3. pts = {PointOf("error_count", dims, E, r) : r \in Grouped(E, dims)}
    BY PointsAre
<1>4. IsFiniteSet(pts)
  <2> DEFINE h == [r \in Grouped(E, dims) |-> PointOf("error_count", dims, E, r)]
  <2>1. \A y : y \in pts <=> \E x \in Grouped(E, dims) : y = h[x]
      BY <1>3
  <2> HIDE DEF h, pts, E, dims
  <2> QED BY <1>2, <2>1, FiniteHeld
<1>5. ASSUME NEW p \in pts
      PROVE  /\ IsFiniteSet(part[p]) /\ f[p] = Cardinality(part[p])
  <2>1. p.value = Aggregate("error_count", Behind(E, dims, p.bucket, p.groups))
    <3>1. PICK a \in Grouped(E, dims) : p = PointOf("error_count", dims, E, a)
        BY <1>3
    <3> HIDE DEF E, dims, pts
    <3> QED BY <3>1, PointFields
  <2>2. Behind(E, dims, p.bucket, p.groups) \subseteq E
      BY DEF Behind
  <2>3. {r \in Behind(E, dims, p.bucket, p.groups) : r.status_code = "ERROR"} = Behind(E, dims, p.bucket, p.groups)
      BY <2>2
  <2>4. Aggregate("error_count", Behind(E, dims, p.bucket, p.groups))
          = Cardinality({r \in Behind(E, dims, p.bucket, p.groups) : r.status_code = "ERROR"})
      BY DEF Aggregate
  <2>5. IsFiniteSet(Behind(E, dims, p.bucket, p.groups))
      BY <1>2, <2>2, FS_Subset
  <2> HIDE DEF E, dims, pts
  <2> QED BY <2>1, <2>3, <2>4, <2>5
<1>6. ASSUME NEW p \in pts, NEW s \in pts, NEW x \in part[p] \cap part[s]
      PROVE  p = s
  <2>1. PICK a \in Grouped(E, dims) : p = PointOf("error_count", dims, E, a)
      BY <1>3
  <2>2. PICK b \in Grouped(E, dims) : s = PointOf("error_count", dims, E, b)
      BY <1>3
  <2>3. Bucket(a.timestamp) = Bucket(b.timestamp) /\ \A d \in dims : a[d] = b[d]
    <3>1. x \in Behind(E, dims, p.bucket, p.groups) /\ x \in Behind(E, dims, s.bucket, s.groups)
        OBVIOUS
    <3>2. /\ p.bucket = Bucket(a.timestamp) /\ p.groups = Groups(a, dims)
          /\ s.bucket = Bucket(b.timestamp) /\ s.groups = Groups(b, dims)
        BY <2>1, <2>2, PointFields
    <3> HIDE DEF E, dims, pts, part
    <3> QED BY <3>1, <3>2 DEF Behind, Groups
  <2>4. Groups(a, dims) = Groups(b, dims)
      BY <2>3 DEF Groups
  <2> QED BY <2>1, <2>2, <2>3, <2>4 DEF PointOf
<1>7. UNION {part[p] : p \in pts} = {r \in rs : r.status_code = "ERROR" /\ r.service_name # ""}
  <2>1. ASSUME NEW p \in pts, NEW x \in part[p]
        PROVE  x \in rs /\ x.status_code = "ERROR" /\ x.service_name # ""
    <3>1. PICK a \in Grouped(E, dims) : p = PointOf("error_count", dims, E, a)
        BY <1>3
    <3>2. x \in Behind(E, dims, p.bucket, p.groups) /\ p.groups = Groups(a, dims)
        BY <3>1, PointFields
    <3>3. x \in E /\ \A d \in dims : x[d] = a[d] /\ a[d] # ""
        BY <3>2 DEF Behind, Groups, Grouped
    <3> QED BY <3>3
  <2>2. ASSUME NEW x \in rs, x.status_code = "ERROR", x.service_name # ""
        PROVE  \E p \in pts : x \in part[p]
    <3> DEFINE p == PointOf("error_count", dims, E, x)
    <3>1. x \in Grouped(E, dims)
        BY <2>2 DEF Grouped
    <3>2. p \in pts /\ p.bucket = Bucket(x.timestamp) /\ p.groups = Groups(x, dims)
      <4>1. p \in pts
          BY <1>3, <3>1
      <4> HIDE DEF E, dims, pts
      <4> QED BY <4>1, PointFields
    <3>3. x \in Behind(E, dims, p.bucket, p.groups)
        BY <2>2, <3>2 DEF Behind, Groups
    <3> HIDE DEF p, pts
    <3> QED BY <3>2, <3>3
  <2> HIDE DEF pts, part
  <2> QED BY <2>1, <2>2
<1>8. \A p, s \in pts : p # s => part[p] \cap part[s] = {}
    BY <1>6
<1> HIDE DEF pts, part, f
<1>9. Cardinality(UNION {part[p] : p \in pts}) = SumFunctionOnSet(f, pts)
    BY <1>4, <1>5, <1>8, SumOfParts
<1> QED BY <1>1, <1>7, <1>9

\* No trace is counted twice in a day, and none is left out.
LEMMA DailyAddUp ==
    ASSUME NEW rs, IsFiniteSet(rs), \A r \in rs : r.timestamp \in Int
    PROVE  /\ SumOf(LAMBDA d : d.value, DailyTraceCounts(rs)) >= Cardinality({r.trace_id : r \in rs})
           /\ \A d \in DailyTraceCounts(rs) : d.value <= Cardinality({r.trace_id : r \in rs})
<1> DEFINE Day(b) == {r \in rs : Bucket(r.timestamp) = b}
           Ids(b) == {r.trace_id : r \in Day(b)}
           days == {Bucket(r.timestamp) : r \in rs}
           pts == DailyTraceCounts(rs)
           all == {r.trace_id : r \in rs}
           f == [p \in pts |-> p.value]
           part == [p \in pts |-> Ids(p.day)]
<1>1. SumOf(LAMBDA d : d.value, DailyTraceCounts(rs)) = SumFunctionOnSet(f, pts)
    BY DEF SumOf
<1>2. pts = {[day |-> Bucket(Min({r.timestamp : r \in Day(b)})), value |-> Aggregate("trace_count", Day(b))] : b \in days}
    BY DEF DailyTraceCounts
<1>3. ASSUME NEW b \in days PROVE Bucket(Min({r.timestamp : r \in Day(b)})) = b
  <2> DEFINE ts == {r.timestamp : r \in Day(b)}
             h == [r \in Day(b) |-> r.timestamp]
  <2>1. IsFiniteSet(Day(b))
      BY FS_Subset
  <2>2. ts # {} /\ ts \in SUBSET Int
      OBVIOUS
  <2>3. \A y : y \in ts <=> \E x \in Day(b) : y = h[x]
      OBVIOUS
  <2>4. \A t \in ts : Bucket(t) = b
      OBVIOUS
  <2> HIDE DEF ts, h, Day
  <2>5. IsFiniteSet(ts)
      BY <2>1, <2>3, FiniteHeld
  <2>6. Min(ts) \in ts
      BY <2>2, <2>5, FiniteMin
  <2> QED BY <2>4, <2>6 DEF ts
<1>4. ASSUME NEW b \in days PROVE Aggregate("trace_count", Day(b)) = Cardinality(Ids(b))
    BY DEF Aggregate
<1>5. IsFiniteSet(all)
  <2> DEFINE h == [r \in rs |-> r.trace_id]
  <2>1. \A y : y \in all <=> \E x \in rs : y = h[x]
      OBVIOUS
  <2> HIDE DEF h, all
  <2> QED BY <2>1, FiniteHeld
<1>6. \A b : Ids(b) \subseteq all
    OBVIOUS
<1>7. IsFiniteSet(days)
  <2> DEFINE h == [r \in rs |-> Bucket(r.timestamp)]
  <2>1. \A y : y \in days <=> \E x \in rs : y = h[x]
      OBVIOUS
  <2> HIDE DEF h, days
  <2> QED BY <2>1, FiniteHeld
<1>8. UNION {Ids(b) : b \in days} = all
    OBVIOUS
<1> HIDE DEF Day, Ids, days, all, pts
<1>9. /\ \A p \in pts : p.day \in days /\ p.value = Cardinality(Ids(p.day))
      /\ \A b \in days : \E p \in pts : p.day = b
  <2> DEFINE At(b) == [day |-> Bucket(Min({r.timestamp : r \in Day(b)})), value |-> Aggregate("trace_count", Day(b))]
  <2>1. \A b \in days : At(b).day = b /\ At(b).value = Cardinality(Ids(b))
      BY <1>3, <1>4
  <2>2. pts = {At(b) : b \in days}
      BY <1>2
  <2> HIDE DEF At
  <2> QED BY <2>1, <2>2
<1>10. IsFiniteSet(pts)
  <2> DEFINE h == [b \in days |-> [day |-> b, value |-> Cardinality(Ids(b))]]
  <2>1. \A y : y \in pts <=> \E b \in days : y = h[b]
      BY <1>2, <1>3, <1>4
  <2> HIDE DEF h
  <2> QED BY <1>7, <2>1, FiniteHeld
<1>11. ASSUME NEW p \in pts
       PROVE  IsFiniteSet(part[p]) /\ f[p] = Cardinality(part[p]) /\ p.value <= Cardinality(all)
  <2>1. IsFiniteSet(Ids(p.day)) /\ Cardinality(Ids(p.day)) <= Cardinality(all)
      BY <1>5, <1>6, FS_Subset
  <2> QED BY <1>9, <2>1
<1>12. UNION {part[p] : p \in pts} = all
    BY <1>8, <1>9
<1> HIDE DEF part, f
<1>13. Cardinality(UNION {part[p] : p \in pts}) <= SumFunctionOnSet(f, pts)
    BY <1>10, <1>11, SumOfParts
<1>14. \A p \in pts : f[p] \in Int
    BY <1>11, FS_CardinalityType
<1>15. Cardinality(all) \in Int /\ SumFunctionOnSet(f, pts) \in Int
    BY <1>5, <1>10, <1>14, SumInt, FS_CardinalityType
<1>16. SumFunctionOnSet(f, pts) >= Cardinality(all)
    BY <1>12, <1>13, <1>15
<1>17. \A d \in pts : d.value <= Cardinality(all)
    BY <1>11
<1> QED BY <1>1, <1>16, <1>17 DEF pts, all

\* The stops by rail type are of different rows.
LEMMA RailsAddUp ==
    ASSUME NEW rs, IsFiniteSet(rs)
    PROVE  SumOf(LAMBDA t : t.count, ByRailType(rs)) <= Cardinality(rs)
<1> DEFINE spans == RailSpans(rs)
           Typed(t) == {r \in spans : r.rail_type = t}
           types == {r.rail_type : r \in spans} \ {""}
           Halted(t) == Cardinality(Stopped(Typed(t)))
           pts == ByRailType(rs)
           f == [p \in pts |-> p.count]
           part == [p \in pts |-> Typed(p.rail_type)]
<1>1. SumOf(LAMBDA t : t.count, ByRailType(rs)) = SumFunctionOnSet(f, pts)
    BY DEF SumOf
<1>2. pts = {[rail_type |-> t, count |-> Cardinality(Typed(t)), halted |-> Halted(t)] : t \in types}
    BY DEF ByRailType
<1>3. IsFiniteSet(types)
  <2> DEFINE h == [r \in spans |-> r.rail_type]
             named == {r.rail_type : r \in spans}
  <2>1. IsFiniteSet(spans)
      BY FS_Subset DEF RailSpans
  <2>2. \A y : y \in named <=> \E x \in spans : y = h[x]
      OBVIOUS
  <2> HIDE DEF h, named, spans
  <2>3. IsFiniteSet(named)
      BY <2>1, <2>2, FiniteHeld
  <2> QED BY <2>3, FS_Subset DEF named
<1>4. \A t : Typed(t) \subseteq rs
    BY DEF RailSpans
<1>5. \A t, u : t # u => Typed(t) \cap Typed(u) = {}
    OBVIOUS
<1> HIDE DEF spans, Typed, types, Halted, pts
<1>6. IsFiniteSet(pts)
  <2> DEFINE h == [t \in types |-> [rail_type |-> t, count |-> Cardinality(Typed(t)), halted |-> Halted(t)]]
  <2>1. \A y : y \in pts <=> \E t \in types : y = h[t]
      BY <1>2
  <2> HIDE DEF h
  <2> QED BY <1>3, <2>1, FiniteHeld
<1>7. ASSUME NEW p \in pts
      PROVE  /\ IsFiniteSet(part[p]) /\ f[p] = Cardinality(part[p]) /\ part[p] \subseteq rs
             /\ \A s \in pts : p # s => part[p] \cap part[s] = {}
  <2>1. IsFiniteSet(Typed(p.rail_type))
      BY <1>4, FS_Subset
  <2>2. p.count = Cardinality(Typed(p.rail_type))
      BY <1>2
  <2>3. \A s \in pts : p # s => p.rail_type # s.rail_type
      BY <1>2
  <2> QED BY <1>4, <1>5, <2>1, <2>2, <2>3
<1> HIDE DEF part, f
<1>8. /\ IsFiniteSet(UNION {part[p] : p \in pts})
      /\ Cardinality(UNION {part[p] : p \in pts}) = SumFunctionOnSet(f, pts)
    BY <1>6, <1>7, SumOfParts
<1>9. UNION {part[p] : p \in pts} \subseteq rs
    BY <1>7
<1>10. Cardinality(UNION {part[p] : p \in pts}) <= Cardinality(rs)
    BY <1>9, FS_Subset
<1> QED BY <1>1, <1>8, <1>10

\* A rail stops no more often than its type.
LEMMA RailsWithinType ==
    ASSUME NEW rs, IsFiniteSet(rs), NEW top \in TopHaltingRails(rs), NEW x \in top, x.rail_type # ""
    PROVE  \E t \in ByRailType(rs) : t.rail_type = x.rail_type /\ x.halts <= t.halted
<1> DEFINE Typed(t) == {r \in RailSpans(rs) : r.rail_type = t}
           Named(y) == {r \in RailSpans(rs) : r.rail_name = y.rail_name /\ r.rail_type = y.rail_type}
           t == [rail_type |-> x.rail_type, count |-> Cardinality(Typed(x.rail_type)),
                 halted |-> Cardinality(Stopped(Typed(x.rail_type)))]
<1>1. x \in ByRailName(rs)
    BY DEF TopHaltingRails
<1>2. PICK y \in RailSpans(rs) : x.rail_type = y.rail_type /\ x.halts = Cardinality(Stopped(Named(y)))
  <2>1. ByRailName(rs) = {[rail_name |-> y.rail_name, rail_type |-> y.rail_type, halts |-> Cardinality(Stopped(Named(y))),
                           total |-> Cardinality(Named(y))] : y \in {r \in RailSpans(rs) : r.rail_name # ""}}
      BY DEF ByRailName
  <2> HIDE DEF Named
  <2>2. PICK y \in RailSpans(rs) :
           x = [rail_name |-> y.rail_name, rail_type |-> y.rail_type, halts |-> Cardinality(Stopped(Named(y))),
                total |-> Cardinality(Named(y))]
      BY <1>1, <2>1
  <2>3. x.rail_type = y.rail_type /\ x.halts = Cardinality(Stopped(Named(y)))
      BY <2>2
  <2> QED BY <2>3
<1>3. t \in ByRailType(rs)
    BY <1>2 DEF ByRailType
<1>4. IsFiniteSet(Stopped(Typed(x.rail_type)))
    BY FS_Subset DEF Stopped, RailSpans
<1>5. Stopped(Named(y)) \subseteq Stopped(Typed(x.rail_type))
    BY <1>2 DEF Stopped
<1>6. t.rail_type = x.rail_type /\ t.halted = Cardinality(Stopped(Typed(x.rail_type)))
    OBVIOUS
<1> HIDE DEF Typed, Named, t
<1>7. Cardinality(Stopped(Named(y))) <= Cardinality(Stopped(Typed(x.rail_type)))
    BY <1>4, <1>5, FS_Subset
<1> QED BY <1>2, <1>3, <1>6, <1>7

\* Errors of root spans are errors.
LEMMA SummaryAddsUp ==
    ASSUME NEW rs, IsFiniteSet(rs)
    PROVE  MetricsSummary(rs).errors <= Cardinality({r \in rs : r.status_code = "ERROR"})
<1> DEFINE roots == {r \in rs : r.parent_span_id = ""}
           S == {r \in rs : r.status_code = "ERROR"}
           T == {r \in roots : r.status_code = "ERROR"}
<1>1. MetricsSummary(rs).errors = Cardinality(T)
    BY DEF MetricsSummary, Aggregate
<1>2. IsFiniteSet(S) /\ T \in SUBSET S
    BY FS_Subset
<1> HIDE DEF S, T
<1>3. Cardinality(T) <= Cardinality(S)
    BY <1>2, FS_Subset
<1> QED BY <1>1, <1>3 DEF S

\* What a dashboard aggregates are finitely many rows with a time.
LEMMA DashboardRowsAre ==
    ASSUME FilesInv
    PROVE  IsFiniteSet(DashboardRows) /\ \A r \in DashboardRows : r.timestamp \in Int
<1> DEFINE listed == QueryFiles(files, q.req.workspace_id, SignalOf(q.req.kind), q.range)
<1>1. DashboardRows \subseteq Copies(listed)
    BY DEF DashboardRows, Scanned
<1>2. listed \in SUBSET files
    BY DEF QueryFiles
<1> HIDE DEF listed
<1>3. IsFiniteSet(Copies(listed))
    BY <1>2, CopiesFinite
<1>4. \A x \in Copies(listed) : x.timestamp \in Int
    BY <1>2, CopyReads
<1>5. IsFiniteSet(DashboardRows)
    BY <1>1, <1>3, FS_Subset
<1> QED BY <1>1, <1>4, <1>5

\* What the queries of a dashboard read.
ReadOK == \A m \in DOMAIN q.read : IsFiniteSet(q.read[m]) /\ \A r \in q.read[m] : r.timestamp \in Int

\* One more query reads, or the answer is made of all of them.
LEMMA ReadStepAggregates ==
    ASSUME FilesInv, RequestInv, ReadOK, ReadStep
    PROVE  DashboardInv'
<1> DEFINE kind == q.req.kind
<1>1. q = [pc |-> q.pc, req |-> q.req, range |-> q.range, clamped |-> q.clamped, total |-> q.total,
           items |-> q.items, answer |-> q.answer, read |-> q.read, result |-> q.result]
    BY DEF RequestInv
<1>2. q'.req = q.req /\ (DailyOnly' <=> DailyOnly) /\ q.pc = "read"
    BY ReadStepEnds DEF DailyOnly
<1>3. ASSUME q'.read = q.read PROVE ReadOK'
    BY <1>3 DEF ReadOK
<1>4. ASSUME NEW k, NEW result, Answer(k, result)
      PROVE  kind = k /\ q'.result = result /\ q'.read = q.read /\ DOMAIN q.read = Reads(k) /\ ReadOK'
  <2>1. q' = [q EXCEPT !.pc = "end", !.answer = "ok", !.result = result] /\ kind = k /\ DOMAIN q.read = Reads(k)
      BY <1>4 DEF Answer
  <2> QED BY <1>1, <1>3, <2>1
<1>5. ASSUME ReadOK', q'.pc # "end" \/ q'.answer # "ok" \/ q'.req.kind \notin Dashboards PROVE DashboardInv'
    BY <1>5 DEF DashboardInv, ReadOK
<1> HIDE DEF kind
<1>6. CASE GetMetricsSummary
  <2>1. /\ kind = "summary" /\ q'.result = MetricsSummary(q.read["rows"]) /\ q'.read = q.read
        /\ DOMAIN q.read = Reads("summary") /\ ReadOK'
      BY <1>4, <1>6 DEF GetMetricsSummary
  <2> QED BY <1>2, <2>1 DEF DashboardInv, ReadOK, Joins, kind
<1>7. ASSUME NEW k \in Joins, Answer(k, JoinedEntries(k, q.read)) PROVE DashboardInv'
  <2>1. /\ kind = k /\ q'.result = JoinedEntries(k, q.read) /\ q'.read = q.read
        /\ DOMAIN q.read = Reads(k) /\ ReadOK'
      BY <1>4, <1>7
  <2> QED BY <1>2, <2>1 DEF DashboardInv, ReadOK, Joins, kind
<1>8. CASE GetTopEndpoints \/ GetLlmAnalytics \/ GetAgentAnalytics
    BY <1>7, <1>8 DEF GetTopEndpoints, GetLlmAnalytics, GetAgentAnalytics, Joins
<1>9. CASE GetErrorBreakdown
  <2> DEFINE asked == {r \in q.read["rows"] : q.req.service_name \in {Unset, r.service_name}}
  <2>1. /\ kind = "errors" /\ q'.result = ErrorBreakdown(asked) /\ q'.read = q.read
        /\ DOMAIN q.read = Reads("errors") /\ ReadOK'
      BY <1>4, <1>9 DEF GetErrorBreakdown
  <2>2. asked = {r \in q'.read["rows"] : q'.req.service_name \in {Unset, r.service_name}}
      BY <1>2, <2>1
  <2> HIDE DEF asked
  <2> QED BY <1>2, <2>1, <2>2 DEF DashboardInv, ReadOK, Joins, kind
<1>10. CASE GetGuardrailsAnalytics
  <2>1. PICK top \in TopHaltingRails(q.read["top_halting_rails"]) : Answer("guardrails", Guardrails(q.read, top))
      BY <1>10 DEF GetGuardrailsAnalytics
  <2>2. /\ kind = "guardrails" /\ q'.result = Guardrails(q.read, top) /\ q'.read = q.read
        /\ DOMAIN q.read = Reads("guardrails") /\ ReadOK'
      BY <1>4, <2>1
  <2> QED BY <1>2, <2>1, <2>2 DEF DashboardInv, ReadOK, Joins, kind
<1>11. CASE GetStorageUsage
  <2>1. PICK usage : q' = [q EXCEPT !.pc = "end", !.answer = "ok", !.result = usage]
      BY <1>11 DEF GetStorageUsage
  <2>2. kind = "storage" /\ q'.read = q.read
      BY <1>1, <1>11, <2>1 DEF GetStorageUsage, kind
  <2>3. q'.req.kind \notin Dashboards
      BY <1>2, <2>2 DEF Dashboards, Joins, kind
  <2> QED BY <1>3, <1>5, <2>2, <2>3
<1>12. CASE GetTrace \/ GetSpan \/ GetLog \/ Series
  <2>1. kind \in {"get_trace", "get_span", "get_log", "series"}
      BY <1>12 DEF GetTrace, GetSpan, GetLog, Get, Series, kind
  <2>2. PICK answer, result : \/ q' = [q EXCEPT !.pc = "end", !.answer = answer, !.result = result]
                              \/ q' = [q EXCEPT !.pc = "end", !.answer = answer]
      BY <1>12 DEF GetTrace, GetSpan, GetLog, Get, Series
  <2>3. q'.read = q.read
      BY <1>1, <2>2
  <2>4. q'.req.kind \notin Dashboards
      BY <1>2, <2>1 DEF Dashboards, Joins, kind
  <2> QED BY <1>3, <1>5, <2>3, <2>4
<1>13. CASE GetAnalytics
  <2>1. PICK points : Answer("analytics", points) /\ (DailyOnly => points = DailyTraceCounts(q.read["rows"]))
      BY <1>13 DEF GetAnalytics
  <2>2. /\ kind = "analytics" /\ q'.result = points /\ q'.read = q.read
        /\ DOMAIN q.read = Reads("analytics") /\ ReadOK'
      BY <1>4, <2>1
  <2> QED BY <1>2, <2>1, <2>2 DEF DashboardInv, ReadOK, Joins, kind
<1>14. CASE RefuseAnalytics
  <2>1. q' = [q EXCEPT !.pc = "end", !.answer = "internal"]
      BY <1>14 DEF RefuseAnalytics
  <2>2. q'.answer = "internal" /\ q'.read = q.read
      BY <1>1, <2>1
  <2> QED BY <1>3, <1>5, <2>2
<1>15. ASSUME NEW part, ReadPart(part) PROVE DashboardInv'
  <2> DEFINE read == [p \in DOMAIN q.read \cup {part} |-> IF p = part THEN DashboardRows ELSE q.read[p]]
  <2>1. q' = [q EXCEPT !.read = read]
      BY <1>15 DEF ReadPart
  <2>2. IsFiniteSet(DashboardRows) /\ \A r \in DashboardRows : r.timestamp \in Int
      BY DashboardRowsAre
  <2>3. \A m \in DOMAIN read : IsFiniteSet(read[m]) /\ \A r \in read[m] : r.timestamp \in Int
      BY <2>2 DEF ReadOK
  <2> HIDE DEF read
  <2>4. q'.read = read /\ q'.pc = "read"
      BY <1>1, <1>2, <2>1
  <2> QED BY <1>5, <2>3, <2>4 DEF ReadOK
<1> QED BY <1>6, <1>8, <1>9, <1>10, <1>11, <1>12, <1>13, <1>14, <1>15 DEF ReadStep

\* The answer of a dashboard stays what it made of the rows its queries read.
LEMMA DashboardStep ==
    ASSUME FilesInv, RequestInv, DashboardInv, [Next]_vars
    PROVE  DashboardInv'
<1>1. /\ q = [pc |-> q.pc, req |-> q.req, range |-> q.range, clamped |-> q.clamped, total |-> q.total,
              items |-> q.items, answer |-> q.answer, read |-> q.read, result |-> q.result]
      /\ ReadOK
    BY DEF RequestInv, DashboardInv, ReadOK
<1>2. ASSUME q'.read \in {q.read, NoReads}, q'.pc # "end" \/ q'.answer # "ok" \/ q'.req.kind \notin Dashboards
      PROVE  DashboardInv'
  <2>1. ReadOK'
      BY <1>1, <1>2 DEF ReadOK, NoReads
  <2> QED BY <1>2, <2>1 DEF DashboardInv, ReadOK
<1>3. ASSUME NEW w \in Requests, Begin(w) PROVE DashboardInv'
  <2> DEFINE refusal == IF Authorized(w) # "ok" THEN Authorized(w)
                        ELSE IF RangeMissing(w) THEN "invalid_input" ELSE "none"
  <2>1. PICK pc, range : q' = [Idle EXCEPT !.pc = pc, !.req = Decoded(w), !.answer = refusal, !.range = range]
      BY <1>3 DEF Begin
  <2> HIDE DEF refusal
  <2>2. q'.answer = refusal /\ q'.read = NoReads
      BY <2>1 DEF Idle
  <2>3. refusal # "ok"
      BY DEF refusal
  <2> QED BY <1>2, <2>2, <2>3
<1>4. CASE RefusalStep
    BY <1>2, <1>4, RefusalEnds
<1>5. CASE Clamp \/ Count \/ ReadPage
  <2>1. q'.pc # "end" /\ q'.read = q.read
      BY <1>1, <1>5 DEF Clamp, Count, ReadPage
  <2> QED BY <1>2, <2>1
<1>6. CASE NextPage
  <2>1. q.pc = "answered" /\ q.req.kind \in Listings
      BY <1>6 DEF NextPage, RequestInv
  <2>2. q.req.kind \notin Dashboards
      BY <2>1 DEF Listings, Dashboards, Joins
  <2>3. PICK next : \/ q' = [Idle EXCEPT !.pc = "policy", !.req = next]
                    \/ q' = [q EXCEPT !.pc = "end", !.answer = "ok"]
      BY <1>6 DEF NextPage
  <2>4. (q'.pc = "policy" /\ q'.read = NoReads) \/ (q'.req = q.req /\ q'.read = q.read)
      BY <1>1, <2>3 DEF Idle
  <2> QED BY <1>2, <2>2, <2>4
<1>7. CASE ReadStep
    BY <1>1, <1>7, ReadStepAggregates
<1>8. CASE Finish
  <2>1. q'.pc = "idle" /\ q'.read = NoReads
      BY <1>8 DEF Finish, Idle
  <2> QED BY <1>2, <2>1
<1>9. CASE \/ \E rs \in Batches : Publish(rs)
           \/ \E f \in files : Reclaim(f)
           \/ \E f, g \in files : Merge(f, g)
           \/ \E m \in files : MergeMark(m)
           \/ Tick \/ UNCHANGED vars
  <2>1. q' = q
      BY <1>9 DEF Publish, Reclaim, Merge, MergeMark, Tick, vars
  <2> QED BY <2>1 DEF DashboardInv, DailyOnly
<1> QED BY <1>3, <1>4, <1>5, <1>6, <1>7, <1>8, <1>9, StepsAre

\* What is known of a request in flight, the answers of dashboards included,
\* holds in every reachable state.
THEOREM DashboardInvariant == Spec => []DashboardIInv
<1>1. Init => DashboardIInv
  <2>1. Init => DashboardInv
      BY DEF Init, Idle, NoReads, DashboardInv
  <2> QED BY <2>1, QueryInit DEF DashboardIInv
<1>2. DashboardIInv /\ [Next]_vars => DashboardIInv'
    BY QueryNext, DashboardStep DEF DashboardIInv, QueryIInv
<1> QED BY <1>1, <1>2, PTL DEF Spec

\* The answers of dashboards add up, for any rows and whatever happens to the
\* files between the queries a dashboard joins: each number is that of the rows
\* its own query read, those of the first day of the group where `find` takes
\* the first; errors by service make up their total, the daily counts leave no
\* trace out and count none twice in a day, stops by rail type are of different
\* rows, and when the queries read the same rows neither errors nor stops exceed
\* what they are part of.
THEOREM DashboardAddsUpHolds == Spec => []DashboardAddsUp
<1>1. ASSUME DashboardIInv PROVE DashboardAddsUp
  <2> DEFINE a == q.result
             read == q.read
             kind == q.req.kind
  <2> SUFFICES ASSUME q.pc = "end", q.answer = "ok", kind \in Dashboards
               PROVE  DashboardAddsUp
      BY DEF DashboardAddsUp, Dashboards
  <2>1. /\ \A m \in DOMAIN read : IsFiniteSet(read[m]) /\ \A r \in read[m] : r.timestamp \in Int
        /\ DOMAIN read = Reads(kind)
      BY <1>1 DEF DashboardIInv, DashboardInv
  <2>2. CASE kind \in Joins
    <3>1. a = JoinedEntries(kind, read)
        BY <1>1, <2>2 DEF DashboardIInv, DashboardInv
    <3>2. DOMAIN read = {"span_count"} \cup Joined(kind)
      <4>1. kind # "guardrails"
          BY <2>2 DEF Joins
      <4> QED BY <2>1, <2>2, <4>1 DEF Reads
    <3> DEFINE Group(m, e) == {r \in read[m] : \A d \in GroupBy(kind) : r[d] = e.groups[d]}
               On(day, rs) == {r \in rs : Bucket(r.timestamp) = day}
               FirstDay(rs) == Min({Bucket(r.timestamp) : r \in rs})
               SameRows == \A m, n \in DOMAIN read : read[m] = read[n]
    <3>3. /\ \A m, e : Group(m, e) = InGroup(read[m], GroupBy(kind), e.groups)
          /\ \A day, rs : On(day, rs) = OnDay(day, rs)
          /\ \A rs : FirstDay(rs) = FirstDayOf(rs)
        BY DEF InGroup, OnDay, FirstDayOf
    <3>4. ASSUME NEW e \in a
          PROVE  /\ e.count = Cardinality(On(e.bucket, Group("span_count", e)))
                 /\ \A m \in Joined(kind) :
                       e.other[m] = IF Group(m, e) = {} THEN 0
                                    ELSE Aggregate(m, On(FirstDay(Group(m, e)), Group(m, e)))
                 /\ SameRows /\ "error_count" \in Joined(kind) /\ e.bucket = FirstDay(Group("span_count", e))
                    => e.other["error_count"] <= e.count
      <4> DEFINE G(m) == InGroup(read[m], GroupBy(kind), e.groups)
      <4> HIDE DEF a, read, kind
      <4>1. /\ e.count = Cardinality(OnDay(e.bucket, G("span_count")))
            /\ \A m \in Joined(kind) :
                  e.other[m] = IF G(m) = {} THEN 0 ELSE Aggregate(m, OnDay(FirstDayOf(G(m)), G(m)))
            /\ /\ "error_count" \in Joined(kind) /\ read["error_count"] = read["span_count"]
               /\ e.bucket = FirstDayOf(G("span_count"))
               => e.other["error_count"] <= e.count
          BY <2>1, <2>2, <3>1, <3>2, JoinedAddUp
      <4>2. SameRows /\ "error_count" \in Joined(kind) => read["error_count"] = read["span_count"]
          BY <3>2
      <4> HIDE DEF G, Group, On, FirstDay, SameRows
      <4>3. \A m : Group(m, e) = G(m)
          BY <3>3 DEF G
      <4>4. e.count = Cardinality(On(e.bucket, Group("span_count", e)))
          BY <3>3, <4>1, <4>3
      <4>5. ASSUME NEW m \in Joined(kind)
            PROVE  e.other[m] = IF Group(m, e) = {} THEN 0
                                ELSE Aggregate(m, On(FirstDay(Group(m, e)), Group(m, e)))
        <5>1. On(FirstDay(Group(m, e)), Group(m, e)) = OnDay(FirstDayOf(G(m)), G(m)) /\ Group(m, e) = G(m)
            BY <3>3, <4>3
        <5> QED BY <4>1, <5>1
      <4>6. FirstDay(Group("span_count", e)) = FirstDayOf(G("span_count"))
          BY <3>3, <4>3
      <4> QED BY <4>1, <4>2, <4>4, <4>5, <4>6
    <3>5. kind \notin {"errors", "analytics", "summary", "guardrails"}
        BY <2>2 DEF Joins
    <3> QED BY <2>2, <3>4, <3>5 DEF DashboardAddsUp
  <2>3. CASE kind = "errors"
    <3> DEFINE rows == read["rows"]
               asked == {r \in rows : q.req.service_name \in {Unset, r.service_name}}
               S == {r \in asked : r.status_code = "ERROR" /\ r.service_name # ""}
               T == {r \in rows : r.status_code = "ERROR" /\ r.service_name # ""
                                   /\ q.req.service_name \in {Unset, r.service_name}}
    <3>1. a = ErrorBreakdown(asked) /\ kind \notin Joins
        BY <1>1, <2>3 DEF DashboardIInv, DashboardInv, Joins
    <3>2. IsFiniteSet(asked)
      <4>1. IsFiniteSet(rows)
          BY <2>1, <2>3, <3>1 DEF Reads
      <4> QED BY <4>1, FS_Subset
    <3>3. S = T
        OBVIOUS
    <3> HIDE DEF a, asked, T
    <3>4. ErrorBreakdown(asked).total = Cardinality(S)
        BY <3>2, ErrorsAddUp
    <3> HIDE DEF S
    <3>5. a.total = Cardinality(T)
        BY <3>1, <3>3, <3>4
    <3> QED BY <2>3, <3>1, <3>5 DEF DashboardAddsUp, a, T
  <2>4. CASE kind = "analytics"
    <3>1. kind \notin Joins
        BY <2>4 DEF Joins
    <3>2. CASE DailyOnly
      <4> DEFINE rows == read["rows"]
      <4>1. a = DailyTraceCounts(rows)
          BY <1>1, <2>4, <3>2 DEF DashboardIInv, DashboardInv
      <4>2. IsFiniteSet(rows) /\ \A r \in rows : r.timestamp \in Int
          BY <2>1, <2>4, <3>1 DEF Reads
      <4> HIDE DEF a, rows
      <4>3. /\ SumOf(LAMBDA d : d.value, a) >= Cardinality({r.trace_id : r \in rows})
            /\ \A d \in a : d.value <= Cardinality({r.trace_id : r \in rows})
          BY <4>1, <4>2, DailyAddUp
      <4> QED BY <2>4, <3>1, <3>2, <4>3 DEF DashboardAddsUp, a, rows
    <3>3. CASE ~DailyOnly
        BY <2>4, <3>1, <3>3 DEF DashboardAddsUp
    <3> QED BY <3>2, <3>3
  <2>5. CASE kind = "summary"
    <3> DEFINE rows == read["rows"]
    <3>1. a = MetricsSummary(rows) /\ kind \notin Joins
        BY <1>1, <2>5 DEF DashboardIInv, DashboardInv, Joins
    <3>2. IsFiniteSet(rows)
        BY <2>1, <2>5, <3>1 DEF Reads
    <3> HIDE DEF a, rows
    <3>3. a.errors <= Cardinality({r \in rows : r.status_code = "ERROR"})
        BY <3>1, <3>2, SummaryAddsUp
    <3> QED BY <2>5, <3>1, <3>3 DEF DashboardAddsUp, a, rows
  <2>6. CASE kind = "guardrails"
    <3> DEFINE typed == read["by_rail_type"]
               named == read["top_halting_rails"]
    <3>1. PICK top \in TopHaltingRails(named) : a = Guardrails(read, top)
        BY <1>1, <2>6 DEF DashboardIInv, DashboardInv
    <3>2. kind \notin Joins /\ {"by_rail_type", "top_halting_rails"} \subseteq DOMAIN read
      <4>1. kind \notin Joins
          BY <2>6 DEF Joins
      <4>2. DOMAIN read = {RailQueries[i] : i \in DOMAIN RailQueries}
          BY <2>1, <2>6, <4>1 DEF Reads
      <4>3. DOMAIN RailQueries = 1..4 /\ RailQueries[3] = "by_rail_type" /\ RailQueries[4] = "top_halting_rails"
          BY DEF RailQueries
      <4> QED BY <4>1, <4>2, <4>3
    <3>3. IsFiniteSet(typed)
        BY <2>1, <3>2
    <3>4. a.by_rail_type = ByRailType(typed) /\ a.top_halting_rails = top
        BY <3>1 DEF Guardrails
    <3> HIDE DEF a, typed, named
    <3>5. SumOf(LAMBDA t : t.count, a.by_rail_type) <= Cardinality(typed)
        BY <3>3, <3>4, RailsAddUp
    <3>6. ASSUME \A m, n \in DOMAIN read : read[m] = read[n], NEW x \in a.top_halting_rails, x.rail_type # ""
          PROVE  \E t \in a.by_rail_type : t.rail_type = x.rail_type /\ x.halts <= t.halted
      <4>1. named = typed
          BY <3>2, <3>6 DEF named, typed
      <4> QED BY <3>1, <3>3, <3>4, <3>6, <4>1, RailsWithinType
    <3> QED BY <2>6, <3>2, <3>5, <3>6 DEF DashboardAddsUp, a, typed
  <2> QED BY <2>2, <2>3, <2>4, <2>5, <2>6 DEF Dashboards
<1> QED BY <1>1, DashboardInvariant, PTL
=============================================================================
