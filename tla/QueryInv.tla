------------------------------ MODULE QueryInv ------------------------------
(***************************************************************************)
(* The inductive invariant of Query: what the visible files promise, what  *)
(* is known of the request in flight at each of its steps, and, for a      *)
(* client that pages through rows, why no row it may expect is behind it.  *)
(***************************************************************************)
EXTENDS Query

-----------------------------------------------------------------------------
(* Files.                                                                  *)

\* The bounds of a file enclose its rows, which are of one workspace and
\* signal.
FileOK(f) ==
    /\ f \in [workspace_id : Workspaces, signal : {"traces", "logs", "metrics"}, rows : SUBSET Rows,
              min_ts : Int, max_ts : Int]
    /\ IsFiniteSet(f.rows) /\ f.rows # {}
    /\ \A r \in f.rows :
          /\ r.workspace_id = f.workspace_id /\ r.signal = f.signal
          /\ f.min_ts <= r.timestamp \div Micro /\ r.timestamp \div Micro <= f.max_ts

FilesInv == now \in Int /\ IsFiniteSet(files) /\ \A f \in files : FileOK(f)

-----------------------------------------------------------------------------
(* The request in flight.                                                  *)

Steps == {"idle", "policy", "count", "page", "answered", "read", "end"}

RequestInv ==
    /\ q = [pc |-> q.pc, req |-> q.req, range |-> q.range, clamped |-> q.clamped, total |-> q.total,
            items |-> q.items, answer |-> q.answer, read |-> q.read, result |-> q.result]
    /\ q.pc \in Steps
    /\ q.pc # "idle" => q.req \in Request /\ q.req.limit \in Nat
    /\ q.pc = "policy" => q.req.kind \in Listings \cup {"series"}
    /\ q.pc \in {"count", "page", "answered"} => q.req.kind \in Listings
    /\ q.pc = "read" => q.req.kind \notin Listings

\* A request that got past the handler's checks was allowed to, and is about the
\* workspace of its credential.
AuthInv ==
    q.pc \in {"policy", "count", "page", "answered", "read"} \/ (q.pc = "end" /\ q.answer = "ok") =>
        /\ q.req.credential.verdict = "accepted"
        /\ Granted(Capabilities(q.req.credential.capability_keys), RequiredBy(q.req))
        /\ q.req.workspace_id = q.req.credential.workspace_id

\* A listing that has been clamped.
Clamped == q.pc \in {"count", "page", "answered"} \/ (q.pc = "end" /\ q.answer = "ok" /\ q.req.kind \in Listings)

\* Its range is that of the clock at which it was clamped.
RangeInv ==
    Clamped =>
        LET cutoff == q.clamped - Retention[q.req.workspace_id] * DayLen
        IN  /\ q.clamped \in Int /\ q.clamped <= now
            /\ IF Bounded(q.req)
               THEN /\ q.range \in [start : Int, end : Int]
                    /\ q.range.start >= cutoff /\ q.range.start \in {cutoff, q.req.start}
                    /\ q.req.start # Unset => q.range.start >= q.req.start
                    /\ q.range.end = IF q.req.end = Unset THEN q.clamped ELSE q.req.end
               ELSE q.range = Unset /\ q.req.end = Unset

\* What a page shows is there on account of rows of the caller in range.
Scoped(r) ==
    /\ r.workspace_id = q.req.workspace_id
    /\ q.req.service_name \in {Unset, r.service_name}
    /\ In(r.timestamp, q.range)

ItemsInv ==
    q.pc = "answered" =>
        \A u \in q.items :
            IF q.req.kind = "traces"
            THEN /\ u = Summary(u.id, u.spans)
                 /\ \A x \in u.spans : x.trace_id = u.id /\ Scoped(x) /\ x.timestamp \in Int
                 /\ \E x \in u.spans : u.at = x.timestamp
            ELSE \E r \in Rows : r.id = u.id /\ u.at = r.timestamp /\ Scoped(r)

-----------------------------------------------------------------------------
(* Paging.                                                                 *)

\* What a listing of rows asks for, its range apart.
Keep(req, r) ==
    /\ r.workspace_id = req.workspace_id
    /\ req.service_name \in {Unset, r.service_name}
    /\ req.kind = "spans" => req.span_name \in {Unset, r.span_name} /\ req.status \in {Unset, r.status_code}

\* The files that hold a row.
Holders(r) == {f \in files : r \in f.rows}

\* The rows a listing may show before those of r, up to some time.
Newer(req, r, end) ==
    {u \in MatchingRows(req, Unset, OfSignal(req.kind)) : u.at > r.timestamp /\ (end = Unset \/ u.at <= end)}

\* Rows the client may expect: stored from its first request on, inside its
\* range and the retention window, and alone at their timestamp.
Expected(req, r) ==
    /\ r \in StoredRows(files)
    /\ r.signal = SignalOf(req.kind) /\ Keep(req, r)
    /\ r.timestamp \div Micro > Cutoff(r.workspace_id) \div Micro
    /\ Bounded(req) /\ req.start # Unset => req.start <= r.timestamp
    /\ req.end # Unset => r.timestamp <= req.end
    /\ \A x \in StoredRows(files) :
          x.signal = r.signal /\ Keep(req, x) /\ x.timestamp = r.timestamp => x.id = r.id

\* Where the range of the next page ends, as the clock stands.
OpenEnded(req) == Bounded(req) /\ req.end = Unset
OpenEnd(req) == IF OpenEnded(req) THEN now ELSE req.end
PageEnd(range) == IF range = Unset THEN Unset ELSE range.end

\* A row not shown yet is not behind the client: at least as many rows as it
\* has been shown come before.
Ahead(r) ==
    CASE q.pc = "policy" -> Cardinality(Newer(q.req, r, OpenEnd(q.req))) >= q.req.offset
      [] q.pc \in {"count", "page"} -> Cardinality(Newer(q.req, r, PageEnd(q.range))) >= q.req.offset
      [] q.pc = "answered" -> /\ Cardinality(q.items) = q.req.limit
                              /\ Cardinality(Newer(q.req, r, PageEnd(q.range))) >= q.req.offset + q.req.limit
      [] OTHER -> FALSE

Paging ==
    /\ q.pc \in {"policy", "count", "page", "answered"} \/ (q.pc = "end" /\ q.answer = "ok")
    /\ q.req.kind \in {"spans", "logs", "metrics"} /\ q.req.limit > 0 /\ ~pager.merged

PagerInv ==
    /\ pager = [seen |-> pager.seen, stored |-> pager.stored, merged |-> pager.merged]
    /\ pager.stored \subseteq Rows
    /\ \A r \in pager.stored :
          /\ OpenEnded(q.req) => r.timestamp <= now /\ (Clamped => r.timestamp <= q.clamped)
          /\ r \notin StoredRows(files) => r.timestamp \div Micro <= Cutoff(r.workspace_id) \div Micro

PagingInv == Paging => \A r \in pager.stored : Expected(q.req, r) => r.id \in pager.seen \/ Ahead(r)

-----------------------------------------------------------------------------
(* Dashboards.                                                             *)

\* What each query of a dashboard read is a finite set of rows, and what the
\* dashboard answers is made of all of them.
DashboardInv ==
    /\ \A m \in DOMAIN q.read : IsFiniteSet(q.read[m]) /\ \A r \in q.read[m] : r.timestamp \in Int
    /\ q.pc = "end" /\ q.answer = "ok" /\ q.req.kind \in Dashboards =>
          /\ DOMAIN q.read = Reads(q.req.kind)
          /\ q.req.kind \in Joins => q.result = JoinedEntries(q.req.kind, q.read)
          /\ q.req.kind = "errors" =>
                q.result = ErrorBreakdown({r \in q.read["rows"] : q.req.service_name \in {Unset, r.service_name}})
          /\ q.req.kind = "analytics" /\ DailyOnly => q.result = DailyTraceCounts(q.read["rows"])
          /\ q.req.kind = "summary" => q.result = MetricsSummary(q.read["rows"])
          /\ q.req.kind = "guardrails" =>
                \E top \in TopHaltingRails(q.read["top_halting_rails"]) : q.result = Guardrails(q.read, top)

-----------------------------------------------------------------------------
QueryIInv == FilesInv /\ RequestInv /\ AuthInv /\ RangeInv /\ ItemsInv

PageIInv == QueryIInv /\ PagerInv /\ PagingInv

DashboardIInv == QueryIInv /\ DashboardInv
=============================================================================
