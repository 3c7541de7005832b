------------------------------- MODULE Query -------------------------------
(***************************************************************************)
(* Telemetry queries: the handlers of the query API (services/api,         *)
(* telemetry/handlers.rs and grpc/query_handler.rs), QueryService          *)
(* (telemetry/service.rs), the retention clamp (zradar-retention,          *)
(* enforcer.rs) and ParquetTelemetryReader (zradar-parquet).               *)
(*                                                                         *)
(* One client lists rows page by page while files are published and        *)
(* reclaimed and time passes.  A listing is four separate steps in the     *)
(* code, with an await between any two: the policy check, the retention    *)
(* clamp, the COUNT query and the page itself; the last two list the       *)
(* files anew.  So does each of the queries a dashboard joins.  A file is  *)
(* the set of its rows and its bounds in microseconds; rows carry          *)
(* nanoseconds, as the client stamped them, in the future too.             *)
(***************************************************************************)
EXTENDS Api, Analytics

CONSTANTS
    Rows,           \* the rows that may be written: a set of records
    Batches,        \* the sets of rows a flush may publish as a file
    Workspaces,
    Requests,       \* the requests clients may send, on either transport
    Micro,          \* nanoseconds in a microsecond, scaled down
    Retention,      \* days, per workspace
    StartTime,      \* the clock at the start
    MaxTime,        \* bound on the clock
    MaxFiles        \* bound on the visible files

-----------------------------------------------------------------------------
(* Requests and rows.                                                      *)

Listings   == {"traces", "spans", "logs", "metrics"}
Joins      == {"endpoints", "llm", "agents"}
Dashboards == Joins \cup {"analytics", "summary", "errors", "guardrails"}
Kinds      == Listings \cup Dashboards \cup {"get_trace", "get_span", "get_log", "series", "storage"}

Optional(S) == S \cup {Unset}

\* What the decoders of either transport accept.
Request ==
    [kind : Kinds, transport : {"http", "grpc"},
     credential : [verdict : {"accepted", "refused", "unreachable"}, workspace_id : Workspaces,
                   capability_keys : SUBSET STRING],
     workspace_id : Workspaces, start : Optional(Int), end : Optional(Int),
     service_name : Optional(STRING), span_name : Optional(STRING), status : Optional(STRING),
     min_duration : Optional(Int), limit : Optional(Nat), offset : Nat, id : STRING,
     interval : Nat \ {0}, aggregation : STRING, metric : Optional(STRING), group_by : SUBSET STRING]

\* The columns every table has, and those of spans that listings read.
IsRow(r) ==
    /\ {"id", "workspace_id", "signal", "timestamp", "service_name", "trace_id", "copy"} \subseteq DOMAIN r
    /\ r.workspace_id \in Workspaces
    /\ r.timestamp \in Int
    /\ r.signal \in {"traces", "logs", "metrics"}
    /\ r.signal = "traces" => /\ {"duration", "span_name", "status_code"} \subseteq DOMAIN r
                              /\ r.duration \in Nat

ASSUME QueryAssumption ==
    /\ \A r \in Rows : IsRow(r)
    /\ \A rs \in Batches : /\ rs \subseteq Rows /\ rs # {} /\ IsFiniteSet(rs)
                           /\ \A a, b \in rs : a.workspace_id = b.workspace_id /\ a.signal = b.signal
    /\ Requests \subseteq Request
    /\ Micro \in Nat \ {0}
    /\ Retention \in [Workspaces -> Nat]
    /\ {StartTime, MaxTime, MaxFiles} \subseteq Nat
    /\ Unset \notin Int /\ Unset \notin [start : Int, end : Int]

VARIABLES
    files,      \* file_list and the bytes behind it: the visible files
    now,        \* the clock, in nanoseconds
    q,          \* the query in flight
    pager       \* the client: what it has been shown, and what it could expect
vars == <<files, now, q, pager>>

-----------------------------------------------------------------------------
(* Files: what writer.rs registers and file_list.rs selects.               *)

StoredRows(fs) == UNION {f.rows : f \in fs}

\* Spans reach as far as they last.
End(r) == IF r.signal = "traces" THEN r.timestamp + r.duration ELSE r.timestamp

FileOf(rs) ==
    LET r == CHOOSE x \in rs : TRUE
    IN  [workspace_id |-> r.workspace_id, signal |-> r.signal, rows |-> rs,
         min_ts |-> Min({x.timestamp : x \in rs}) \div Micro, max_ts |-> Max({End(x) : x \in rs}) \div Micro]

\* Mutant: a file that ends where the range starts is left out.
QueryFilesOpen(fs, ws, signal, range) ==
    {f \in fs :
        /\ f.workspace_id = ws
        /\ f.signal = signal
        /\ \/ range = Unset
           \/ f.max_ts > range.start \div Micro /\ f.min_ts <= range.end \div Micro}

\* query_files: a file overlaps [start, end] when max_ts >= start and
\* min_ts <= end; an absent range selects every file.
QueryFiles(fs, ws, signal, range) ==
    {f \in fs :
        /\ f.workspace_id = ws
        /\ f.signal = signal
        /\ \/ range = Unset
           \/ f.max_ts >= range.start \div Micro /\ f.min_ts <= range.end \div Micro}

-----------------------------------------------------------------------------
(* The service: what it makes of a request.                                *)

SignalOf(kind) ==
    CASE kind \in {"traces", "spans", "get_trace", "get_span"} \cup Dashboards -> "traces"
      [] kind \in {"logs", "get_log"}                                         -> "logs"
      [] kind \in {"metrics", "series"}                                       -> "metrics"

Cutoff(ws) == now - Retention[ws] * DayLen

\* Mutant: only an absent start is clamped.
EnforceStartAbsent(ws, start) == IF start = Unset THEN Cutoff(ws) ELSE start

\* QueryEnforcer::enforce with the strategy the builder wires, Clamp.
EnforceStart(ws, start) ==
    IF start = Unset \/ start < Cutoff(ws) THEN Cutoff(ws) ELSE start

\* The time range of the storage filters.  Traces and spans are bounded when
\* either end is given, logs and metrics only when the end is, a series only
\* when both are; only listings are clamped.
TracesRange(req) ==
    IF req.start = Unset /\ req.end = Unset THEN Unset
    ELSE [start |-> EnforceStart(req.workspace_id, req.start), end |-> IF req.end = Unset THEN now ELSE req.end]
SpansRange(req) == TracesRange(req)
LogsRange(req) ==
    IF req.end = Unset THEN Unset ELSE [start |-> EnforceStart(req.workspace_id, req.start), end |-> req.end]
MetricsRange(req) == LogsRange(req)
SeriesRange(req) ==
    IF Unset \in {req.start, req.end} THEN Unset ELSE [start |-> req.start, end |-> req.end]
DashboardRange(req) ==
    LET end == IF req.end = Unset THEN now ELSE req.end
    IN  [start |-> IF req.start = Unset THEN end - 7 * DayLen ELSE req.start, end |-> end]

TimeRange(req) ==
    CASE req.kind = "traces"       -> TracesRange(req)
      [] req.kind = "spans"        -> SpansRange(req)
      [] req.kind = "logs"         -> LogsRange(req)
      [] req.kind = "metrics"      -> MetricsRange(req)
      [] req.kind = "series"       -> SeriesRange(req)
      [] req.kind \in Dashboards   -> DashboardRange(req)

Bounded(req) ==
    CASE req.kind \in {"traces", "spans"} -> ~(req.start = Unset /\ req.end = Unset)
      [] req.kind \in {"logs", "metrics"} -> req.end # Unset
      [] OTHER -> FALSE

-----------------------------------------------------------------------------
(* The reader: the SQL as predicates on rows.                              *)

In(ts, range) == range = Unset \/ (range.start <= ts /\ ts <= range.end)

Where(req, range, r) ==
    /\ r.workspace_id = req.workspace_id
    /\ req.service_name \in {Unset, r.service_name}
    /\ In(r.timestamp, range)

\* query_traces: the traces that hold a span of the asked name are chosen from
\* every listed file, the spans that make up a summary also by time.
TraceSpans(req, range, rs) ==
    LET named == {r.trace_id : r \in {x \in rs : x.workspace_id = req.workspace_id
                                               /\ req.span_name \in {Unset, x.span_name}}}
    IN  {r \in rs : Where(req, range, r) /\ r.trace_id \in named}

\* `spans` is history: the rows behind the summary.
Summary(t, spans) ==
    LET of    == {r \in spans : r.trace_id = t}
        first == Min({r.timestamp : r \in of})
        last  == Max({r.timestamp + r.duration : r \in of})
    IN  [id |-> t, at |-> first, duration |-> last - first, span_count |-> Cardinality(of),
         has_error |-> \E r \in of : r.status_code = "ERROR", spans |-> of]

TraceSummaries(req, spans) ==
    {s \in {Summary(t, spans) : t \in {r.trace_id : r \in spans}} :
        /\ req.status = "ERROR" => s.has_error
        /\ req.status = "OK" => ~s.has_error
        /\ req.min_duration = Unset \/ s.duration >= req.min_duration}

\* query_spans leaves the duration bounds it is handed out of its conditions.
MatchingSpans(req, range, rs) ==
    {r \in rs : /\ Where(req, range, r)
               /\ req.span_name \in {Unset, r.span_name}
               /\ req.status \in {Unset, r.status_code}}
MatchingLogs(req, range, rs) == {r \in rs : Where(req, range, r)}
MatchingMetrics(req, range, rs) == {r \in rs : Where(req, range, r)}

MatchingRows(req, range, rs) ==
    {[id |-> r.id, at |-> r.timestamp, copy |-> r.copy] :
        r \in CASE req.kind = "spans"   -> MatchingSpans(req, range, rs)
               [] req.kind = "logs"    -> MatchingLogs(req, range, rs)
               [] req.kind = "metrics" -> MatchingMetrics(req, range, rs)}

Units(req, range, rs) ==
    IF req.kind = "traces" THEN TraceSummaries(req, TraceSpans(req, range, rs)) ELSE MatchingRows(req, range, rs)

\* ORDER BY timestamp DESC LIMIT .. OFFSET ..: the sets of n rows that may come
\* after k others.  Ties come in any order, and in another one for the next page.
Slices(S, k, n) ==
    {X \in kSubset(n, S) : \E B \in kSubset(k, S \ X) :
        /\ \A b \in B, x \in X : b.at >= x.at
        /\ \A y \in B \cup X, z \in S \ (B \cup X) : y.at >= z.at}

\* Mutant: the page starts one row too late.
PageLate(req, S) ==
    LET k == Min({req.offset + 1, Cardinality(S)}) IN Slices(S, k, Min({req.limit, Cardinality(S) - k}))

Page(req, S) ==
    LET k == Min({req.offset, Cardinality(S)}) IN Slices(S, k, Min({req.limit, Cardinality(S) - k}))

\* The rows of a set of files as the table the SQL sees: a row that two files
\* hold, while a merge is half done, is there twice, with copies numbered.
Copies(fs) ==
    UNION {{[r EXCEPT !.copy = k] : k \in 1..Cardinality({f \in fs : r \in f.rows})} : r \in StoredRows(fs)}

Scanned(req, range) == Copies(QueryFiles(files, req.workspace_id, SignalOf(req.kind), range))

-----------------------------------------------------------------------------
NoReads == [part \in {} |-> {}]
Idle == [pc |-> "idle", req |-> Unset, range |-> Unset, clamped |-> 0, total |-> 0, items |-> {}, answer |-> "none",
         read |-> NoReads, result |-> Unset]
NoPages == [seen |-> {}, stored |-> {}, merged |-> FALSE]

Init ==
    /\ files = {}
    /\ now = StartTime
    /\ q = Idle
    /\ pager = NoPages

\* What a client may expect to be shown: what is stored and, when its range ends
\* at the clock, not stamped later than that.
Expectable(req) == {r \in StoredRows(files) : Bounded(req) /\ req.end = Unset => r.timestamp <= now}

\* A handler: authorization, decoding, the first refusals and, for a dashboard,
\* its range.  The client remembers what it may expect when it asks for its
\* first page.
Begin(w) ==
    LET refusal == IF Authorized(w) # "ok" THEN Authorized(w)
                   ELSE IF RangeMissing(w) THEN "invalid_input" ELSE "none"
    IN  /\ q.pc = "idle"
        /\ q' = [Idle EXCEPT !.pc = IF refusal # "none" THEN "end"
                                   ELSE IF w.kind \in Listings \cup {"series"} THEN "policy" ELSE "read",
                             !.req = Decoded(w), !.answer = refusal,
                             !.range = IF w.kind \in Dashboards THEN TimeRange(Decoded(w)) ELSE Unset]
        /\ pager' = IF w.kind \in Listings THEN [NoPages EXCEPT !.stored = Expectable(w)] ELSE NoPages
        /\ UNCHANGED <<files, now>>

\* enforce_policy_query: the bytes of the files in range are estimated and the
\* policy enforcer decides; a refusal is InvalidInput.
PolicyRefuses ==
    /\ q.pc = "policy"
    /\ q' = [q EXCEPT !.pc = "end", !.answer = "invalid_input"]
    /\ UNCHANGED <<files, now, pager>>

\* Allowed: enforce_start and the storage filters, at the clock of this step.
Clamp ==
    /\ q.pc = "policy"
    /\ q' = [q EXCEPT !.pc = IF q.req.kind = "series" THEN "read" ELSE "count", !.range = TimeRange(q.req),
                      !.clamped = now]
    /\ UNCHANGED <<files, now, pager>>

\* SELECT COUNT.
Count ==
    /\ q.pc = "count"
    /\ q' = [q EXCEPT !.pc = "page", !.total = Cardinality(Units(q.req, q.range, Scanned(q.req, q.range)))]
    /\ UNCHANGED <<files, now, pager>>

\* SELECT ... LIMIT/OFFSET, then record_query_usage and the answer.
ReadPage ==
    /\ q.pc = "page"
    /\ \E items \in Page(q.req, Units(q.req, q.range, Scanned(q.req, q.range))) :
          /\ q' = [q EXCEPT !.pc = "answered", !.items = items]
          /\ pager' = [pager EXCEPT !.seen = @ \cup {u.id : u \in items}]
    /\ UNCHANGED <<files, now>>

\* The client asks for the next page as long as the pages come back full.
NextPage ==
    /\ q.pc = "answered"
    /\ q' = IF q.req.limit > 0 /\ Cardinality(q.items) = q.req.limit
            THEN [Idle EXCEPT !.pc = "policy", !.req = [q.req EXCEPT !.offset = @ + q.req.limit]]
            ELSE [q EXCEPT !.pc = "end", !.answer = "ok"]
    /\ UNCHANGED <<files, now, pager>>

\* get_trace, get_span and get_log: neither policy nor retention, any file.
TraceDetail(ws, id) == {r \in Scanned(q.req, Unset) : r.workspace_id = ws /\ r.trace_id = id}
OneRow(ws, id) == {r \in Scanned(q.req, Unset) : r.workspace_id = ws /\ r.id = id}

Get(kind, found) ==
    /\ q.pc = "read" /\ q.req.kind = kind
    /\ q' = [q EXCEPT !.pc = "end", !.answer = IF found = {} THEN "not_found" ELSE "ok", !.result = found]
    /\ UNCHANGED <<files, now, pager>>
GetTrace == Get("get_trace", TraceDetail(q.req.workspace_id, q.req.id))
GetSpan  == Get("get_span", OneRow(q.req.workspace_id, q.req.id))
GetLog   == Get("get_log", OneRow(q.req.workspace_id, q.req.id))

\* query_metric_series: buckets of the interval with an aggregate each.  The
\* count is an integer column, the conversion accepts only floats.
Series ==
    /\ q.pc = "read" /\ q.req.kind = "series"
    /\ LET rs == {r \in Scanned(q.req, q.range) : Where(q.req, q.range, r)}
           at(r) == (r.timestamp \div q.req.interval) * q.req.interval
           buckets == {[bucket |-> b, values |-> {r.id : r \in {x \in rs : at(x) = b}}] : b \in {at(r) : r \in rs}}
       IN  q' = IF q.req.aggregation = "count" /\ rs # {}
                THEN [q EXCEPT !.pc = "end", !.answer = "internal"]
                ELSE [q EXCEPT !.pc = "end", !.answer = "ok", !.result = buckets]
    /\ UNCHANGED <<files, now, pager>>

\* The files cannot be listed for the policy's estimate, or the reader fails to
\* list, fetch or scan them: an internal error, and the first one ends a join.
ReadFails ==
    /\ q.pc \in {"policy", "count", "page", "read"}
    /\ q' = [q EXCEPT !.pc = "end", !.answer = "internal"]
    /\ UNCHANGED <<files, now, pager>>

\* The spans a dashboard aggregates: those of its range, seven days by default.
DashboardRows ==
    {r \in Scanned(q.req, q.range) : r.workspace_id = q.req.workspace_id /\ In(r.timestamp, q.range)}

\* The result sets of a dashboard.
Reads(kind) ==
    CASE kind \in Joins       -> {"span_count"} \cup Joined(kind)
      [] kind = "guardrails"  -> {RailQueries[i] : i \in DOMAIN RailQueries}
      [] OTHER                -> {"rows"}

\* get_analytics: daily counts unless a metric, a grouping or a filter is given;
\* a metric or dimension outside the whitelists is an internal error.
AnalyticsSupported == q.req.metric \in Metrics \cup {Unset} /\ q.req.group_by \subseteq Dimensions
DailyOnly == q.req.metric \in {Unset, "trace_count"} /\ q.req.group_by = {}

\* One query of a dashboard: it lists the files and reads them.  The queries of a
\* join run concurrently, those of the guardrails one after the other.
ReadPart(part) ==
    /\ q.pc = "read" /\ q.req.kind \in Dashboards
    /\ q.req.kind = "analytics" => AnalyticsSupported
    /\ part \in Reads(q.req.kind) \ DOMAIN q.read
    /\ q.req.kind = "guardrails" => part = RailQueries[Cardinality(DOMAIN q.read) + 1]
    /\ q' = [q EXCEPT !.read = [p \in DOMAIN q.read \cup {part} |-> IF p = part THEN DashboardRows ELSE q.read[p]]]
    /\ UNCHANGED <<files, now, pager>>

\* All of them have answered: what the service makes of them.
Answer(kind, result) ==
    /\ q.pc = "read" /\ q.req.kind = kind /\ DOMAIN q.read = Reads(kind)
    /\ q' = [q EXCEPT !.pc = "end", !.answer = "ok", !.result = result]
    /\ UNCHANGED <<files, now, pager>>

RefuseAnalytics ==
    /\ q.pc = "read" /\ q.req.kind = "analytics" /\ ~AnalyticsSupported
    /\ q' = [q EXCEPT !.pc = "end", !.answer = "internal"]
    /\ UNCHANGED <<files, now, pager>>

GetAnalytics ==
    Answer("analytics", IF DailyOnly THEN DailyTraceCounts(q.read["rows"])
                        ELSE Points(IF q.req.metric = Unset THEN "trace_count" ELSE q.req.metric,
                                    q.req.group_by, q.read["rows"]))

GetMetricsSummary == Answer("summary", MetricsSummary(q.read["rows"]))

\* The sort by count and the cut to the first n are left out.
GetTopEndpoints == Answer("endpoints", JoinedEntries("endpoints", q.read))
GetLlmAnalytics == Answer("llm", JoinedEntries("llm", q.read))
GetAgentAnalytics == Answer("agents", JoinedEntries("agents", q.read))

GetErrorBreakdown ==
    Answer("errors", ErrorBreakdown({r \in q.read["rows"] : q.req.service_name \in {Unset, r.service_name}}))

GetGuardrailsAnalytics ==
    /\ "top_halting_rails" \in DOMAIN q.read
    /\ \E top \in TopHaltingRails(q.read["top_halting_rails"]) : Answer("guardrails", Guardrails(q.read, top))

\* get_storage_usage: the visible files of the workspace, grouped by signal.
GetStorageUsage ==
    /\ q.pc = "read" /\ q.req.kind = "storage"
    /\ LET mine == {f \in files : f.workspace_id = q.req.workspace_id}
           usage == {[signal_type |-> s, file_count |-> Cardinality({f \in mine : f.signal = s}),
                      records |-> SumOf(LAMBDA f : Cardinality(f.rows), {f \in mine : f.signal = s})]
                        : s \in {f.signal : f \in mine}}
       IN  q' = [q EXCEPT !.pc = "end", !.answer = "ok", !.result = usage]
    /\ UNCHANGED <<files, now, pager>>

Finish ==
    /\ q.pc = "end"
    /\ q' = Idle /\ pager' = NoPages
    /\ UNCHANGED <<files, now>>

-----------------------------------------------------------------------------
(* What happens meanwhile (FileLifecycle has the detail).                  *)

\* A file becomes visible: rows of one workspace and signal.
Publish(rs) ==
    /\ Cardinality(files) < MaxFiles
    /\ rs \cap StoredRows(files) = {}
    /\ files' = files \cup {FileOf(rs)}
    /\ UNCHANGED <<now, q, pager>>

\* Retention marks a file whose newest row is at or before the cutoff.
Reclaim(f) ==
    /\ f.max_ts <= Cutoff(f.workspace_id) \div Micro
    /\ files' = files \ {f}
    /\ UNCHANGED <<now, q, pager>>

\* What a merged file replaces.
Originals(m) == {f \in files : f.rows \subseteq m.rows /\ f # m}

\* Compaction registers the merged file first and marks the originals deleted
\* in a second step: in between their rows are visible twice.
Merge(f, g) ==
    /\ \A m \in files : Originals(m) = {}
    /\ f.rows \cap g.rows = {} /\ f.workspace_id = g.workspace_id /\ f.signal = g.signal
    /\ files' = files \cup {[f EXCEPT !.rows = f.rows \cup g.rows, !.min_ts = Min({@, g.min_ts}),
                                      !.max_ts = Max({@, g.max_ts})]}
    /\ UNCHANGED <<now, q, pager>>

MergeMark(m) ==
    /\ Originals(m) # {}
    /\ files' = files \ Originals(m)
    /\ pager' = IF q.pc \in {"idle", "end"} THEN pager ELSE [pager EXCEPT !.merged = TRUE]
    /\ UNCHANGED <<now, q>>

Tick ==
    /\ now < MaxTime
    /\ now' = now + 1
    /\ UNCHANGED <<files, q, pager>>

QueryStep ==
    \/ PolicyRefuses \/ Clamp \/ Count \/ ReadPage \/ NextPage \/ GetTrace \/ GetSpan \/ GetLog \/ Series
    \/ ReadFails \/ RefuseAnalytics \/ \E part \in UNION {Reads(k) : k \in Dashboards} : ReadPart(part)
    \/ GetAnalytics \/ GetMetricsSummary \/ GetTopEndpoints \/ GetLlmAnalytics \/ GetAgentAnalytics
    \/ GetErrorBreakdown \/ GetGuardrailsAnalytics \/ GetStorageUsage

Next ==
    \/ \E req \in Requests : Begin(req)
    \/ QueryStep
    \/ Finish
    \/ \E rs \in Batches : Publish(rs)
    \/ \E f \in files : Reclaim(f)
    \/ \E f, g \in files : Merge(f, g)
    \/ \E m \in files : MergeMark(m)
    \/ Tick

Spec == Init /\ [][Next]_vars

-----------------------------------------------------------------------------
(* Properties.                                                             *)

OfSignal(kind) == Copies({f \in files : f.signal = SignalOf(kind)})

\* A row is the caller's to see: of the workspace of the credential, whatever the
\* request names, of the service asked for and in the range as it was sent.
InScope(r) ==
    /\ r.workspace_id = q.req.credential.workspace_id
    /\ q.req.service_name \in {Unset, r.service_name}
    /\ q.req.start = Unset \/ ~Bounded(q.req) \/ q.req.start <= r.timestamp
    /\ q.req.end = Unset \/ r.timestamp <= q.req.end

\* A page shows only the caller's rows (service.rs: "never trust the workspace id
\* carried in the user-supplied filters"), whatever was published, merged or
\* reclaimed between the clamp, the count and the page; and what a trace
\* summary says of its spans - their number, extent and errors - it says of the
\* caller's rows only, although another tenant may use the same trace id.
PagesInScope ==
    q.pc = "answered" =>
        \A u \in q.items :
            IF q.req.kind = "traces"
            THEN /\ u = Summary(u.id, u.spans) /\ u.spans # {}
                 /\ \A x \in u.spans : InScope(x) /\ x.trace_id = u.id
            ELSE \E r \in Rows : r.id = u.id /\ r.timestamp = u.at /\ InScope(r)

\* A listing with a bound shows nothing that was beyond the retention window
\* when the request was clamped (enforcer.rs, EnforcementStrategy::Clamp).
RetentionWhenBounded ==
    q.pc = "answered" /\ Bounded(q.req) =>
        \A u \in q.items : u.at >= q.clamped - Retention[q.req.workspace_id] * DayLen

\* Choosing files by their bounds in microseconds loses no row that the SQL in
\* nanoseconds would return - but for traces by span name, where the listed
\* files also decide which traces qualify.
PruningLosesNothing ==
    q.pc \in {"count", "page"} /\ (q.req.kind = "traces" => q.req.span_name = Unset) =>
        Units(q.req, q.range, Scanned(q.req, q.range)) = Units(q.req, q.range, OfSignal(q.req.kind))

\* A client that pages through rows until a page comes back short has been
\* shown every row it could expect: stored and in its range when it began, still
\* stored, inside the range of the last page, inside the retention window, and
\* alone at its timestamp (LIMIT/OFFSET over an order that leaves ties open loses
\* rows among ties) - unless a compaction marked its originals meanwhile, which
\* takes the duplicates out of earlier pages and moves later rows up.  Rows
\* that arrive meanwhile, or that the clock lets into an open range, shift pages
\* and may repeat rows, but hide none; files that are reclaimed meanwhile hold
\* only older rows.
PagingMissesNothing ==
    /\ q.pc = "end" /\ q.answer = "ok" /\ ~pager.merged
    /\ q.req.kind \in {"spans", "logs", "metrics"} /\ q.req.limit > 0
    =>  LET Shown(rs) == MatchingRows(q.req, q.range, rs)
        IN  \A r \in {x \in pager.stored \cap StoredRows(files) : x.signal = SignalOf(q.req.kind)} :
                /\ Shown({r}) # {}
                /\ r.timestamp \div Micro > Cutoff(r.workspace_id) \div Micro
                /\ \A u \in Shown(OfSignal(q.req.kind)) : u.at = r.timestamp => u.id = r.id
                =>  r.id \in pager.seen

\* What a dashboard joins belongs together, although its queries list the files
\* one by one and files come and go in between.  Each number is that of the
\* rows its own query read: a count those of its day and group, the values
\* beside it those of the first day of the group (also beside later days, as
\* `find` takes the first), 0 when that query saw none of the group.  When the
\* queries saw the same rows, an entry of the first day has no more errors than
\* spans, and a rail no more stops than its type.  Breakdowns add up to their
\* totals and no trace is counted twice in a day.
DashboardAddsUp ==
    q.pc = "end" /\ q.answer = "ok" =>
        LET a == q.result
            Group(m, e) == {r \in q.read[m] : \A d \in GroupBy(q.req.kind) : r[d] = e.groups[d]}
            On(day, rs) == {r \in rs : Bucket(r.timestamp) = day}
            FirstDay(rs) == Min({Bucket(r.timestamp) : r \in rs})
            SameRows == \A m, n \in DOMAIN q.read : q.read[m] = q.read[n]
        IN  CASE q.req.kind \in Joins ->
                   \A e \in a :
                       /\ e.count = Cardinality(On(e.bucket, Group("span_count", e)))
                       /\ \A m \in Joined(q.req.kind) :
                             e.other[m] = IF Group(m, e) = {} THEN 0
                                          ELSE Aggregate(m, On(FirstDay(Group(m, e)), Group(m, e)))
                       /\ /\ SameRows /\ "error_count" \in Joined(q.req.kind)
                          /\ e.bucket = FirstDay(Group("span_count", e))
                          => e.other["error_count"] <= e.count
              [] q.req.kind = "errors" ->
                   a.total = Cardinality({r \in q.read["rows"] : r.status_code = "ERROR" /\ r.service_name # ""
                                            /\ q.req.service_name \in {Unset, r.service_name}})
              [] q.req.kind = "analytics" /\ DailyOnly ->
                   LET traces == Cardinality({r.trace_id : r \in q.read["rows"]})
                   IN  SumOf(LAMBDA d : d.value, a) >= traces /\ \A d \in a : d.value <= traces
              [] q.req.kind = "summary" ->
                   a.errors <= Cardinality({r \in q.read["rows"] : r.status_code = "ERROR"})
              [] q.req.kind = "guardrails" ->
                   /\ SumOf(LAMBDA t : t.count, a.by_rail_type) <= Cardinality(q.read["by_rail_type"])
                   /\ SameRows => \A x \in a.top_halting_rails :
                         x.rail_type # "" =>
                             \E t \in a.by_rail_type : t.rail_type = x.rail_type /\ x.halts <= t.halted
              [] OTHER -> TRUE

\* Whatever the transport, rows of a signal are shown only to a caller whose
\* credential was accepted and holds the key for that signal, or no key that the
\* server knows: an API key, which has none, and keys of scopes the server does
\* not know yet, which are dropped.
RowsNeedTheirCapability ==
    q.pc = "answered" \/ (q.pc = "end" /\ q.answer = "ok" /\ q.req.kind \in {"get_trace", "get_span", "get_log", "series"}) =>
        /\ q.req.credential.verdict = "accepted"
        /\ \/ KeyFor(SignalOf(q.req.kind)) \in q.req.credential.capability_keys
           \/ q.req.credential.capability_keys \cap KnownKeys = {}
=============================================================================
