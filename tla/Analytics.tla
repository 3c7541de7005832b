----------------------------- MODULE Analytics -----------------------------
(***************************************************************************)
(* The aggregations behind the dashboard endpoints, as operators over a    *)
(* set of span rows: the SQL of ParquetTelemetryReader (zradar-parquet,    *)
(* telemetry_reader.rs) and the joins QueryService makes of its results    *)
(* (api, telemetry/service.rs).  A row is a record; "" is an attribute the *)
(* span does not carry.  An average is kept as the pair <<sum, number>>.   *)
(* A joined answer is made of several result sets, each over the rows of a *)
(* read of its own: `read` is the function from result set to those rows.  *)
(***************************************************************************)
EXTENDS Integers, FiniteSets, FiniteSetsExt, Functions

CONSTANT DayLen     \* nanoseconds in a day, scaled down
ASSUME DayLenAssumption == DayLen \in Nat \ {0}

Bucket(ts) == (ts \div DayLen) * DayLen

SumOf(f(_), rs) == SumFunctionOnSet([r \in rs |-> f(r)], rs)

\* ALLOWED_METRICS and ALLOWED_DIMENSIONS; any other name is an error.
Metrics == {"trace_count", "span_count", "total_tokens", "prompt_tokens", "completion_tokens", "total_cost_usd",
            "avg_duration_ms", "error_count"}
Dimensions == {"agent_name", "llm_model", "session_id", "service_name",
               "span_name", "span_type", "status_code", "agent_type"}

Aggregate(metric, rs) ==
    CASE metric = "trace_count"     -> Cardinality({r.trace_id : r \in rs})
      [] metric = "span_count"      -> Cardinality(rs)
      [] metric \in {"total_tokens", "prompt_tokens", "completion_tokens", "total_cost_usd"} ->
            SumOf(LAMBDA r : r[metric], rs)
      [] metric = "error_count"     -> Cardinality({r \in rs : r.status_code = "ERROR"})
      [] metric = "avg_duration_ms" -> <<SumOf(LAMBDA r : r.duration, rs), Cardinality(rs)>>

\* query_analytics: one point per day and combination of group values; rows
\* without one of the grouping attributes are left out.
Points(metric, dims, rs) ==
    LET grouped == {r \in rs : \A d \in dims : r[d] # ""}
        Key(r) == <<Bucket(r.timestamp), [d \in dims |-> r[d]]>>
    IN  {[bucket |-> k[1], groups |-> k[2],
          value |-> Aggregate(metric, {r \in grouped : Key(r) = k})] : k \in {Key(r) : r \in grouped}}

\* Mutant: takes the value of any group of that day.
FindGroupValueOfAny(points, g) ==
    IF points = {} THEN 0 ELSE (CHOOSE p \in points : \A x \in points : p.bucket <= x.bucket).value

\* find_group_value and its siblings: the points come back in the order of
\* their day and `find` takes the first of the group, whatever its day.
FindGroupValue(points, g) ==
    LET same == {p \in points : p.groups = g}
    IN  IF same = {} THEN 0 ELSE (CHOOSE p \in same : \A x \in same : p.bucket <= x.bucket).value

\* What each joined endpoint groups by, and the metrics it joins to the counts.
GroupBy(kind) ==
    CASE kind = "endpoints" -> {"service_name", "span_name"}
      [] kind = "llm"       -> {"llm_model"}
      [] kind = "agents"    -> {"agent_name"}
Joined(kind) ==
    CASE kind = "endpoints" -> {"avg_duration_ms", "error_count"}
      [] kind = "llm"       -> {"total_tokens", "total_cost_usd", "avg_duration_ms"}
      [] kind = "agents"    -> {"error_count", "total_tokens", "avg_duration_ms"}

\* Counts from one read, the values beside them from others.
JoinedEntries(kind, read) ==
    LET dims == GroupBy(kind)
    IN  {[bucket |-> p.bucket, groups |-> p.groups, count |-> p.value,
          other |-> [m \in Joined(kind) |-> FindGroupValue(Points(m, dims, read[m]), p.groups)]]
            : p \in Points("span_count", dims, read["span_count"])}

\* get_daily_trace_counts.
DailyTraceCounts(rs) ==
    {[day |-> Bucket(Min({r.timestamp : r \in {x \in rs : Bucket(x.timestamp) = b}})),
      value |-> Aggregate("trace_count", {r \in rs : Bucket(r.timestamp) = b})]
        : b \in {Bucket(r.timestamp) : r \in rs}}

\* get_metrics_summary: root spans only; the rate is errors / traces.
MetricsSummary(rs) ==
    LET roots == {r \in rs : r.parent_span_id = ""}
    IN  [total_traces |-> Aggregate("trace_count", roots), errors |-> Aggregate("error_count", roots)]

\* get_error_breakdown: errors by service and day, with their total.
ErrorBreakdown(rs) ==
    LET points == Points("error_count", {"service_name"},
                         {r \in rs : r.status_code = "ERROR"})
    IN  [points |-> points, total |-> SumOf(LAMBDA p : p.value, points)]

\* get_guardrails_analytics: the requests, the rails that stopped one, the stops
\* by rail type and the rails with the most stops (LIMIT 10, ties in any order),
\* four queries in this order.
RailQueries == <<"total_requests", "halted_requests", "by_rail_type", "top_halting_rails">>

Stopped(rs) == {r \in rs : r.rail_stop = 1}
RailSpans(rs) == {r \in rs : r.span_type = "GUARDRAIL"}

ByRailType(rs) ==
    LET typed(t) == {r \in RailSpans(rs) : r.rail_type = t}
    IN  {[rail_type |-> t, count |-> Cardinality(typed(t)), halted |-> Cardinality(Stopped(typed(t)))]
            : t \in {r.rail_type : r \in RailSpans(rs)} \ {""}}

ByRailName(rs) ==
    LET named(x) == {r \in RailSpans(rs) : r.rail_name = x.rail_name /\ r.rail_type = x.rail_type}
    IN  {[rail_name |-> x.rail_name, rail_type |-> x.rail_type, halts |-> Cardinality(Stopped(named(x))),
          total |-> Cardinality(named(x))] : x \in {r \in RailSpans(rs) : r.rail_name # ""}}

TopHaltingRails(rs) ==
    {X \in SUBSET ByRailName(rs) :
        /\ Cardinality(X) = Min({10, Cardinality(ByRailName(rs))})
        /\ \A x \in X, y \in ByRailName(rs) \ X : x.halts >= y.halts}

Guardrails(read, top) ==
    [total_requests |-> Cardinality({r \in RailSpans(read["total_requests"]) : r.span_name = "guardrails.request"}),
     halted_requests |-> Cardinality({r \in Stopped(RailSpans(read["halted_requests"])) : r.span_name = "guardrails.rail"}),
     by_rail_type |-> ByRailType(read["by_rail_type"]),
     top_halting_rails |-> top]
=============================================================================
