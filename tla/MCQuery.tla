------------------------------ MODULE MCQuery ------------------------------
(***************************************************************************)
(* Rows of two workspaces around the edges that matter: two spans of one   *)
(* trace in one microsecond, a tie, a row at the cutoff, a row stamped in  *)
(* the future, another tenant, and a log and a metric.                     *)
(***************************************************************************)
EXTENDS QueryInv

Span(id, ws, ts, trace, svc, name, status) ==
    [id |-> id, workspace_id |-> ws, signal |-> "traces", timestamp |-> ts, duration |-> 1,
     trace_id |-> trace, parent_span_id |-> IF ts = 4 THEN "" ELSE "p", service_name |-> svc,
     span_name |-> name, status_code |-> status, llm_model |-> "m", agent_name |-> svc,
     total_tokens |-> ts, total_cost_usd |-> 2 * ts, span_type |-> "GUARDRAIL", rail_type |-> name,
     rail_name |-> svc, rail_stop |-> 1, copy |-> 0]
Point(id, signal, ts) ==
    [id |-> id, workspace_id |-> "w1", signal |-> signal, timestamp |-> ts, service_name |-> "a",
     trace_id |-> "none", copy |-> 0]

s1 == Span("s1", "w1", 3, "t1", "a", "x", "OK")
s2 == Span("s2", "w1", 4, "t1", "b", "y", "ERROR")
s3 == Span("s3", "w1", 5, "t2", "a", "x", "OK")
s4 == Span("s4", "w2", 4, "t1", "a", "x", "OK")
s5 == Span("s5", "w1", 7, "t3", "a", "x", "OK")
l1 == Point("l1", "logs", 2)
l2 == Point("l2", "logs", 3)
l3 == Point("l3", "logs", 5)
l4 == Point("l4", "logs", 5)
m1 == Point("m1", "metrics", 5)

MCRows == {s1, s2, s3, s4, s5, l1, l2, l3, l4, m1}
MCBatches == {{s1, s2}, {s3}, {s4}, {s5}, {l1, l3, l4}, {l2}, {m1}}

Credential(verdict, keys) == [verdict |-> verdict, workspace_id |-> "w1", capability_keys |-> keys]
ApiKey == Credential("accepted", {})

Req(kind, start, end, svc, name, status, limit) ==
    [kind |-> kind, transport |-> "http", credential |-> ApiKey, workspace_id |-> "w2",
     start |-> start, end |-> end, service_name |-> svc, span_name |-> name, status |-> status,
     min_duration |-> Unset, limit |-> limit, offset |-> 0, id |-> "t1", interval |-> 2, aggregation |-> "avg",
     metric |-> Unset, group_by |-> {}]

MCRetention == [w \in Workspaces |-> 1]

Ranges == {<<Unset, Unset>>, <<4, Unset>>, <<Unset, 4>>, <<2, 5>>}
Filters == {<<"a", Unset, Unset>>, <<Unset, "x", Unset>>, <<Unset, Unset, "ERROR">>}
Plain(kind) == Req(kind, Unset, Unset, Unset, Unset, Unset, 1)

\* Listings in every range and with every filter over HTTP; the other transport, the other
\* credentials and the odd page sizes once each.
MCRequests ==
    {Req(k, 2, 5, f[1], f[2], f[3], 1) : k \in {"traces", "spans"}, f \in Filters}
    \cup {Req(k, t[1], t[2], Unset, Unset, Unset, 1) : k \in Listings \cup {"series"}, t \in Ranges}
    \cup {Req(k, 2, 7, Unset, Unset, Unset, 1) : k \in Dashboards \ {"llm", "agents"}}
    \cup {Req(k, 4, 5, Unset, Unset, Unset, 1) : k \in {"llm", "agents"}}
    \cup {Plain(k) : k \in {"analytics", "summary", "endpoints", "errors"}}
    \cup {[Req("series", 2, 5, Unset, Unset, Unset, 1) EXCEPT !.aggregation = "count"],
          [Req("traces", 2, 5, Unset, Unset, Unset, 1) EXCEPT !.min_duration = 2],
          [Req("spans", 2, 5, Unset, Unset, Unset, 0) EXCEPT !.transport = "grpc", !.min_duration = 2],
          Req("logs", 2, 5, Unset, Unset, Unset, 0), Plain("storage"),
          [Plain("analytics") EXCEPT !.metric = "total_tokens", !.group_by = {"service_name"}],
          [Plain("analytics") EXCEPT !.group_by = {"no_such_dimension"}]}
    \cup {[Plain(k) EXCEPT !.id = i] : k \in {"get_trace", "get_span", "get_log"}, i \in {"t1", "s2", "l1"}}
    \cup {[Plain(k) EXCEPT !.transport = t, !.credential = c, !.limit = 9] :
             k \in {"spans", "get_trace", "logs", "get_log", "series", "summary"}, t \in {"http", "grpc"},
             c \in {Credential("refused", {}), Credential("unreachable", {}),
                   Credential("accepted", {"read_traces"}), Credential("accepted", {"read_logs", "read_profiles"}),
                   Credential("accepted", {"read_profiles"})}}
=============================================================================
