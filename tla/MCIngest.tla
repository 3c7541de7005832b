------------------------------ MODULE MCIngest ------------------------------
EXTENDS IngestInv

Attr(key, kind, v) == [key |-> key, val |-> <<kind, v>>]
S(key, v) == Attr(key, "str", v)

Span(attrs, events) ==
    [trace |-> "t1", span |-> "s1", parent |-> "0000", start |-> 3, end |-> 5, name |-> "op", kind |-> 3,
     status |-> 1, message |-> "", resource |-> <<S("service.name", "api")>>, attrs |-> attrs,
     events |-> events, links |-> <<"l1", "l2">>]
Event(name, attrs, bytes) == [name |-> name, attrs |-> attrs, bytes |-> bytes]

Request(signal, items, transport) ==
    [signal |-> signal, transport |-> transport, key |-> "good", header |-> "ok", body |-> "ok",
     resources |-> 1, scopes |-> 1, resource |-> <<S("service.name", "api")>>, items |-> items]
Traces(span) == Request("traces", <<span>>, "grpc")

\* Every way in which the attributes with the given keys are absent, name their
\* key, are empty or are no string; for counts: below, at and beyond the width.
Value(choice, key) ==
    CASE choice = "key"   -> <<"str", key>>
      [] choice = "empty" -> <<"str", "">>
      [] choice = "true"  -> <<"bool", TRUE>>
      [] choice = "three" -> <<"int", 3>>
      [] choice = "wide"  -> <<"int", MaxI32 + 2>>
      [] choice = "below" -> <<"int", -1>>
      [] choice = "text"  -> <<"str", "3">>
Attributes(keys, choices) ==
    {LET present == SelectSeq([i \in DOMAIN keys |-> <<keys[i], c[i]>>], LAMBDA p : p[2] # "absent")
     IN  [i \in DOMAIN present |-> [key |-> present[i][1], val |-> Value(present[i][2], present[i][1])]] :
        c \in [DOMAIN keys -> choices]}
Texts(keys)  == Attributes(keys, {"absent", "key", "empty", "true"})
Given(keys)  == Attributes(keys, {"absent", "key", "empty"})
Counts(keys) == Attributes(keys, {"absent", "three", "wide", "below", "text"})

Contents ==
    Texts(<<"llm.model", "gen_ai.request.model", "llm.input", "gen_ai.prompt">>)
    \cup Given(<<"gen_ai.agent.version", "agent.version", "db.query.text", "mcp.tool.input">>)
Names ==
    Texts(<<"aiq.conversation.id", "session_id", "nat.conversation.id", "gcp.vertex.agent.session_id">>)
    \cup Texts(<<"aiq.function.name", "nat.function.name", "agent.name", "gen_ai.agent.name">>)
    \cup Texts(<<"invocation_id", "invocation.id", "zradar.invocation.id", "gcp.vertex.agent.invocation_id">>)
    \cup Given(<<"tool.name", "gen_ai.tool.name", "nat.workflow.run_id", "aiq.workflow.run_id">>)
    \cup Given(<<"zradar.span.type", "rail.type", "openinference.span.kind", "gen_ai.operation.name">>)
    \cup Counts(<<"llm.usage.prompt_tokens", "gen_ai.usage.prompt_tokens", "gen_ai.usage.input_tokens">>)
    \cup {<<S("session_id", "a"), S("session_id", "b")>>,
          <<Attr("llm.cost.total_usd", "f64", "0.5"), Attr("rail.stop", "bool", TRUE), Attr("ttft_ms", "int", 2),
            Attr("time_to_first_token_ms", "int", 1), Attr("gen_ai.request.temperature", "f64", "NaN")>>}

NewToken == Event("token", <<S("nat.event_type", "LLM_NEW_TOKEN")>>, 1)
Details  == Event("gen_ai.client.inference.operation.details", <<S("gen_ai.input.messages", "m")>>, 1)
ContentEvent(v) == Event("gen_ai.content.prompt", <<S("other", "x"), S("content", v)>>, 1)
EventLists ==
    {<<NewToken, NewToken, NewToken, Event("exception", <<>>, 3)>>, <<Details, ContentEvent("c")>>,
     <<ContentEvent(""), Details>>, <<Event("big", <<>>, 9), ContentEvent("c")>>,
     <<Event("a", <<>>, 1), Event("b", <<>>, 1), Event("c", <<>>, 1), Event("d", <<>>, 1)>>}

Log(time, attrs) ==
    [time |-> time, severity_text |-> "", severity_number |-> 17, body |-> <<"int", 7>>, trace |-> "", span |-> "",
     attrs |-> attrs]
ScoredLog == Log(4, <<S("score.trace_id", "t1"), S("score.name", "n"), S("score.value", "0.5"), S("score.id", "")>>)
Point(value, count, sum) ==
    [time |-> 4, value |-> value, count |-> count, sum |-> sum, min |-> <<0, 1>>, max |-> sum,
     attrs |-> <<S("k", "v"), Attr("a", "other", "")>>]
Metric(kind, points) == [name |-> "m", kind |-> kind, points |-> points]
Histogram(kind) == Metric(kind, <<Point(Zero, 4, <<2, 1>>), Point(Zero, 0, Zero)>>)
NonFinite == Request("metrics", <<Metric("GAUGE", <<Point(<<0, 0>>, 1, Zero), Point(<<5, 1>>, 1, Zero)>>)>>, "grpc")
SmallMetric == Request("metrics", <<Metric("GAUGE", <<Point(<<5, 1>>, 1, Zero)>>)>>, "grpc")
BigMetric == Request("metrics", <<Metric("COUNTER", [i \in 1..3 |-> Point(<<i, 1>>, 1, Zero)])>>, "grpc")
Logs(transport) == Request("logs", <<Log(0, <<>>), ScoredLog>>, transport)
Plain == Span(<<S("llm.input", "p")>>, <<>>)

On == [blocked |-> FALSE, rate |-> NoLimit, capture |-> TRUE]
Off == [On EXCEPT !.capture = FALSE]
Rate(n) == [On EXCEPT !.rate = n]

OldFile(n, missing) ==
    [n |-> -n, client |-> "old", signal |-> "traces", i |-> 1, lacks |-> missing,
     row |-> [trace_id |-> "t0", session_id |-> "s", level |-> "WARN", prompt_tokens |-> 2]]
OldFiles == {OldFile(1, OptionalCols), OldFile(2, OptionalCols \ GuardrailCols),
             OldFile(3, Phase4Cols \cup AgenticCols), OldFile(4, AgenticCols)}
OldWal == <<[n |-> -5, client |-> "old", signal |-> "traces", envelope |-> "legacy", rows |-> <<[trace_id |-> "t0"]>>],
            [n |-> -6, client |-> "old", signal |-> "logs", envelope |-> "malformed", rows |-> <<>>]>>

Load(requests, states, bound, changed) ==
    [exporters |-> {"e1"}, requests |-> requests, settings |-> states, faults |-> bound, changes |-> changed, wal |-> <<>>, files |-> {}]
Alone == {[r EXCEPT !.key = "bad"] : r \in {Logs("grpc"), Logs("http")}}
         \cup {[Logs("http") EXCEPT !.header = h] : h \in {"content-type", "encoding"}}
         \cup {[Logs("http") EXCEPT !.body = b] : b \in {"slow", "large", "garbled"}}
         \cup {[r EXCEPT !.scopes = 2] : r \in {Logs("grpc"), Logs("http")}}

MCLoads ==
    {Load({Traces(Span(a, <<>>))}, {On, Off}, 0, 0) : a \in Contents}
    \cup {Load({Traces(Span(a, <<>>))}, {On}, 0, 0) : a \in Names}
    \cup {Load({Traces(Span(a, events))}, {On, Off}, 0, 0) :
              a \in {<<>>, <<S("llm.input", "i")>>, <<S("gen_ai.prompt", "")>>}, events \in EventLists}
    \cup {Load({Request("metrics", <<Histogram(k)>>, t)}, {On}, 0, 0) :
              k \in {"HISTOGRAM", "SUMMARY", "EXPONENTIAL"}, t \in {"grpc", "http"}}
    \cup {[Load({Traces(Plain)}, {On}, 1, 0) EXCEPT !.wal = OldWal, !.files = OldFiles]}
    \cup {Load({r}, {On}, 1, 0) : r \in Alone}
    \cup {Load({Logs("grpc"), Logs("http")}, {On, [On EXCEPT !.blocked = TRUE]}, 2, 1),
          Load({Traces(Plain), Request("traces", <<>>, "http")}, {On, Off, Rate(-1)}, 2, 1),
          [Load({SmallMetric, BigMetric}, {Rate(1), Rate(0)}, 1, 1) EXCEPT !.exporters = Exporters]}
MCNonFinite == {Load({NonFinite}, {On}, 0, 0)}
=============================================================================
