------------------------------ MODULE Convert ------------------------------
(***************************************************************************)
(* What the OTLP services make of one span: the view of its attributes,    *)
(* the pipeline of attribute conventions, its events and links, its type,  *)
(* the scrubbing of content, the columns of the Parquet file it is read    *)
(* back from and the fields the API shows.                                 *)
(*                                                                         *)
(* An attribute is [key, val] and a value <<kind, v>>, of kind "str",      *)
(* "int", "f64", "bool", "other" or "none"; an f64 is a name of the number *)
(* ("NaN" stands for the non-finite ones).  A row of storage is sparse: a  *)
(* function on the fields the conversion set, the others are at the        *)
(* default of the Span type.  The audit columns (created_at, updated_at,   *)
(* is_deleted) and the never set completion_start_time are left out.       *)
(***************************************************************************)
EXTENDS Integers, Sequences, SequencesExt, FiniteSetsExt, TLC

CONSTANTS
    MaxI32,        \* i32::MAX, scaled
    MaxEvents,     \* MAX_EVENTS_PER_SPAN
    MaxEventBytes, \* MAX_BYTES_PER_SPAN
    MaxLinks,      \* MAX_LINKS_PER_SPAN
    MilliLen       \* nanoseconds of the model in a millisecond

ASSUME WidthAssumption == MaxI32 \in Nat \ {0} /\ MilliLen \in Nat \ {0}

(***************************************************************************)
(* Fields and their defaults.                                              *)
(***************************************************************************)
I16Fields == {"rail_stop", "action_has_llm_calls", "llm_cache_hit", "evaluation_passed"}
I32Fields == {"prompt_tokens", "completion_tokens", "total_tokens",
              "action_llm_calls_count", "prompt_version", "time_to_first_token_ms"}
I64Fields == {"timestamp", "duration_ns", "resource_cpu_micros", "resource_memory_bytes",
              "resource_memory_peak"}
F64Fields == {"prompt_cost_usd", "completion_cost_usd", "total_cost_usd"}
JsonFields == {"events", "links", "model_parameters", "attributes"}

\* Columns a file of an earlier release may lack, oldest addition first.
GuardrailCols == {"rail_type", "rail_name", "rail_stop", "action_name",
                  "action_has_llm_calls", "action_llm_calls_count"}
Phase1Cols == {"workflow_run_id", "framework", "llm_provider", "llm_response_model", "events"}
Phase4Cols == {"llm_cache_hit", "llm_response_id", "environment", "links"}
AgenticCols == {"db_system_name", "db_namespace", "db_operation_name", "db_query_text",
    "db_query_summary", "db_collection_name", "db_response_status_code", "agent_id",
    "agent_description", "agent_task_id", "agent_task_parent_id", "agent_task_name",
    "agent_task_kind", "agent_task_state", "agent_task_status", "memory_type", "memory_key",
    "mcp_tool_name", "mcp_server_name", "mcp_tool_input", "mcp_tool_output",
    "evaluation_name", "evaluation_explanation", "evaluation_passed"}
OptionalCols == GuardrailCols \cup Phase1Cols \cup Phase4Cols \cup AgenticCols
                \cup {"prompt_id", "prompt_name"}
RequiredCols == I64Fields \cup F64Fields \cup {"model_parameters", "attributes"}
    \cup (I32Fields \ GuardrailCols)
    \cup {"trace_id", "span_id", "parent_span_id", "workspace_id", "service_name", "span_name",
          "span_kind", "span_type", "status_code", "status_message", "invocation_id",
          "session_id", "user_id", "agent_name", "agent_type", "llm_model", "llm_input",
          "llm_output", "tool_name", "tool_call_id", "agent_version", "sdk_version", "level"}
Columns == RequiredCols \cup OptionalCols

\* Flags that are unknown (-1) until they are set.
TriState == {"llm_cache_hit", "evaluation_passed"}

\* impl Default for Span.
Default(f) ==
    CASE f \in TriState -> -1
      [] f \in (I16Fields \cup I32Fields \cup I64Fields) \ TriState -> 0
      [] f \in F64Fields     -> "0.0"
      [] f \in JsonFields    -> <<>>
      [] f = "span_kind"     -> "INTERNAL"
      [] f = "span_type"     -> "SPAN"
      [] f = "status_code"   -> "UNSET"
      [] f = "level"         -> "INFO"
      [] OTHER               -> ""

Field(row, f) == IF f \in DOMAIN row THEN row[f] ELSE Default(f)

(***************************************************************************)
(* AttrView: of several attributes with one key the last counts.           *)
(***************************************************************************)
Indices(attrs, key) == {i \in DOMAIN attrs : attrs[i].key = key}
HasKey(attrs, key) == Indices(attrs, key) # {}
NoValue == <<"none", "">>
Get(attrs, key) == IF HasKey(attrs, key) THEN attrs[Max(Indices(attrs, key))].val ELSE NoValue
HasPrefix(attrs, keys) == \E i \in DOMAIN attrs : attrs[i].key \in keys /\ attrs[i].val # NoValue

\* The fields of a table from field to key whose attribute has the kind.
Typed(attrs, kind, table) ==
    [f \in {g \in DOMAIN table : Get(attrs, table[g])[1] = kind} |-> Get(attrs, table[f])[2]]
Strs(attrs, table)   == Typed(attrs, "str", table)
Ints(attrs, table)   == Typed(attrs, "int", table)
Floats(attrs, table) == Typed(attrs, "f64", table)
Mapped(Op(_), r)     == [f \in DOMAIN r |-> Op(r[f])]
\* bool stored as SMALLINT.
Bits(attrs, table) == LET Bit(b) == IF b THEN 1 ELSE 0 IN Mapped(Bit, Typed(attrs, "bool", table))
\* get_u64: a negative value is no value.
Unsigned(attrs, table) ==
    LET r == Ints(attrs, table) IN [f \in {g \in DOMAIN r : r[g] >= 0} |-> r[f]]

\* The casts to i32: `as` wraps, min and clamp saturate.
Wrapped(n)   == ((n + MaxI32 + 1) % (2 * (MaxI32 + 1))) - (MaxI32 + 1)
Saturated(n) == IF n > MaxI32 THEN MaxI32 ELSE n
Clamped(n)   == IF n < -MaxI32 - 1 THEN -MaxI32 - 1 ELSE Saturated(n)

\* upd where the field of the row is still empty.
WhereEmpty(row, upd) == [f \in {g \in DOMAIN upd : Field(row, g) = ""} |-> upd[f]] @@ row

(***************************************************************************)
(* The conventions.  `a @@ row` overwrites the fields of a.                *)
(***************************************************************************)
Guardrails(attrs, row) ==
    Strs(attrs, [rail_type |-> "rail.type", rail_name |-> "rail.name", action_name |-> "action.name"])
    @@ Bits(attrs, [rail_stop |-> "rail.stop", action_has_llm_calls |-> "action.has_llm_calls",
                    llm_cache_hit |-> "llm.cache.hit"])
    @@ Mapped(Clamped, Ints(attrs, [action_llm_calls_count |-> "action.llm_calls_count"]))
    @@ row

Agent(attrs, row) ==
    Strs(attrs, [invocation_id |-> "zradar.invocation.id", agent_name |-> "gen_ai.agent.name"])
    @@ Strs(attrs, [invocation_id |-> "invocation.id", agent_name |-> "agent.name"])
    @@ Strs(attrs, [invocation_id |-> "invocation_id"])
    @@ Strs(attrs, [session_id |-> "session_id", user_id |-> "user_id",
                    agent_id |-> "gen_ai.agent.id", agent_version |-> "gen_ai.agent.version",
                    agent_description |-> "gen_ai.agent.description", agent_type |-> "agent.type"])
    @@ row

GenAiTask(attrs, row) ==
    Strs(attrs, [agent_task_id |-> "gen_ai.task.id", agent_task_parent_id |-> "gen_ai.task.parent.id",
                 agent_task_name |-> "gen_ai.task.name", agent_task_kind |-> "gen_ai.task.kind",
                 agent_task_state |-> "gen_ai.task.state", agent_task_status |-> "gen_ai.task.status"])
    @@ row

GenAiMemory(attrs, row) ==
    Strs(attrs, [memory_type |-> "gen_ai.memory.type", memory_key |-> "gen_ai.memory.key"]) @@ row

GenAiEvaluation(attrs, row) ==
    Strs(attrs, [evaluation_name |-> "gen_ai.evaluation.name",
                 evaluation_explanation |-> "gen_ai.evaluation.explanation"])
    @@ Bits(attrs, [evaluation_passed |-> "gen_ai.evaluation.passed"])
    @@ row

Vertex(attrs, row) ==
    Strs(attrs, [invocation_id |-> "gcp.vertex.agent.invocation_id",
                 session_id |-> "gcp.vertex.agent.session_id"]) @@ row

Llm(attrs, row) ==
    Strs(attrs, [llm_model |-> "llm.model", llm_input |-> "llm.input", llm_output |-> "llm.output"])
    @@ Mapped(Wrapped, Unsigned(attrs, [prompt_tokens |-> "llm.usage.prompt_tokens",
                                        completion_tokens |-> "llm.usage.completion_tokens",
                                        total_tokens |-> "llm.usage.total_tokens"]))
    @@ Floats(attrs, [total_cost_usd |-> "llm.cost.total_usd", prompt_cost_usd |-> "llm.cost.prompt_usd",
                      completion_cost_usd |-> "llm.cost.completion_usd"])
    @@ row

GenAiV129(attrs, row) ==
    Mapped(Saturated, Unsigned(attrs, [prompt_tokens |-> "gen_ai.usage.input_tokens",
                                       completion_tokens |-> "gen_ai.usage.output_tokens"]))
    @@ Strs(attrs, [llm_response_model |-> "gen_ai.response.model",
                    llm_provider |-> "gen_ai.provider.name", llm_response_id |-> "gen_ai.response.id"])
    @@ row

\* The older token counts stand only where the newer key is not there at all.
GenAiLegacy(attrs, row) ==
    LET newer == [prompt_tokens |-> "gen_ai.usage.input_tokens",
                  completion_tokens |-> "gen_ai.usage.output_tokens"]
        older == Mapped(Saturated, Unsigned(attrs, [prompt_tokens |-> "gen_ai.usage.prompt_tokens",
                                                    completion_tokens |-> "gen_ai.usage.completion_tokens"]))
    IN  Strs(attrs, [llm_model |-> "gen_ai.request.model", llm_input |-> "gen_ai.prompt",
                     llm_output |-> "gen_ai.completion"])
        @@ [f \in {g \in DOMAIN older : ~HasKey(attrs, newer[g])} |-> older[f]]
        @@ row

NatConv(attrs, row) ==
    Strs(attrs, [workflow_run_id |-> "nat.workflow.run_id", framework |-> "nat.framework"])
    @@ WhereEmpty(row, Strs(attrs, [session_id |-> "nat.conversation.id", agent_name |-> "nat.function.name"]))

\* Mutant: the conversation id is taken without looking at the field.
AiqOverwrites(attrs, row) ==
    Strs(attrs, [workflow_run_id |-> "aiq.workflow.run_id", framework |-> "aiq.framework",
                 session_id |-> "aiq.conversation.id"])
    @@ WhereEmpty(row, Strs(attrs, [agent_name |-> "aiq.function.name"]))

Aiq(attrs, row) ==
    Strs(attrs, [workflow_run_id |-> "aiq.workflow.run_id", framework |-> "aiq.framework"])
    @@ WhereEmpty(row, Strs(attrs, [session_id |-> "aiq.conversation.id", agent_name |-> "aiq.function.name"]))

Db(attrs, row) ==
    Strs(attrs, [db_system_name |-> "db.system.name", db_namespace |-> "db.namespace",
                 db_operation_name |-> "db.operation.name", db_query_text |-> "db.query.text",
                 db_query_summary |-> "db.query.summary", db_collection_name |-> "db.collection.name",
                 db_response_status_code |-> "db.response.status_code"]) @@ row

Mcp(attrs, row) ==
    Strs(attrs, [mcp_tool_name |-> "mcp.tool.name", mcp_server_name |-> "mcp.server.name",
                 mcp_tool_input |-> "mcp.tool.input", mcp_tool_output |-> "mcp.tool.output"]) @@ row

Tool(attrs, row) ==
    Strs(attrs, [tool_name |-> "gen_ai.tool.name", tool_call_id |-> "gen_ai.tool.call.id"])
    @@ Strs(attrs, [tool_name |-> "tool.name", tool_call_id |-> "tool.call.id"])
    @@ row

Prompt(attrs, row) ==
    Strs(attrs, [prompt_id |-> "prompt.id", prompt_name |-> "prompt.name"])
    @@ Mapped(Wrapped, Unsigned(attrs, [prompt_version |-> "prompt.version"]))
    @@ row

Resource(attrs, row) ==
    Ints(attrs, [resource_cpu_micros |-> "resource.cpu.micros",
                 resource_memory_bytes |-> "resource.memory.bytes",
                 resource_memory_peak |-> "resource.memory.peak"])
    @@ Mapped(Wrapped, Unsigned(attrs, [time_to_first_token_ms |-> "ttft_ms"]))
    @@ Mapped(Wrapped, Unsigned(attrs, [time_to_first_token_ms |-> "time_to_first_token_ms"]))
    @@ Strs(attrs, [agent_version |-> "agent.version", sdk_version |-> "sdk.version", level |-> "level"])
    @@ row

\* JSON of a value: a non-finite number is null.
Json(val) == IF val \in {<<"f64", "NaN">>} THEN NoValue ELSE val

SamplingParams(attrs, row) ==
    LET floats == Floats(attrs, [temperature |-> "gen_ai.request.temperature",
                     top_p |-> "gen_ai.request.top_p",
                     frequency_penalty |-> "gen_ai.request.frequency_penalty",
                     presence_penalty |-> "gen_ai.request.presence_penalty"])
        ints   == Ints(attrs, [top_k |-> "gen_ai.request.top_k",
                     max_tokens |-> "gen_ai.request.max_tokens", seed |-> "gen_ai.request.seed"])
        strs   == Strs(attrs, [stop_sequences |-> "gen_ai.request.stop_sequences"])
        params == [p \in DOMAIN floats |-> Json(<<"f64", floats[p]>>)]
                  @@ [p \in DOMAIN ints |-> <<"int", ints[p]>>] @@ [p \in DOMAIN strs |-> <<"str", strs[p]>>]
    IN  IF DOMAIN params = {} THEN row ELSE [model_parameters |-> params] @@ row

\* default_conventions, the first to run innermost; the OpenInference one does nothing.
Conventions(attrs, row) ==
    SamplingParams(attrs, Resource(attrs, Prompt(attrs, Tool(attrs, Mcp(attrs, Db(attrs,
    Aiq(attrs, NatConv(attrs, GenAiLegacy(attrs, GenAiV129(attrs, Llm(attrs, Vertex(attrs,
    GenAiEvaluation(attrs, GenAiMemory(attrs, GenAiTask(attrs, Agent(attrs,
    Guardrails(attrs, row)))))))))))))))))

(***************************************************************************)
(* Events and links.  An event is [name, attrs, bytes].                    *)
(***************************************************************************)
IsNewToken(event) ==
    \E i \in DOMAIN event.attrs :
        event.attrs[i].key = "nat.event_type" /\ event.attrs[i].val = <<"str", "LLM_NEW_TOKEN">>

\* The first attribute that holds a string, preferring the content keys.
EventBody(event) ==
    LET strs == {i \in DOMAIN event.attrs : event.attrs[i].val[1] = "str"}
        best == {i \in strs : event.attrs[i].key \in {"content", "gen_ai.content"}}
    IN  IF best # {} THEN event.attrs[Min(best)].val[2]
        ELSE IF strs # {} THEN event.attrs[Min(strs)].val[2] ELSE ""

\* Messages are kept as JSON text, here the text of a quoted string.
MessagesOf(event, key) ==
    LET is == {i \in DOMAIN event.attrs : event.attrs[i].key = key}
    IN  IF is = {} THEN "" ELSE "json:" \o event.attrs[Min(is)].val[2]

ContentEvents == {"gen_ai.content.prompt", "gen_ai.content.completion",
                  "gen_ai.client.inference.operation.details"}
Promoted(event) ==
    CASE event.name = "gen_ai.content.prompt"     -> [llm_input |-> EventBody(event)]
      [] event.name = "gen_ai.content.completion" -> [llm_output |-> EventBody(event)]
      [] OTHER -> [llm_input |-> MessagesOf(event, "gen_ai.input.messages"),
                   llm_output |-> MessagesOf(event, "gen_ai.output.messages")]

\* One turn of the loop over the events; `full` once the byte budget is spent.
ApplyEvent(acc, event) ==
    IF acc.full THEN acc
    ELSE IF event.name \in ContentEvents
         THEN [acc EXCEPT !.row = WhereEmpty(acc.row, Promoted(event))]
    ELSE IF acc.bytes + event.bytes > MaxEventBytes
         THEN [acc EXCEPT !.full = TRUE]
    ELSE [acc EXCEPT !.bytes = @ + event.bytes, !.kept = Append(@, event.name)]

\* Token noise is dropped before the cap counts.
SpanEvents(events, row) ==
    LET meaningful == SelectSeq(events, LAMBDA e : ~IsNewToken(e))
        taken == SubSeq(meaningful, 1, Min({Len(meaningful), MaxEvents}))
        acc   == FoldLeft(ApplyEvent, [row |-> row, kept |-> <<>>, bytes |-> 2, full |-> FALSE], taken)
        kept  == acc.kept \o (IF acc.full THEN <<"events.truncated">> ELSE <<>>)
    IN  IF kept = <<>> THEN acc.row ELSE [events |-> kept] @@ acc.row

SpanLinks(links, row) ==
    IF links = <<>> THEN row
    ELSE [links |-> SubSeq(links, 1, Min({Len(links), MaxLinks}))
                    \o (IF Len(links) > MaxLinks THEN <<"links.truncated">> ELSE <<>>)] @@ row

(***************************************************************************)
(* SpanTypeMapper: the first rule that applies.                            *)
(***************************************************************************)
\* The keys of the model that start with "db." and with "rail.".
DbKeys   == {"db.system.name", "db.namespace", "db.operation.name", "db.query.text", "db.query.summary",
             "db.collection.name", "db.response.status_code", "db.statement"}
RailKeys == {"rail.type", "rail.name", "rail.stop"}
Str(attrs, key) == IF Get(attrs, key)[1] = "str" THEN Get(attrs, key)[2] ELSE ""
HasStr(attrs, key) == Get(attrs, key)[1] = "str"
Upper(s) == LET t == [llm |-> "LLM", tool |-> "TOOL", agent |-> "AGENT", chain |-> "CHAIN"]
            IN  IF s \in DOMAIN t THEN t[s] ELSE s
OpenInferenceType(kind) ==
    IF kind = "LLM" THEN "GENERATION"
    ELSE IF kind \in {"CHAIN", "RETRIEVER", "EMBEDDING", "AGENT", "TOOL", "GUARDRAIL", "EVALUATOR", "RERANKER"}
         THEN kind ELSE "SPAN"
OperationType(op) ==
    CASE op \in {"chat", "completion", "generate_content", "generate"} -> "GENERATION"
      [] op = "embeddings"                       -> "EMBEDDING"
      [] op \in {"invoke_agent", "create_agent"} -> "AGENT"
      [] op = "execute_tool"                     -> "TOOL"
      [] OTHER                                   -> "SPAN"
HasModelInfo(attrs) ==
    \E k \in {"gen_ai.request.model", "gen_ai.response.model", "llm.model", "ai.model.id"} : HasKey(attrs, k)
IsGuardrails(attrs, name, service) ==
    \/ name = "guardrails.rail"
    \/ Str(attrs, "gen_ai.operation.name") = "guardrails"
    \/ HasPrefix(attrs, RailKeys)
    \/ HasKey(attrs, "action.name") /\ service = "nemo_guardrails"

DetectType(attrs, duration, name, service) ==
    LET vercel == IF HasStr(attrs, "operation.name") THEN Str(attrs, "operation.name")
                  ELSE Str(attrs, "ai.operationId")
        rules == <<
            <<HasStr(attrs, "zradar.span.type"), Upper(Str(attrs, "zradar.span.type"))>>,
            <<IsGuardrails(attrs, name, service), "GUARDRAIL">>,
            <<HasStr(attrs, "openinference.span.kind"),
              OpenInferenceType(Upper(Str(attrs, "openinference.span.kind")))>>,
            <<HasStr(attrs, "gen_ai.operation.name"), OperationType(Str(attrs, "gen_ai.operation.name"))>>,
            <<vercel \in {"ai.generateText", "ai.streamText"} /\ HasModelInfo(attrs), "GENERATION">>,
            <<vercel = "ai.embed" /\ HasModelInfo(attrs), "EMBEDDING">>,
            <<vercel = "ai.toolCall", "TOOL">>,
            <<HasPrefix(attrs, DbKeys), "DATABASE">>,
            <<HasModelInfo(attrs), "GENERATION">>,
            <<HasKey(attrs, "gen_ai.evaluation.name"), "EVALUATOR">>,
            <<\E k \in {"tool.name", "gen_ai.tool.name", "mcp.tool.name"} : HasKey(attrs, k), "TOOL">>,
            <<\E k \in {"agent.name", "agent.type"} : HasKey(attrs, k), "AGENT">>,
            <<duration = 0, "EVENT">>,
            <<TRUE, "SPAN">>>>
    IN  rules[Min({i \in DOMAIN rules : rules[i][1]})][2]

(***************************************************************************)
(* The whole span.                                                         *)
(***************************************************************************)
\* extract_resource_string: the first attribute with the key, if a non-empty string.
ResourceStr(attrs, key, otherwise) ==
    LET is == Indices(attrs, key)
        v  == attrs[Min(is)].val
    IN  IF is # {} /\ v[1] = "str" /\ v[2] # "" THEN v[2] ELSE otherwise

\* An absent and an all-zero parent are both a root.
NormalizeParent(parent) == IF parent = "0000" THEN "" ELSE parent

ContentKeys == {"gen_ai.content.prompt", "llm.input", "llm.output", "gen_ai.prompt",
                "gen_ai.completion", "db.statement", "db.query.text", "mcp.tool.input", "mcp.tool.output"}
ContentFields == {"llm_input", "llm_output", "db_query_text", "mcp_tool_input", "mcp_tool_output"}

\* attrs_to_json_filtered: of several values of a key the last.
AttrsJson(attrs, skipped) ==
    LET kept == SelectSeq(attrs, LAMBDA a : a.key \notin skipped /\ a.val # NoValue)
    IN  [k \in {kept[i].key : i \in DOMAIN kept} |-> Json(Get(kept, k))]

\* What remains of a row of a workspace that does not capture content.
Scrubbed(row) ==
    [f \in DOMAIN row \cup ContentFields \cup {"events"} |->
        IF f \in ContentFields THEN ""
        ELSE IF f = "events" THEN SelectSeq(Field(row, "events"), LAMBDA e : e \notin ContentEvents)
        ELSE row[f]]

KindName(kind) == IF kind \in 1..5 THEN <<"INTERNAL", "SERVER", "CLIENT", "PRODUCER", "CONSUMER">>[kind]
                  ELSE "UNSPECIFIED"
StatusName(code) == IF code \in 1..2 THEN <<"OK", "ERROR">>[code] ELSE "UNSET"

ConvertSpan(s, workspace, capture) ==
    LET duration == IF s.end < s.start THEN 0 ELSE s.end - s.start
        service  == ResourceStr(s.resource, "service.name", "unknown")
        basic    == [trace_id |-> s.trace, span_id |-> s.span, parent_span_id |-> NormalizeParent(s.parent),
                     timestamp |-> s.start, duration_ns |-> duration, workspace_id |-> workspace,
                     service_name |-> service, span_name |-> s.name,
                     environment |-> ResourceStr(s.resource, "deployment.environment", "")]
        filled   == SpanLinks(s.links, SpanEvents(s.events, Conventions(s.attrs, basic)))
        row      == [span_type |-> DetectType(s.attrs, duration, s.name, service),
                     span_kind |-> KindName(s.kind), status_code |-> StatusName(s.status), status_message |-> s.message,
                     attributes |-> AttrsJson(s.attrs, IF capture THEN {} ELSE ContentKeys)] @@ filled
    IN  IF capture THEN row ELSE Scrubbed(row)

(***************************************************************************)
(* Files: all columns are written; a file that is read has all required    *)
(* columns and may lack optional ones. The files a query lists are read as *)
(* one table with one schema.                                              *)
(***************************************************************************)
SpanBatch(row) == [f \in DOMAIN row \cap Columns |-> row[f]]

\* The schemas the table over these files may get, depending on the files it
\* is inferred from: all of them, or the one looked at first.
TableSchemas(files) ==
    {UNION {Columns \ p.lacks : p \in files}} \cup {Columns \ p.lacks : p \in files}

\* Mutant: a flag that a file does not know reads as a miss.
ReadDefaultMiss(f) ==
    CASE f \in TriState \cup {"rail_stop", "action_has_llm_calls", "action_llm_calls_count"} -> 0
      [] f \in {"events", "links"} -> <<>>
      [] OTHER -> ""

\* A column the table has not, and a null: a column that only the file has not.
ReadDefault(f) ==
    CASE f \in TriState -> -1
      [] f \in {"rail_stop", "action_has_llm_calls", "action_llm_calls_count"} -> 0
      [] f \in {"events", "links"} -> <<>>
      [] OTHER -> ""

ReadNull(f) ==
    CASE f \in I16Fields \cup I32Fields -> 0
      [] f \in {"events", "links"} -> <<>>
      [] OTHER -> ""

ReadFails(table) == ~(RequiredCols \subseteq table)
ReadSpan(file, table) ==
    [f \in Columns |-> IF f \notin table THEN ReadDefault(f)
                       ELSE IF f \in file.lacks THEN ReadNull(f)
                       ELSE Field(file.row, f)]

(***************************************************************************)
(* SpanDetail: an optional field that holds its default is absent.         *)
(***************************************************************************)
HiddenFields == {"workspace_id", "span_kind", "status_message", "invocation_id", "user_id", "level",
    "resource_cpu_micros", "resource_memory_bytes", "resource_memory_peak", "prompt_id", "prompt_name",
    "prompt_version", "time_to_first_token_ms", "action_has_llm_calls", "action_llm_calls_count"}
AlwaysShown == {"trace_id", "span_id", "service_name", "span_name", "span_type", "timestamp",
                "duration_ns", "status_code", "attributes"}

Shows(row, f) == f \notin HiddenFields /\ (f \in AlwaysShown \/ row[f] # Default(f))
ShowSpan(row) ==
    [f \in {g \in Columns : Shows(row, g)} |-> IF f = "duration_ns" THEN row[f] \div MilliLen ELSE row[f]]
=============================================================================
