------------------------------- MODULE Ingest -------------------------------
(***************************************************************************)
(* An export on its way from an exporter to Parquet: the checks of the     *)
(* gRPC and HTTP services in their order, the workspace settings and the   *)
(* token bucket, the append of its rows to the WAL, the answer and what    *)
(* the exporter does with it, and the sink that parses the rows of the WAL *)
(* and hands them to the Parquet writer.  The WAL itself is Wal, the       *)
(* writer Buffer; here an append is one step and a crash of the process    *)
(* loses only what was in memory.                                          *)
(***************************************************************************)
EXTENDS Signals, FiniteSets

CONSTANTS
    Exporters,
    Loads,        \* the workloads: exporters, requests, settings, files and WAL found, faults, changes
    MaxGroups,    \* MAX_RESOURCE_GROUPS_PER_REQUEST, MAX_SCOPE_GROUPS_PER_REQUEST
    MaxRecords,   \* MAX_RECORDS_PER_REQUEST
    Now           \* the time of the clock

\* An export is of one of the three OTLP signals; a log has a time (zero when
\* unset) and a severity number.  The WAL and the files found at the start hold
\* no rows of this run's exports, and files lack only optional columns.
ASSUME LoadsAssumption ==
    /\ Now \in Nat \ {0}
    /\ \A l \in Loads :
        /\ \A req \in l.requests :
              /\ req.signal \in {"traces", "metrics", "logs"}
              /\ req.signal = "logs" =>
                    \A i \in DOMAIN req.items : req.items[i].time \in Nat /\ req.items[i].severity_number \in Int
        /\ \A s \in l.settings : s.capture \in BOOLEAN
        /\ l.wal \in Seq(Range(l.wal))
        /\ \A r \in Range(l.wal) : r.client \notin Exporters
        /\ \A p \in l.files : p.client \notin Exporters /\ p.lacks \subseteq OptionalCols

VARIABLES
    load,      \* the workload of this behaviour
    client,    \* Exporters -> the export each has under way
    settings,  \* [blocked, rate, capture] of the workspace
    bucket,    \* the workspace's TokenBucket, or none yet
    wal,       \* the records of the WAL that are not flushed
    parquet,   \* the rows in Parquet files
    appended,  \* number of records appended
    faults,    \* faults so far
    changes    \* changes of the settings so far

vars == <<load, client, settings, bucket, wal, parquet, appended, faults, changes>>
stored == <<wal, parquet, appended>>

NoLimit == -9        \* max_ingestion_rate is None
NoBucket == [tokens |-> -1, elapsed |-> 0]
FullAfter == 2       \* seconds in which a bucket fills up
Workspace == "w1"

Init ==
    /\ load \in Loads
    /\ client = [e \in Exporters |-> [pc |-> "idle", req |-> <<>>, seen |-> {}, rows |-> <<>>,
                                      scores |-> <<>>, open |-> 0, answer |-> "none"]]
    /\ settings \in load.settings
    /\ bucket = NoBucket
    /\ wal = load.wal /\ parquet = load.files /\ appended = 0
    /\ faults = 0 /\ changes = 0

(***************************************************************************)
(* Answers.                                                                *)
(***************************************************************************)
Status(code, info) == [code |-> code, info |-> info]
Unavailable == Status("UNAVAILABLE", TRUE)

\* status_to_response, and the responses the HTTP handlers give themselves.
HttpCode(code) ==
    LET t == [OK |-> "200", INVALID_ARGUMENT |-> "400", UNAUTHENTICATED |-> "401", PERMISSION_DENIED |-> "403",
              RESOURCE_EXHAUSTED |-> "429", UNAVAILABLE |-> "503", INTERNAL |-> "500"]
    IN  IF code \in DOMAIN t THEN t[code] ELSE code
AnswerTo(req, status) ==
    IF req.transport = "grpc" THEN status ELSE Status(HttpCode(status.code), status.info)

\* What an OTLP exporter sends again.
Retryable(answer) ==
    \/ answer.code \in {"UNAVAILABLE", "DEADLINE_EXCEEDED", "429", "502", "503", "504"}
    \/ answer.code = "RESOURCE_EXHAUSTED" /\ answer.info

\* Answers that leave open whether the rows are stored.
Accepting == {"OK", "200", "INTERNAL", "500"}

Answered(c, status) ==
    LET answer == AnswerTo(c.req, status)
    IN  [c EXCEPT !.pc = IF Retryable(answer) THEN "retry" ELSE "done", !.answer = answer.code,
                  !.open = IF answer.code \in Accepting THEN @ + 1 ELSE @]

\* The connection ends before an answer: the exporter tries again.
Reset(c) == [c EXCEPT !.pc = "retry", !.answer = "reset", !.open = @ + 1]

\* The handler is dropped at its deadline: whatever it had appended stays.
TimedOut(c) ==
    [c EXCEPT !.pc = "retry", !.answer = IF c.req.transport = "grpc" THEN "DEADLINE_EXCEEDED" ELSE "504",
              !.open = IF c.pc = "syncing" THEN @ + 1 ELSE @]

InFlight(c) == c.pc \notin {"idle", "done"}

(***************************************************************************)
(* The exporter.                                                           *)
(***************************************************************************)
Submit(e) ==
    /\ e \in load.exporters /\ client[e].pc = "idle"
    /\ \E req \in load.requests :
          client' = [client EXCEPT ![e].pc = "sent", ![e].req = req, ![e].seen = {settings.capture}]
    /\ UNCHANGED <<load, settings, bucket, wal, parquet, appended, faults, changes>>

Retry(e) ==
    /\ client[e].pc = "retry"
    /\ client' = [client EXCEPT ![e].pc = "sent"]
    /\ UNCHANGED <<load, settings, bucket, wal, parquet, appended, faults, changes>>

(***************************************************************************)
(* The checks before the workspace settings.  `env` is what the services   *)
(* the checks call answer.                                                 *)
(***************************************************************************)
Calm == [auth |-> "up", breaker |-> "closed", policy |-> "allow"]
Environments ==
    {Calm} \cup {[Calm EXCEPT !.auth = "down"], [Calm EXCEPT !.breaker = "open"],
                 [Calm EXCEPT !.policy = "throttle"], [Calm EXCEPT !.policy = "block"]}

Authenticate(req, env) ==
    <<<<req.key = "bad", Status("UNAUTHENTICATED", FALSE)>>, <<env.auth = "down", Unavailable>>>>
CheckBreaker(env) == <<<<env.breaker = "open", Unavailable>>>>
OverCaps(req) == req.resources > MaxGroups \/ req.scopes > MaxGroups \/ Len(req.items) > MaxRecords
EnforcePolicy(env) ==
    <<<<env.policy = "throttle", Status("RESOURCE_EXHAUSTED", TRUE)>>,
      <<env.policy = "block", Status("RESOURCE_EXHAUSTED", FALSE)>>>>

CheckHeaders(req) ==
    <<<<req.header = "content-type", Status("415", FALSE)>>, <<req.header = "encoding", Status("415", FALSE)>>>>
DecodeBody(req) ==
    <<<<req.body = "slow", Status("408", FALSE)>>, <<req.body = "large", Status("413", FALSE)>>,
      <<req.body = "garbled", Status("400", FALSE)>>>>

Checks(req, env) ==
    IF req.transport = "grpc"
    THEN Authenticate(req, env) \o CheckBreaker(env)
         \o <<<<OverCaps(req), Status("RESOURCE_EXHAUSTED", FALSE)>>>> \o EnforcePolicy(env)
    ELSE CheckHeaders(req) \o Authenticate(req, env) \o CheckBreaker(env) \o DecodeBody(req)
         \o <<<<OverCaps(req), Status("413", FALSE)>>>> \o EnforcePolicy(env)

Screen(e) ==
    /\ client[e].pc = "sent"
    /\ \E env \in Environments :
          LET checks  == Checks(client[e].req, env)
              failing == {i \in DOMAIN checks : checks[i][1]}
          IN  /\ env # Calm => faults < load.faults
              /\ faults' = IF env = Calm THEN faults ELSE faults + 1
              /\ client' = [client EXCEPT ![e] =
                               IF failing = {} THEN [@ EXCEPT !.pc = "screened"]
                               ELSE Answered(@, checks[Min(failing)][2])]
    /\ UNCHANGED <<load, settings, bucket, stored, changes>>

\* The body of a request refused by its headers is not drained: the exporter
\* sees a reset instead of the refusal.
Undrained(e) ==
    /\ client[e].pc = "sent" /\ client[e].req.transport = "http" /\ faults < load.faults
    /\ client[e].req.header # "ok" \/ client[e].req.key = "bad"
    /\ client' = [client EXCEPT ![e].pc = "retry", ![e].answer = "reset"]
    /\ faults' = faults + 1
    /\ UNCHANGED <<load, settings, bucket, stored, changes>>

(***************************************************************************)
(* Workspace settings and the token bucket.                                *)
(***************************************************************************)
Records(req) ==
    IF req.signal = "metrics"
    THEN FoldLeft(LAMBDA n, m : n + Len(m.points), 0, req.items)
    ELSE Len(req.items)

Capacity(limit) == 2 * limit
Refilled(limit) ==
    IF bucket = NoBucket THEN Capacity(limit)
    ELSE Min({bucket.tokens + bucket.elapsed * limit, Capacity(limit)})

\* Mutant: every request over the limit is told to come back.
RateLimitedAlways(limit, records) == Status("RESOURCE_EXHAUSTED", TRUE)

\* A request that fits a full bucket can succeed later, a larger one never.
RateLimited(limit, records) == Status("RESOURCE_EXHAUSTED", limit > 0 /\ records <= Capacity(limit))

\* check_and_record and what follows: the bucket after it and the refusal, if any.
Limiter(limit, records) ==
    LET tokens == Refilled(limit)
    IN  IF limit < 0 THEN [bucket |-> bucket, refusal |-> {Status("INVALID_ARGUMENT", FALSE)}]
        ELSE IF limit = 0 THEN [bucket |-> bucket, refusal |-> {RateLimited(limit, records)}]
        ELSE IF tokens < records
             THEN [bucket |-> [tokens |-> tokens, elapsed |-> 0], refusal |-> {RateLimited(limit, records)}]
        ELSE [bucket |-> [tokens |-> tokens - records, elapsed |-> 0], refusal |-> {}]

Rows(req, capture) ==
    CASE req.signal = "traces"  -> [i \in DOMAIN req.items |-> ConvertSpan(req.items[i], Workspace, capture)]
      [] req.signal = "logs"    -> [i \in DOMAIN req.items |-> ConvertLog(req.items[i], req.resource, Workspace, Now)]
      [] req.signal = "metrics" -> FoldLeft(LAMBDA rows, m : rows \o ConvertMetric(m, req.resource, Workspace),
                                            <<>>, req.items)

Scores(req) ==
    LET logs == SelectSeq(req.items, HasScore)
    IN  IF req.signal = "logs" THEN [i \in DOMAIN logs |-> ParseScore(logs[i], Workspace, Now)] ELSE <<>>

\* An accepted request is converted at once, with the settings just read.
EnforceSettings(e) ==
    /\ client[e].pc = "screened"
    /\ LET checked == IF settings.blocked
                      THEN [bucket |-> bucket, refusal |-> {Status("PERMISSION_DENIED", FALSE)}]
                      ELSE IF settings.rate = NoLimit THEN [bucket |-> bucket, refusal |-> {}]
                      ELSE Limiter(settings.rate, Records(client[e].req))
       IN  /\ bucket' = checked.bucket
           /\ client' = [client EXCEPT ![e] =
                            IF checked.refusal = {}
                            THEN [@ EXCEPT !.pc = "accepted", !.rows = Rows(client[e].req, settings.capture),
                                           !.scores = Scores(client[e].req)]
                            ELSE Answered(@, CHOOSE s \in checked.refusal : TRUE)]
    /\ UNCHANGED <<load, settings, stored, faults, changes>>

SettingsFail(e) ==
    /\ client[e].pc = "screened" /\ faults < load.faults
    /\ client' = [client EXCEPT ![e] = Answered(@, Status("INTERNAL", FALSE))]
    /\ faults' = faults + 1
    /\ UNCHANGED <<load, settings, bucket, stored, changes>>

Tick ==
    /\ bucket # NoBucket /\ bucket.elapsed < FullAfter
    /\ bucket' = [bucket EXCEPT !.elapsed = @ + 1]
    /\ UNCHANGED <<load, client, settings, stored, faults, changes>>

ChangeSettings ==
    /\ changes < load.changes /\ changes' = changes + 1
    /\ settings' \in load.settings \ {settings}
    /\ client' = [e \in Exporters |->
                     IF InFlight(client[e]) THEN [client[e] EXCEPT !.seen = @ \cup {settings'.capture}]
                     ELSE client[e]]
    /\ UNCHANGED <<load, bucket, stored, faults>>

(***************************************************************************)
(* Appending the rows to the WAL and waiting for the fsync.                *)
(***************************************************************************)
Record(e, signal, rows) ==
    [n |-> appended + 1, client |-> e, signal |-> signal, envelope |-> "batch", rows |-> rows]

\* is_retryable and wal_append_error: the low-space refusal, a full disk, another I/O error.
AppendErrors == {Unavailable, Status("INTERNAL", FALSE)}

AppendRecord(e, signal, rows, next) ==
    \/ /\ wal' = Append(wal, Record(e, signal, rows)) /\ appended' = appended + 1
       /\ client' = [client EXCEPT ![e].pc = next]
       /\ UNCHANGED faults
    \/ /\ faults < load.faults /\ faults' = faults + 1
       /\ \E error \in AppendErrors : client' = [client EXCEPT ![e] = Answered(@, error)]
       /\ UNCHANGED <<wal, appended>>

\* Scores of a logs request are appended and synced before its logs.
InsertScores(e) ==
    /\ client[e].pc = "accepted"
    /\ IF client[e].scores = <<>>
       THEN client' = [client EXCEPT ![e].pc = "scored"] /\ UNCHANGED <<wal, appended, faults>>
       ELSE AppendRecord(e, "scores", client[e].scores, "syncing scores")
    /\ UNCHANGED <<load, settings, bucket, parquet, changes>>

InsertRows(e) ==
    /\ client[e].pc = "scored"
    /\ IF client[e].rows = <<>>
       THEN /\ client' = [client EXCEPT ![e] = Answered(@, Status("OK", FALSE))]
            /\ UNCHANGED <<wal, appended, faults>>
       ELSE AppendRecord(e, client[e].req.signal, client[e].rows, "syncing")
    /\ UNCHANGED <<load, settings, bucket, parquet, changes>>

ScoresDurable(e) ==
    /\ client[e].pc = "syncing scores"
    /\ client' = [client EXCEPT ![e].pc = "scored"]
    /\ UNCHANGED <<load, settings, bucket, stored, faults, changes>>

Durable(e) ==
    /\ client[e].pc = "syncing"
    /\ client' = [client EXCEPT ![e] = Answered(@, Status("OK", FALSE))]
    /\ UNCHANGED <<load, settings, bucket, stored, faults, changes>>

\* Mutant: a dropped fsync is answered like a refusal of the append.
FsyncDroppedRetryable(e) ==
    /\ client[e].pc \in {"syncing", "syncing scores"} /\ faults < load.faults
    /\ client' = [client EXCEPT ![e] = Answered(@, Unavailable)]
    /\ faults' = faults + 1
    /\ UNCHANGED <<load, settings, bucket, stored, changes>>

\* The waiter is dropped: the record is in the WAL and the answer an error that is not retried.
FsyncDropped(e) ==
    /\ client[e].pc \in {"syncing", "syncing scores"} /\ faults < load.faults
    /\ client' = [client EXCEPT ![e] = Answered(@, Status("INTERNAL", FALSE))]
    /\ faults' = faults + 1
    /\ UNCHANGED <<load, settings, bucket, stored, changes>>

\* AdmissionLayer: the time of a request is over, wherever its handler waits.
Deadline(e) ==
    /\ client[e].pc \notin {"idle", "retry", "done"} /\ faults < load.faults
    /\ client' = [client EXCEPT ![e] = TimedOut(@)]
    /\ faults' = faults + 1
    /\ UNCHANGED <<load, settings, bucket, stored, changes>>

(***************************************************************************)
(* The sink: the rows of a record that parse, by signal.                   *)
(***************************************************************************)
SignalOrder == <<"traces", "metrics", "logs", "scores">>

Decoded(record) == IF record.envelope = "malformed" THEN <<>> ELSE record.rows

RowsToInsert(signals) ==
    UNION {{[n |-> r.n, client |-> r.client, signal |-> r.signal, i |-> i, lacks |-> {}, row |-> Batch(r.signal, Decoded(r)[i])] :
               i \in {j \in DOMAIN Decoded(r) : r.signal \in signals /\ Parses(r.signal, Decoded(r)[j])}} :
           r \in Range(wal)}

Flush ==
    /\ wal # <<>>
    /\ parquet' = parquet \cup RowsToInsert(Range(SignalOrder)) /\ wal' = <<>>
    /\ UNCHANGED <<load, client, settings, bucket, appended, faults, changes>>

\* The writer fails at a signal: the rows of those before it are stored and
\* the records stay to be flushed again.
FlushFails ==
    /\ wal # <<>> /\ faults < load.faults /\ faults' = faults + 1
    /\ \E k \in DOMAIN SignalOrder : parquet' = parquet \cup RowsToInsert(Range(SubSeq(SignalOrder, 1, k - 1)))
    /\ UNCHANGED <<load, client, settings, bucket, wal, appended, changes>>

Crash ==
    /\ faults < load.faults /\ faults' = faults + 1
    /\ client' = [e \in Exporters |-> IF client[e].pc \in {"idle", "retry", "done"} THEN client[e] ELSE Reset(client[e])]
    /\ bucket' = NoBucket
    /\ UNCHANGED <<load, settings, stored, changes>>

(***************************************************************************)
(* Specification.                                                          *)
(***************************************************************************)
Serve(e) == Screen(e) \/ EnforceSettings(e) \/ InsertScores(e) \/ ScoresDurable(e) \/ InsertRows(e) \/ Durable(e)
Fault(e) == Undrained(e) \/ SettingsFail(e) \/ FsyncDropped(e) \/ Deadline(e)

Next ==
    \/ \E e \in Exporters : Submit(e) \/ Retry(e) \/ Serve(e) \/ Fault(e)
    \/ Tick \/ ChangeSettings \/ Flush \/ FlushFails \/ Crash

\* The runtime polls every request, time passes, exporters come back.
Fairness ==
    /\ \A e \in Exporters : WF_vars(Serve(e)) /\ WF_vars(Retry(e))
    /\ WF_vars(Tick)

Spec == Init /\ [][Next]_vars /\ Fairness

(***************************************************************************)
(* What a row should hold, field by field: the attributes a field may come *)
(* from, in groups.  The first attribute of a group that holds a string    *)
(* speaks for it, the first group that is not empty for the field.         *)
(***************************************************************************)
Sources ==
    [invocation_id |-> <<<<"gcp.vertex.agent.invocation_id", "zradar.invocation.id", "invocation.id", "invocation_id">>>>,
     session_id |-> <<<<"gcp.vertex.agent.session_id", "session_id">>, <<"nat.conversation.id">>, <<"aiq.conversation.id">>>>,
     agent_name |-> <<<<"gen_ai.agent.name", "agent.name">>, <<"nat.function.name">>, <<"aiq.function.name">>>>,
     agent_version |-> <<<<"agent.version", "gen_ai.agent.version">>>>,
     workflow_run_id |-> <<<<"aiq.workflow.run_id", "nat.workflow.run_id">>>>,
     llm_model |-> <<<<"gen_ai.request.model", "llm.model">>>>,
     llm_response_model |-> <<<<"gen_ai.response.model">>>>,
     tool_name |-> <<<<"gen_ai.tool.name", "tool.name">>>>,
     db_query_text |-> <<<<"db.query.text">>>>, mcp_tool_input |-> <<<<"mcp.tool.input">>>>]

FirstOf(values) == IF {i \in DOMAIN values : values[i] # ""} = {} THEN ""
                   ELSE values[Min({i \in DOMAIN values : values[i] # ""})]
GroupValue(attrs, keys) ==
    LET strs == {i \in DOMAIN keys : HasStr(attrs, keys[i])}
    IN  IF strs = {} THEN "" ELSE Str(attrs, keys[Min(strs)])
SentString(attrs, f) == FirstOf([g \in DOMAIN Sources[f] |-> GroupValue(attrs, Sources[f][g])])

\* Tokens: the newer count, the older one only where the newer is absent, the
\* llm.* one, cut to i32, last.
SentTokens(attrs) ==
    LET Count(key) == Get(attrs, key)[1] = "int" /\ Get(attrs, key)[2] >= 0
    IN  IF Count("gen_ai.usage.input_tokens") THEN Saturated(Get(attrs, "gen_ai.usage.input_tokens")[2])
        ELSE IF ~HasKey(attrs, "gen_ai.usage.input_tokens") /\ Count("gen_ai.usage.prompt_tokens")
             THEN Saturated(Get(attrs, "gen_ai.usage.prompt_tokens")[2])
        ELSE IF Count("llm.usage.prompt_tokens") THEN Wrapped(Get(attrs, "llm.usage.prompt_tokens")[2])
        ELSE 0

\* The prompt: an attribute before the events, the earlier event before the
\* later, and none after the event that overruns the byte budget.
SentInput(s) ==
    LET events == SelectSeq(s.events, LAMBDA e : ~IsNewToken(e))
        Others(i) == SelectSeq(SubSeq(events, 1, i), LAMBDA e : e.name \notin ContentEvents)
        Reached(i) == FoldLeft(LAMBDA n, e : n + e.bytes, 2, Others(i)) <= MaxEventBytes
        Body(i) == IF /\ Reached(i) /\ events[i].name \in ContentEvents
                      /\ "llm_input" \in DOMAIN Promoted(events[i])
                   THEN Promoted(events[i]).llm_input ELSE ""
    IN  FirstOf(<<GroupValue(s.attrs, <<"gen_ai.prompt", "llm.input">>)>>
                \o [i \in 1..Min({Len(events), MaxEvents}) |-> Body(i)])

\* The events that are kept: no token noise, no content, no more than the cap.
SentEvents(s) ==
    LET events == SelectSeq(s.events, LAMBDA e : ~IsNewToken(e))
        kept   == SelectSeq(SubSeq(events, 1, Min({Len(events), MaxEvents})), LAMBDA e : e.name \notin ContentEvents)
    IN  [i \in DOMAIN kept |-> kept[i].name]

SpanAsSent(s, row, capture) ==
    LET read == ReadSpan([lacks |-> {}, row |-> row], Columns)
        Sent(f) == IF ~capture /\ f \in ContentFields THEN "" ELSE SentString(s.attrs, f)
    IN  /\ \A f \in DOMAIN Sources :
             /\ read[f] = Sent(f)
             /\ f \notin HiddenFields => Shows(read, f) = (Sent(f) # "")
        /\ read.prompt_tokens = SentTokens(s.attrs)
        /\ read.llm_input = IF capture THEN SentInput(s) ELSE ""
        /\ \/ read.events = SentEvents(s)
           \/ /\ Last(read.events) = "events.truncated" /\ IsPrefix(Front(read.events), SentEvents(s))
              /\ FoldLeft(LAMBDA n, e : n + e.bytes, 2, s.events) > MaxEventBytes
        /\ (read.parent_span_id = "") = (s.parent \in {"", "0000"})
        /\ read.duration_ns >= 0
        /\ DOMAIN read.attributes = {s.attrs[i].key : i \in {j \in DOMAIN s.attrs : s.attrs[j].val # NoValue}}
                                    \ (IF capture THEN {} ELSE ContentKeys)
        /\ \A k \in DOMAIN read.attributes : read.attributes[k] = Json(Get(s.attrs, k))

\* A row reads as written, and a column its file or the table lacks as in a span
\* that never had the attribute; but a flag whose absence is -1 reads 0 when
\* only the file lacks it.
ReadAsWritten(file, table) ==
    /\ ~ReadFails(table)
    /\ \A f \in Columns :
          ReadSpan(file, table)[f] =
             IF f \notin table THEN Default(f)
             ELSE IF f \notin file.lacks THEN Field(file.row, f)
             ELSE IF f \in TriState THEN 0 ELSE Default(f)

SpanFiles == {p \in parquet : p.signal = "traces"}

\* Whichever files of whichever releases a query lists, and whichever of them
\* the schema of the one table over them is inferred from, every row reads as
\* written but for the columns its file or the table lacks (reader.rs execute,
\* schema/spans.rs record_batch_to_spans).
FilesReadAsWritten ==
    \A files \in SUBSET SpanFiles : \A table \in TableSchemas(files) : \A p \in files : ReadAsWritten(p, table)

Points(req) == FoldLeft(LAMBDA ps, m : ps \o [i \in DOMAIN m.points |-> [kind |-> m.kind, point |-> m.points[i]]],
                        <<>>, req.items)
MetricAsSent(p, row) ==
    /\ row.timestamp = p.point.time
    /\ p.kind \in {"GAUGE", "COUNTER"} => row.value = p.point.value
    /\ p.kind # "EXPONENTIAL" /\ row.count > 0 =>
          row.value[1] * row.count * row.sum[2] = row.sum[1] * row.value[2]
    /\ DOMAIN ShowMetric(row).labels = {p.point.attrs[i].key : i \in DOMAIN p.point.attrs}

\* A log keeps its own time and severity where it has them; an id is never empty.
LogAsSent(log, shown) ==
    /\ log.time > 0 => shown.timestamp = log.time
    /\ shown.timestamp > 0 /\ shown.severity # "" /\ shown.message = Text(log.body)
    /\ log.trace = "" => "trace_id" \notin DOMAIN shown
ScoreAsSent(log, row) == HasScore(log) /\ row.timestamp = log.time /\ row.name # "" /\ row.id # ""

\* Every stored row, read back with all columns and shown, says what the
\* exporter sent: each field comes from the attribute its precedence names,
\* whatever other conventions the span follows, in whatever order its attributes
\* come; token noise takes no event's place; content is there only if capture
\* was on at some time while the export was under way (conventions/mod.rs,
\* converter.rs, span_events.rs, spans.rs, telemetry/service.rs).
RowsAsSent ==
    \A p \in parquet :
        p.client \in Exporters =>
             LET req == client[p.client].req
             IN  CASE p.signal = "traces"  -> \E c \in client[p.client].seen : SpanAsSent(req.items[p.i], p.row, c)
                   [] p.signal = "metrics" -> MetricAsSent(Points(req)[p.i], ReadMetric(p))
                   [] p.signal = "logs"    -> LogAsSent(req.items[p.i], ShowLog(ReadLog(p)))
                   [] p.signal = "scores"  -> \E i \in DOMAIN req.items : ScoreAsSent(req.items[i], p.row)

(***************************************************************************)
(* Answers and storage.                                                    *)
(***************************************************************************)
Copies(e, signal) ==
    {r.n : r \in {x \in Range(wal) : x.client = e /\ x.signal = signal}}
    \cup {p.n : p \in {x \in parquet : x.client = e /\ x.signal = signal}}
IsStored(e, signal, i) ==
    \/ \E r \in Range(wal) : r.client = e /\ r.signal = signal /\ i \in DOMAIN r.rows
    \/ \E p \in parquet : p.client = e /\ p.signal = signal /\ p.i = i
AllRows(e) == <<<<client[e].req.signal, client[e].rows>>, <<"scores", client[e].scores>>>>

\* A refusal by a check, the limiter or the append leaves nothing behind: the
\* rows of an export are appended at most once for each answer that accepted
\* them or left the matter open (OK, an internal error, a lost connection, a
\* deadline that passed between the append and its fsync); and once the answer
\* is OK every row that can be parsed is in the WAL or in Parquet, through
\* failing flushes and crashes (builder.rs append_batches "a retry ... does
\* not duplicate", retry.rs, admission.rs).  Scores are bound only by the second part: they
\* are appended before the logs, whose refusal makes the exporter resend both.
StoredAsAnswered ==
    \A e \in Exporters :
        client[e].pc # "idle" =>
            /\ Cardinality(Copies(e, client[e].req.signal))
                  <= client[e].open + (IF client[e].pc = "syncing" THEN 1 ELSE 0)
            /\ client[e].answer \in {"OK", "200"} =>
                  \A k \in 1..2 : \A i \in DOMAIN AllRows(e)[k][2] :
                      Parses(AllRows(e)[k][1], AllRows(e)[k][2][i]) => IsStored(e, AllRows(e)[k][1], i)

\* An acknowledged row is in the WAL or in Parquet
\* (docs/001_ARCHITECTURE_GUIDE.md "Every ingest is durably appended to the WAL
\* before gRPC OK is returned. Parquet writing happens asynchronously").
AckedRowsKept ==
    \A e \in Exporters :
        client[e].answer \in {"OK", "200"} =>
            \A k \in 1..2 : \A i \in DOMAIN AllRows(e)[k][2] : IsStored(e, AllRows(e)[k][1], i)

\* An exporter that speaks gRPC does not retry for ever: every export is
\* eventually stored or refused for good (ingestion_guard.rs
\* rate_limited_status "a larger one never can and is not").
Settles ==
    \A e \in Exporters :
        (client[e].pc = "sent" /\ client[e].req.transport = "grpc") ~> (client[e].pc = "done")
=============================================================================
