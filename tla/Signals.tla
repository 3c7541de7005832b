------------------------------ MODULE Signals ------------------------------
(***************************************************************************)
(* What the OTLP services make of log records, evaluation scores and       *)
(* metric data points.  Attributes are those of Convert; a number is a     *)
(* ratio <<n, d>>, with d = 0 for the non-finite ones.                     *)
(***************************************************************************)
EXTENDS Convert

\* extract_string_attr: the first attribute with the key, if a string.
FirstStr(attrs, key, otherwise) ==
    LET is == Indices(attrs, key)
    IN  IF is # {} /\ attrs[Min(is)].val[1] = "str" THEN attrs[Min(is)].val[2] ELSE otherwise

\* get_string_value: the text of a scalar, nothing for the rest.
Text(val) ==
    CASE val[1] \in {"str", "f64"} -> val[2]
      [] val[1] \in {"int", "bool"} -> ToString(val[2])
      [] OTHER -> ""

\* The numbers the names of the model stand for; other text does not parse.
NumberOf(name) ==
    LET t == "0.5" :> <<1, 2>> @@ "5" :> <<5, 1>> @@ "NaN" :> <<0, 0>>
    IN  IF name \in DOMAIN t THEN t[name] ELSE <<0, 1>>
Number(val) ==
    CASE val[1] \in {"str", "f64"} -> NumberOf(val[2])
      [] val[1] = "int" -> <<val[2], 1>>
      [] OTHER -> <<0, 1>>
Finite(number) == number[2] # 0

(***************************************************************************)
(* Logs.                                                                   *)
(***************************************************************************)
SeverityText(number) ==
    IF number \in 1..24 THEN <<"TRACE", "DEBUG", "INFO", "WARN", "ERROR", "FATAL">>[((number - 1) \div 4) + 1]
    ELSE "INFO"

ConvertLog(log, resource, workspace, now) ==
    [id |-> "new", timestamp |-> IF log.time > 0 THEN log.time ELSE now, workspace_id |-> workspace,
     severity |-> IF log.severity_text # "" THEN log.severity_text ELSE SeverityText(log.severity_number),
     message |-> Text(log.body), trace_id |-> log.trace, span_id |-> log.span,
     service_name |-> FirstStr(resource, "service.name", "unknown"),
     agent_name |-> FirstStr(resource, "agent.name", ""), resource |-> AttrsJson(resource, {}),
     user_id |-> FirstStr(log.attrs, "user.id", ""), session_id |-> FirstStr(log.attrs, "session.id", ""),
     attributes |-> AttrsJson(log.attrs, {}), created_at |-> now]

(***************************************************************************)
(* Scores.  A record is one when it names the trace and the score.         *)
(***************************************************************************)
ScoreTexts ==
    [id |-> "score.id", trace_id |-> "score.trace_id", span_id |-> "score.span_id",
     session_id |-> "score.session_id", dataset_run_id |-> "score.dataset_run_id", name |-> "score.name",
     data_type |-> "score.data_type", string_value |-> "score.string_value", source |-> "score.source",
     comment |-> "score.comment", author_user_id |-> "score.author_user_id", config_id |-> "score.config_id",
     eval_execution_trace_id |-> "score.eval_execution_trace_id", queue_id |-> "score.queue_id",
     environment |-> "score.environment", service_name |-> "score.service_name",
     agent_name |-> "score.agent_name", user_id |-> "score.user_id", metadata |-> "score.metadata"]
\* impl Default for EvaluationScore; "new" is a fresh id.
ScoreDefault(f) ==
    CASE f = "id" -> "new" [] f = "data_type" -> "NUMERIC" [] f = "source" -> "API"
      [] f = "environment" -> "default" [] f = "metadata" -> "{}" [] OTHER -> ""
SkillKeys == {"score.skills", "score.agent_skills", "score.skill"}

HasScore(log) ==
    LET valued == SelectSeq(log.attrs, LAMBDA a : a.val # NoValue)
    IN  /\ \E i \in Indices(valued, "score.trace_id") : Text(valued[i].val) # ""
        /\ Text(Get(valued, "score.name")) # ""

\* merge_skills_into_metadata, on the text of the metadata and of the skills.
WithSkills(metadata, skills) == ToString(<<metadata, [i \in DOMAIN skills |-> Text(skills[i].val)]>>)

ParseScore(log, workspace, now) ==
    LET valued == SelectSeq(log.attrs, LAMBDA a : a.val # NoValue)
        texts  == [f \in DOMAIN ScoreTexts |->
                      IF HasKey(valued, ScoreTexts[f]) THEN Text(Get(valued, ScoreTexts[f])) ELSE ScoreDefault(f)]
        skills == SelectSeq(valued, LAMBDA a : a.key \in SkillKeys /\ Text(a.val) # "")
    IN  [texts EXCEPT !.id = IF @ = "" THEN "new" ELSE @,
                      !.metadata = IF skills = <<>> THEN @ ELSE WithSkills(@, skills)]
        @@ [workspace_id |-> workspace, value |-> Number(Get(valued, "score.value")), is_deleted |-> 0,
            timestamp |-> log.time, created_at |-> now, updated_at |-> now, event_ts |-> now]

(***************************************************************************)
(* Metrics: one row for each data point.                                   *)
(***************************************************************************)
Zero == <<0, 1>>
Mean(sum, count) == IF count > 0 THEN <<sum[1], sum[2] * count>> ELSE Zero

NumberPoint(p) == [value |-> p.value, count |-> 1, sum |-> p.value, min |-> p.value, max |-> p.value]
HistogramPoint(p) == [value |-> Mean(p.sum, p.count), count |-> p.count, sum |-> p.sum, min |-> p.min, max |-> p.max]
SummaryPoint(p) == [value |-> Mean(p.sum, p.count), count |-> p.count, sum |-> p.sum, min |-> Zero, max |-> Zero]
\* An exponential histogram's value is its sum, not its mean.
ExponentialPoint(p) == [HistogramPoint(p) EXCEPT !.value = p.sum]
Numbers(kind, p) ==
    CASE kind \in {"GAUGE", "COUNTER"} -> NumberPoint(p)
      [] kind = "HISTOGRAM"            -> HistogramPoint(p)
      [] kind = "SUMMARY"              -> SummaryPoint(p)
      [] kind = "EXPONENTIAL"          -> ExponentialPoint(p)

\* The labels keep every key; what is not a scalar is null.
LabelsJson(attrs) ==
    [k \in {attrs[i].key : i \in DOMAIN attrs} |->
        LET val == Get(attrs, k) IN IF val[1] \in {"str", "int", "f64", "bool"} THEN Json(val) ELSE NoValue]

ConvertMetric(metric, resource, workspace) ==
    [i \in DOMAIN metric.points |->
        LET p == metric.points[i]
        IN  Numbers(metric.kind, p)
            @@ [metric_name |-> metric.name,
                metric_type |-> IF metric.kind = "EXPONENTIAL" THEN "HISTOGRAM" ELSE metric.kind,
                timestamp |-> p.time, workspace_id |-> workspace,
                service_name |-> FirstStr(resource, "service.name", "unknown"),
                agent_name |-> FirstStr(resource, "agent.name", ""),
                user_id |-> FirstStr(p.attrs, "user.id", ""),
                session_id |-> FirstStr(p.attrs, "session.id", ""), labels |-> LabelsJson(p.attrs)]]

(***************************************************************************)
(* A row of the WAL is JSON text, where a number that is not finite is     *)
(* null, and null does not parse as a number.                              *)
(***************************************************************************)
NumbersOf(signal, row) ==
    CASE signal = "metrics" -> {row.value, row.sum, row.min, row.max}
      [] signal = "scores"  -> {row.value}
      [] signal = "traces"  -> {NumberOf(Field(row, f)) : f \in F64Fields}
      [] OTHER -> {}
Parses(signal, row) == \A number \in NumbersOf(signal, row) : Finite(number)

(***************************************************************************)
(* The columns of the files, and what is written to and read from them.    *)
(***************************************************************************)
LogColumns == {"id", "timestamp", "workspace_id", "trace_id", "span_id", "severity", "service_name", "message",
               "attributes", "resource", "agent_name", "session_id", "user_id", "created_at"}
MetricColumns == {"metric_name", "metric_type", "timestamp", "workspace_id", "value", "count", "sum", "min",
                  "max", "service_name", "agent_name", "user_id", "session_id", "labels"}
ScoreColumns == DOMAIN ScoreTexts
                \cup {"workspace_id", "timestamp", "created_at", "updated_at", "event_ts", "value", "is_deleted"}
LogBatch(row)    == [f \in LogColumns |-> row[f]]
MetricBatch(row) == [f \in MetricColumns |-> row[f]]
ScoreBatch(row)  == [f \in ScoreColumns |-> row[f]]
Batch(signal, row) ==
    CASE signal = "traces"  -> SpanBatch(row)
      [] signal = "metrics" -> MetricBatch(row)
      [] signal = "logs"    -> LogBatch(row)
      [] signal = "scores"  -> ScoreBatch(row)
ReadLog(file)    == [f \in LogColumns |-> file.row[f]]
ReadMetric(file) == [f \in MetricColumns |-> file.row[f]]

\* LogDetail and MetricDetail: empty optional fields are absent.
ShowLog(row) ==
    [f \in {"timestamp", "severity", "service_name", "message", "attributes"}
           \cup {g \in {"trace_id", "span_id", "agent_name", "session_id", "user_id"} : row[g] # ""} |-> row[f]]
ShowMetric(row) ==
    [f \in {"metric_name", "metric_type", "timestamp", "service_name", "value", "count", "sum", "min", "max",
            "labels"} |-> row[f]]
=============================================================================
