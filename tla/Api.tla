-------------------------------- MODULE Api --------------------------------
(***************************************************************************)
(* The front of the query API: which capability each handler asks for on   *)
(* each transport (services/api: telemetry/handlers.rs over HTTP,          *)
(* grpc/query_handler.rs and grpc/analytics_handler.rs over gRPC), how a   *)
(* credential becomes an AuthContext, and what the two decoders make of a  *)
(* request.  The authorizer itself is the deployer's plugin: a credential  *)
(* is what it answers.                                                     *)
(***************************************************************************)
EXTENDS Integers

CONSTANTS Unset,        \* an absent Option
          DefaultLimit  \* page size of a request that names none (100)

ASSUME ApiAssumption == DefaultLimit \in Nat \ {0}

-----------------------------------------------------------------------------
(* Routes: which capability a handler asks for.                            *)

Asks(ops, capability) == {[op |-> o, capability |-> capability] : o \in ops}

(* HTTP: the axum handlers.                                                *)
HttpTraces     == Asks({"traces", "get_trace", "get_span", "spans"}, "ReadTraces")
HttpDashboards == Asks({"analytics", "endpoints", "errors"}, "ReadDashboards") \cup Asks({"summary"}, "ReadMetrics")
HttpJoined     == Asks({"llm", "agents", "guardrails", "storage"}, "ReadDashboards")
HttpLogs       == Asks({"logs", "get_log"}, "ReadLogs")
HttpMetrics    == Asks({"metrics", "series"}, "ReadMetrics")
HttpRoutes     == HttpTraces \cup HttpDashboards \cup HttpJoined \cup HttpLogs \cup HttpMetrics

\* Mutant: logs behind the capability for traces.
GrpcQueryLogsAsTraces ==
    Asks({"traces", "get_trace", "get_span", "spans", "logs", "get_log"}, "ReadTraces")
        \cup Asks({"metrics", "series"}, "ReadMetrics")

(* gRPC: the two tonic services.                                           *)
GrpcQuery ==
    Asks({"traces", "get_trace", "get_span", "spans"}, "ReadTraces")
        \cup Asks({"logs", "get_log"}, "ReadLogs")
        \cup Asks({"metrics", "series"}, "ReadMetrics")
GrpcAnalytics ==
    Asks({"analytics", "endpoints", "errors", "llm", "agents", "guardrails"}, "ReadDashboards")
        \cup Asks({"summary"}, "ReadMetrics")
GrpcUsage == Asks({"storage"}, "ReadDashboards")
GrpcRoutes == GrpcQuery \cup GrpcAnalytics \cup GrpcUsage

RequiredBy(w) ==
    (CHOOSE r \in IF w.transport = "http" THEN HttpRoutes ELSE GrpcRoutes : r.op = w.kind).capability

-----------------------------------------------------------------------------
(* Authorization.                                                          *)

\* Capability::from_key: the wire keys the server knows.
KnownKeys == {"read_traces", "read_dashboards", "read_logs", "read_metrics", "read_settings", "write_settings", "admin"}
FromKey(key) ==
    CASE key = "read_traces"     -> "ReadTraces"
      [] key = "read_dashboards" -> "ReadDashboards"
      [] key = "read_logs"       -> "ReadLogs"
      [] key = "read_metrics"    -> "ReadMetrics"
      [] key = "read_settings"   -> "ReadSettings"
      [] key = "write_settings"  -> "WriteSettings"
      [] key = "admin"           -> "Admin"

\* The capabilities of an AuthContext: keys the server does not know are dropped.
Capabilities(keys) == {FromKey(k) : k \in keys \cap KnownKeys}

\* AuthContext::require: no capabilities at all (a standalone API key, or keys
\* that were all dropped) grants everything, otherwise the capability must be
\* among them.
Granted(capabilities, needed) == capabilities = {} \/ needed \in capabilities

\* The HTTP extractor: 503 when the verification backend cannot be reached,
\* 401 for a refused credential, 403 for a missing capability.
HttpAuthorize(w) ==
    CASE w.credential.verdict = "unreachable" -> "unavailable"
      [] w.credential.verdict = "refused"     -> "unauthenticated"
      [] OTHER -> IF Granted(Capabilities(w.credential.capability_keys), RequiredBy(w)) THEN "ok" ELSE "forbidden"

\* authorize_query: the same order with gRPC codes.
GrpcAuthorize(w) ==
    CASE w.credential.verdict = "unreachable" -> "unavailable"
      [] w.credential.verdict = "refused"     -> "unauthenticated"
      [] OTHER -> IF Granted(Capabilities(w.credential.capability_keys), RequiredBy(w)) THEN "ok" ELSE "forbidden"

Authorized(w) == IF w.transport = "http" THEN HttpAuthorize(w) ELSE GrpcAuthorize(w)

-----------------------------------------------------------------------------
(* Decoding: the workspace is the credential's, whatever the request names. *)

\* Mutant: the workspace the request names is kept.
FromHttpKeepsWorkspace(w) == [w EXCEPT !.limit = IF @ = Unset THEN DefaultLimit ELSE @]

\* serde's query string; an absent limit takes the default, a limit of zero
\* stays zero.
FromHttp(w) == [w EXCEPT !.workspace_id = w.credential.workspace_id,
                         !.limit = IF @ = Unset THEN DefaultLimit ELSE @]

\* pagination_limit_offset: a limit of zero also takes the default.
FromGrpcPage(w) == [w EXCEPT !.workspace_id = w.credential.workspace_id,
                             !.limit = IF @ \in {Unset, 0} THEN DefaultLimit ELSE @]

\* Spans carry no duration bounds over gRPC.
FromGrpcSpans(w) == [FromGrpcPage(w) EXCEPT !.min_duration = Unset]

\* Top endpoints and the error breakdown demand both ends of the range, in
\* their HTTP types and in their gRPC conversions.
RangeMissing(w) == w.kind \in {"endpoints", "errors"} /\ Unset \in {w.start, w.end}

Decoded(w) ==
    CASE w.transport = "http" -> FromHttp(w)
      [] w.transport = "grpc" /\ w.kind = "spans" -> FromGrpcSpans(w)
      [] OTHER -> FromGrpcPage(w)

\* The key under which a caller may see rows of a signal.
KeyFor(signal) ==
    CASE signal = "traces" -> "read_traces" [] signal = "logs" -> "read_logs" [] signal = "metrics" -> "read_metrics"
=============================================================================
