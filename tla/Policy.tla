------------------------------- MODULE Policy -------------------------------
(***************************************************************************)
(* What a policy set decides: resolution of the cached policies            *)
(* (zradar-plugin-postgres policy.rs), the enforcer's checks in their      *)
(* order (zradar-policy enforcer.rs), and the quota status the API reports *)
(* (services/api, telemetry/service.rs).                                   *)
(*                                                                         *)
(* A policy is a record [id, signal, operation, limit, grace, hard, from,  *)
(* until, rev]; its limit is one of                                        *)
(*   [kind |-> "rate", records, bytes]                                     *)
(*   [kind |-> "quota", max, start, end, basis]                            *)
(*   [kind |-> "size", max, basis]                                         *)
(*   [kind |-> "retention", days]   [kind |-> "window", days]              *)
(* Usage is a set of samples [id, op, signal, bytes, records, at].         *)
(***************************************************************************)
EXTENDS Integers, FiniteSets, FiniteSetsExt, Functions

CONSTANTS
    Unset,      \* an absent option
    DayLen      \* ticks in a day; a tick is the second the rates look back

Key(p) == <<p.signal, p.operation, p.limit.kind>>

\* refresh: of the rows in effect the newest of each key; rows_to_cache.
Effective(rows, now) ==
    LET live == {p \in rows : p.from <= now /\ (p.until = Unset \/ p.until > now)}
    IN  {p \in live : \A o \in live : Key(o) = Key(p) => o.rev <= p.rev}

MinOption(S) == IF S \ {Unset} = {} THEN Unset ELSE Min(S \ {Unset})

Applies(p, signal, op) == p.signal \in {signal, "all"} /\ p.operation \in {op, "all"}

\* resolve_cached_policy goes through the keys in this order.
Rank(p) == (IF p.signal = "all" THEN 2 ELSE 0) + (IF p.operation = "all" THEN 1 ELSE 0)

\* resolve and merge_policy: the lowest limit of each kind, every quota, and
\* the lowest percentages; a size keeps the basis of the first one applied.
Resolve(cache, signal, op) ==
    LET mine == {p \in cache : Applies(p, signal, op)}
        Of(kind) == {p \in mine : p.limit.kind = kind}
    IN  [records |-> MinOption({p.limit.records : p \in Of("rate")}),
         bytes |-> MinOption({p.limit.bytes : p \in Of("rate")}),
         quotas |-> {[limit |-> p.limit, rank |-> Rank(p)] : p \in Of("quota")},
         size |-> MinOption({p.limit.max : p \in Of("size")}),
         size_basis |-> IF Of("size") = {} THEN Unset
                        ELSE (CHOOSE p \in Of("size") : \A o \in Of("size") : Rank(p) <= Rank(o)).limit.basis,
         retention |-> MinOption({p.limit.days : p \in Of("retention")}),
         window |-> MinOption({p.limit.days : p \in Of("window")}),
         grace |-> Min({101} \cup {p.grace : p \in mine}),
         hard |-> Min({103} \cup {p.hard : p \in mine})]

-----------------------------------------------------------------------------
(* Usage, as InMemoryUsageTracker answers the enforcer.                    *)

Matching(usage, signal, op) == {u \in usage : u.op = op /\ (signal = "all" \/ u.signal = signal)}
SumBytes(S) == SumFunctionOnSet([u \in S |-> u.bytes], S)
SumRecords(S) == SumFunctionOnSet([u \in S |-> u.records], S)

CurrentRate(usage, signal, op, now) == {u \in Matching(usage, signal, op) : u.at >= now - 1}

PeriodUsed(usage, signal, op, quota) ==
    SumBytes({u \in Matching(usage, signal, op) : u.at >= quota.start /\ (quota.end = Unset \/ u.at < quota.end)})

-----------------------------------------------------------------------------
(* The checks.                                                             *)

\* Mutant: the hard limit itself is still let through.
CompareAboveHard(observed, limit, res) ==
    CASE limit <= 0 \/ observed * 100 > limit * res.hard -> "block"
      [] OTHER -> IF observed * 100 > limit * res.grace THEN "throttle"
                  ELSE IF observed > limit THEN "allow_with_grace" ELSE "none"

\* compare_limit_i64.
Compare(observed, limit, res) ==
    CASE limit <= 0 \/ observed * 100 >= limit * res.hard -> "block"
      [] OTHER -> IF observed * 100 > limit * res.grace THEN "throttle"
                  ELSE IF observed > limit THEN "allow_with_grace" ELSE "none"

Check(rank, kind, observed, limit, res, period) ==
    [rank |-> rank, kind |-> kind, observed |-> observed, limit |-> limit,
     verdict |-> Compare(observed, limit, res), period |-> period]

\* check_rate: records and bytes of the last second, this request included.
RateChecks(usage, ctx, res, now) ==
    LET rate == CurrentRate(usage, ctx.signal, "ingest", now)
    IN  (IF res.records = Unset THEN {}
         ELSE {Check(0, "rate_records", SumRecords(rate) + ctx.records, res.records, res, Unset)})
        \cup (IF res.bytes = Unset THEN {}
              ELSE {Check(1, "rate_bytes", SumBytes(rate) + ctx.bytes, res.bytes, res, Unset)})

\* check_query_rate: bytes only.
QueryRateChecks(usage, ctx, res, now) ==
    IF res.bytes = Unset THEN {}
    ELSE {Check(0, "query_rate_bytes", SumBytes(CurrentRate(usage, ctx.signal, "query", now)) + ctx.bytes,
                res.bytes, res, Unset)}

\* check_quota: an ingest quota counts compressed bytes ...
QuotaChecks(usage, ctx, res) ==
    {Check(2 + x.rank, "quota", PeriodUsed(usage, ctx.signal, "ingest", x.limit) + ctx.bytes, x.limit.max, res, x.limit.start)
        : x \in {y \in res.quotas : y.limit.basis = "compressed"}}

\* ... and check_query_quota scanned ones.
QueryQuotaChecks(usage, ctx, res) ==
    {Check(2 + x.rank, "query_quota", PeriodUsed(usage, ctx.signal, "query", x.limit) + ctx.bytes, x.limit.max, res, x.limit.start)
        : x \in {y \in res.quotas : y.limit.basis = "scanned"}}

\* check_size: what this process wrote, whatever was reclaimed since.
SizeChecks(usage, ctx, res) ==
    IF res.size = Unset \/ res.size_basis # "compressed" THEN {}
    ELSE {Check(6, "size", SumBytes(Matching(usage, ctx.signal, "ingest")), res.size, res, Unset)}

\* The first check with something to say decides, an allowance included.
DecisionOf(checks) ==
    LET spoke == {c \in checks : c.verdict # "none"}
    IN  IF spoke = {} THEN "allow" ELSE (CHOOSE c \in spoke : \A o \in spoke : c.rank <= o.rank).verdict

IngestChecks(usage, ctx, res, now) ==
    RateChecks(usage, ctx, res, now) \cup QuotaChecks(usage, ctx, res) \cup SizeChecks(usage, ctx, res)
CheckIngest(usage, ctx, res, now) == DecisionOf(IngestChecks(usage, ctx, res, now))

\* check_query_range comes first and reads no usage.
RangeRefused(ctx, res, now) ==
    \/ res.retention # Unset /\ ctx.start # Unset /\ ctx.start < now - res.retention * DayLen
    \/ res.window # Unset /\ Unset \notin {ctx.start, ctx.end} /\ ctx.end - ctx.start > res.window * DayLen

QueryChecks(usage, ctx, res, now) ==
    QueryRateChecks(usage, ctx, res, now) \cup QueryQuotaChecks(usage, ctx, res)
CheckQuery(usage, ctx, res, now) ==
    IF RangeRefused(ctx, res, now) THEN "block" ELSE DecisionOf(QueryChecks(usage, ctx, res, now))

\* The operation a decision is audited under: that of the check that decided.
DecidedOp(checks, op) ==
    LET spoke == {c \in checks : c.verdict # "none"}
    IN  IF spoke # {} /\ (\A c \in spoke : c.kind = "size") THEN "store" ELSE op

\* emit_thresholds, for the checks up to the one that decided.
Thresholds(checks, signal, op, res, hour) ==
    LET reached == {c \in checks : \A o \in checks : o.verdict # "none" => c.rank <= o.rank}
    IN  UNION {{[signal |-> signal, operation |-> IF c.kind = "size" THEN "store" ELSE op, kind |-> c.kind, pct |-> t,
                 period |-> IF c.period = Unset THEN hour ELSE c.period]
                   : t \in {t \in {70, 90, 100, res.hard} : c.limit > 0 /\ c.observed * 100 >= c.limit * t}}
                 : c \in reached}

-----------------------------------------------------------------------------
(* What is reported.                                                       *)

\* quota_status.
Status(observed, limit, hard) ==
    CASE limit <= 0 \/ observed * 100 >= limit * hard -> "blocked"
      [] OTHER -> IF observed > limit THEN "grace"
                  ELSE IF observed * 100 >= limit * 90 THEN "critical"
                  ELSE IF observed * 100 >= limit * 70 THEN "warning" ELSE "ok"

\* PostgresUsageReader::period_used_bytes, over the events tables, where a
\* sample may be booked more than once.
BytesOf(es) == SumFunctionOnSet([e \in es |-> e.s.bytes], es)
ReportedUsed(events, signal, op, quota) ==
    BytesOf({e \in events : e.s \in Matching({e.s}, signal, op)
                            /\ e.s.at >= quota.start /\ (quota.end = Unset \/ e.s.at < quota.end)})

\* get_quota_status for one signal: quotas whatever their basis, and the size
\* that is resolved for the store operation.
QuotaStatuses(cache, events, stored, signal) ==
    (UNION {{[operation |-> op, kind |-> "quota", limit |-> x.limit,
              status |-> Status(ReportedUsed(events, signal, op, x.limit), x.limit.max, Resolve(cache, signal, op).hard)]
                : x \in Resolve(cache, signal, op).quotas} : op \in {"ingest", "query"}})
    \cup LET res == Resolve(cache, signal, "store")
         IN  IF res.size = Unset THEN {}
             ELSE {[operation |-> "store", kind |-> "size", limit |-> res.size,
                    status |-> Status(stored, res.size, res.hard)]}
=============================================================================
