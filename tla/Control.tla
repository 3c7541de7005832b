------------------------------- MODULE Control -------------------------------
(***************************************************************************)
(* The control plane of one workspace: the settings, retention, policy and *)
(* audit handlers of services/api (HTTP and gRPC run the same steps), the  *)
(* repositories behind them, the policy cache with its refreshes, the      *)
(* in-memory retention configuration and the background jobs, composed     *)
(* with usage accounting.                                                  *)
(*                                                                         *)
(* A handler is a client's walk through the awaits of its request; between *)
(* two of them other clients, the jobs and a restart may come.             *)
(***************************************************************************)
EXTENDS Usage

CONSTANTS
    Clients,
    Requests,       \* requests clients may send: records with a field "name"
    DefaultSettings,\* NewWorkspaceSettings::defaults_for
    GlobalDays,     \* ParquetStorageConfig::retention_days
    Contexts        \* ingest and query contexts that are checked

WorkspaceSettings == [retention : Int, blocked : BOOLEAN, rate : Int]
ASSUME ControlAssumption ==
    /\ DefaultSettings \in WorkspaceSettings /\ Unset \notin WorkspaceSettings
    /\ \A r \in Requests : /\ r.name = "update_settings" => r.settings \in WorkspaceSettings
                           /\ r.name = "set_retention" => r.days \in Int

VARIABLES
    settings,   \* workspace_settings: Unset or [retention, blocked, rate]
    config,     \* RetentionConfigStore: Unset or days
    policies,   \* the policies table
    cache,      \* PolicyCache
    timer,      \* the periodic refresh: Unset or the rows it has read
    audit,      \* audit_logs
    emitted,    \* threshold_dedupe
    decisions,  \* policy_decision_audit
    client,     \* the handlers: [pc, req, read]
    sent,       \* requests so far
    marks,      \* runs of the cleanup job: [by, rows], with the time, the reported
                \* days and whether they were settled (history)
    pending,    \* the client whose change of the retention was saved last, as long as
                \* it has not been applied (history)
    unsettled   \* the retention in memory is not the one that was saved last, and no
                \* handler is about to apply that one (history)
adminVars == <<settings, config, policies, cache, timer, audit, emitted, decisions, client, sent, marks, pending, unsettled>>
vars == <<usageVars, adminVars>>

Idle == [pc |-> "idle", req |-> Unset, read |-> Unset]

Init ==
    /\ UsageInit
    /\ settings = Unset /\ config = Unset
    /\ policies = {} /\ cache = {} /\ timer = Unset
    /\ audit = {} /\ emitted = {} /\ decisions = {}
    /\ client = [c \in Clients |-> Idle] /\ sent = 0
    /\ marks = {} /\ pending = {} /\ unsettled = FALSE

-----------------------------------------------------------------------------
EffectiveDays(cfg) == IF cfg = Unset THEN GlobalDays ELSE cfg
ReportedDays == IF settings = Unset THEN EffectiveDays(config) ELSE settings.retention

\* A client sends a request; its first step is taken at once.
Begin(c, req, name) == client[c].pc = "idle" /\ sent < bound.requests /\ req.name = name /\ sent' = sent + 1
Step(c, pc, req, read) == client' = [client EXCEPT ![c] = [pc |-> pc, req |-> req, read |-> read]]
Done(c) == client' = [client EXCEPT ![c] = Idle]
At(c, pc, name) == client[c].pc = pc /\ client[c].req # Unset /\ client[c].req.name = name

\* The retention in memory is the one that was saved last.
Settled == ~unsettled /\ pending = {}

\* The settings are written by something that leaves the configuration in
\* memory as it is.
SettingsApart == pending' = {} /\ unsettled' = TRUE

\* update_workspace_settings: validate, upsert, then the audit row.
Invalid(s) == s.retention < 0
UpdateSettings(c, req) ==
    /\ Begin(c, req, "update_settings")
    /\ IF Invalid(req.settings)
       THEN UNCHANGED <<settings, client, pending, unsettled>>
       ELSE /\ settings' = req.settings
            /\ Step(c, "audit", req, req.settings)
            /\ SettingsApart
    /\ UNCHANGED <<usageVars, config, policies, cache, timer, audit, emitted, decisions, marks>>

\* create_audit_log: if it fails the request does, with the settings saved.
AuditUpdate(c, ok) ==
    /\ At(c, "audit", "update_settings")
    /\ audit' = IF ok THEN audit \cup {client[c].read} ELSE audit
    /\ Done(c)
    /\ UNCHANGED <<usageVars, settings, config, policies, cache, timer, emitted, decisions, sent, marks, pending, unsettled>>

\* get_workspace_settings: a first read writes the defaults.
GetSettings(c, req) ==
    /\ Begin(c, req, "get_settings")
    /\ IF settings = Unset THEN Step(c, "defaults", req, Unset) ELSE UNCHANGED client
    /\ UNCHANGED <<usageVars, settings, config, policies, cache, timer, audit, emitted, decisions, marks, pending, unsettled>>

InsertDefaults(c) ==
    /\ At(c, "defaults", "get_settings")
    /\ settings' = DefaultSettings
    /\ SettingsApart
    /\ Done(c)
    /\ UNCHANGED <<usageVars, config, policies, cache, timer, audit, emitted, decisions, sent, marks>>

\* set_workspace_retention: read, upsert what was read with other days, then
\* the configuration in memory. (Of the days of the three signals, which the
\* request makes equal, the API reports and a start loads those of traces.)
SetRetention(c, req) ==
    /\ Begin(c, req, "set_retention")
    /\ Step(c, "merge", req, IF settings = Unset THEN DefaultSettings ELSE settings)
    /\ UNCHANGED <<usageVars, settings, config, policies, cache, timer, audit, emitted, decisions, marks, pending, unsettled>>

Merged(c) == [client[c].read EXCEPT !.retention = client[c].req.days]
SaveRetention(c) ==
    /\ At(c, "merge", "set_retention")
    /\ settings' = Merged(c)
    /\ Step(c, "apply", client[c].req, Unset)
    /\ pending' = {c} /\ unsettled' = FALSE
    /\ UNCHANGED <<usageVars, config, policies, cache, timer, audit, emitted, decisions, sent, marks>>

\* upsert_settings returns an error, or the handler is dropped while it waits
\* for the answer: the request ends there, with the settings saved or not.
SaveFails(c) ==
    /\ At(c, "merge", "set_retention") /\ faults < bound.faults
    /\ faults' = faults + 1
    /\ \/ settings' = Merged(c) /\ SettingsApart
       \/ UNCHANGED <<settings, pending, unsettled>>
    /\ Done(c)
    /\ UNCHANGED <<bound, now, tracker, storage, config, policies, cache, timer, audit, emitted, decisions, sent, marks>>

\* An older change applied after a newer one, or over the days of a cleanup
\* request, parts the two stores.
Applied(c) == pending' = pending \ {c} /\ unsettled' = (pending = {})

\* Mutant: the configuration in memory is left to the next restart.
ApplyRetentionLater(c) ==
    /\ At(c, "apply", "set_retention")
    /\ Applied(c)
    /\ Done(c)
    /\ UNCHANGED <<usageVars, settings, config, policies, cache, timer, audit, emitted, decisions, sent, marks>>

ApplyRetention(c) ==
    /\ At(c, "apply", "set_retention")
    /\ config' = client[c].req.days
    /\ Applied(c)
    /\ Done(c)
    /\ UNCHANGED <<usageVars, settings, policies, cache, timer, audit, emitted, decisions, sent, marks>>

-----------------------------------------------------------------------------
(* The cleanup job and the reclaimer, for a request or on their timers.    *)

\* CleanupJob::run_now_scoped lists the live files and takes those whose newest
\* row is at or before the cutoff of the configuration at that moment,
Expired == {f \in files : f.state = "live" /\ f.ts <= now - EffectiveDays(config) * DayLen}
ListExpired(by) ==
    /\ Expired # {}
    /\ marks' = marks \cup {[by |-> by, rows |-> Expired, at |-> now, reported |-> ReportedDays, settled |-> Settled]}

\* and marks them in another step, which may fail. (A file that has been merged
\* meanwhile is soft-deleted already, one that was reclaimed has no row.)
MarkDeleted(m, ok) ==
    /\ marks' = marks \ {m}
    /\ files' = IF ok THEN {IF f \in m.rows THEN [f EXCEPT !.state = "expired"] ELSE f : f \in files} ELSE files

\* run_cleanup: the days of the request go into the configuration, then the
\* cleanup job and the reclaimer run for the workspace.
RunCleanup(c, req) ==
    /\ Begin(c, req, "run_cleanup")
    /\ config' = IF req.days = Unset THEN config ELSE req.days
    /\ unsettled' = (unsettled \/ (req.days # Unset /\ pending = {}))
    /\ Step(c, "expire", req, Unset)
    /\ UNCHANGED <<usageVars, settings, policies, cache, timer, audit, emitted, decisions, marks, pending>>

ExpireStep(c) ==
    /\ At(c, "expire", "run_cleanup")
    /\ \/ ListExpired(c) /\ Step(c, "mark", client[c].req, Unset)
       \/ Expired = {} /\ Step(c, "sweep", client[c].req, Unset) /\ UNCHANGED marks
    /\ UNCHANGED <<usageVars, settings, config, policies, cache, timer, audit, emitted, decisions, sent, pending, unsettled>>

MarkStep(c) ==
    /\ At(c, "mark", "run_cleanup")
    /\ \E m \in marks, ok \in BOOLEAN : m.by = c /\ MarkDeleted(m, ok)
    /\ Step(c, "sweep", client[c].req, Unset)
    /\ UNCHANGED <<bound, now, tracker, cleaned, snapshots, sweeps, faults, stored, misbooked>>
    /\ UNCHANGED <<settings, config, policies, cache, timer, audit, emitted, decisions, sent, pending, unsettled>>

SweepStep(c) ==
    /\ At(c, "sweep", "run_cleanup")
    /\ \/ ListDeleted(c) /\ Step(c, "book", client[c].req, Unset)
       \/ Deleted = {} /\ Done(c) /\ UNCHANGED sweeps
    /\ UNCHANGED <<bound, now, tracker, files, cleaned, snapshots, faults, stored, misbooked>>
    /\ UNCHANGED <<settings, config, policies, cache, timer, audit, emitted, decisions, sent, marks, pending, unsettled>>

BookStep(c) ==
    /\ At(c, "book", "run_cleanup")
    /\ \E r \in sweeps : r.by = c /\ \E done \in SUBSET r.rows : BookAndDelete(r, done)
    /\ Done(c)
    /\ UNCHANGED <<bound, now, tracker, snapshots, faults, stored>>
    /\ UNCHANGED <<settings, config, policies, cache, timer, audit, emitted, decisions, sent, marks, pending, unsettled>>

\* The scheduled runs: a loop each, so that a run ends before the next begins.
CleanupLists ==
    /\ \A m \in marks : m.by # "timer"
    /\ ListExpired("timer")
    /\ UNCHANGED <<usageVars, settings, config, policies, cache, timer, audit, emitted, decisions, client, sent, pending, unsettled>>
CleanupMarks ==
    /\ \E m \in marks, ok \in BOOLEAN : m.by = "timer" /\ MarkDeleted(m, ok)
    /\ UNCHANGED <<bound, now, tracker, cleaned, snapshots, sweeps, faults, stored, misbooked>>
    /\ UNCHANGED <<settings, config, policies, cache, timer, audit, emitted, decisions, client, sent, pending, unsettled>>
ReclaimLists ==
    /\ \A r \in sweeps : r.by # "timer"
    /\ ListDeleted("timer")
    /\ UNCHANGED <<bound, now, tracker, files, cleaned, snapshots, faults, stored, misbooked, adminVars>>
ReclaimBooks ==
    /\ \E r \in sweeps : r.by = "timer" /\ \E done \in SUBSET r.rows : BookAndDelete(r, done)
    /\ UNCHANGED <<bound, now, tracker, snapshots, faults, stored, adminVars>>

-----------------------------------------------------------------------------
(* Policies.                                                               *)

\* upsert_many: a row without an end replaces the one of its key, any other
\* is added; one transaction, then the cache is refreshed.
Replaced(p) == {o \in policies : Key(o) = Key(p) /\ o.until = Unset /\ p.until = Unset}
UpsertPolicies(c, req) ==
    /\ Begin(c, req, "upsert_policies")
    /\ policies' = (policies \ Replaced(req.policy)) \cup
                   {[req.policy EXCEPT !.rev = sent + 1,
                                       !.id = IF Replaced(req.policy) = {} THEN sent + 1 ELSE (CHOOSE o \in Replaced(req.policy) : TRUE).id]}
    /\ Step(c, "refresh", req, Unset)
    /\ UNCHANGED <<usageVars, settings, config, cache, timer, audit, emitted, decisions, marks, pending, unsettled>>

\* delete_policy: the list is checked for the id, then the row deleted.
DeletePolicy(c, req) ==
    /\ Begin(c, req, "delete_policy")
    /\ IF \E p \in policies : p.id = req.id THEN Step(c, "delete", req, Unset) ELSE UNCHANGED client
    /\ UNCHANGED <<usageVars, settings, config, policies, cache, timer, audit, emitted, decisions, marks, pending, unsettled>>

DeleteRow(c) ==
    /\ At(c, "delete", "delete_policy")
    /\ policies' = {p \in policies : p.id # client[c].req.id}
    /\ Step(c, "refresh", client[c].req, Unset)
    /\ UNCHANGED <<usageVars, settings, config, cache, timer, audit, emitted, decisions, sent, marks, pending, unsettled>>

\* refresh reads the table and replaces the cache in another step: two of them
\* may install what they read in either order.
RefreshRead(c) ==
    /\ client[c].pc = "refresh"
    /\ Step(c, "replace", client[c].req, Effective(policies, now))
    /\ UNCHANGED <<usageVars, settings, config, policies, cache, timer, audit, emitted, decisions, sent, marks, pending, unsettled>>

RefreshReplace(c) ==
    /\ client[c].pc = "replace"
    /\ cache' = client[c].read
    /\ Done(c)
    /\ UNCHANGED <<usageVars, settings, config, policies, timer, audit, emitted, decisions, sent, marks, pending, unsettled>>

\* The read fails: the request is refused although its rows are committed.
RefreshFails(c) ==
    /\ client[c].pc = "refresh" /\ faults < bound.faults
    /\ faults' = faults + 1
    /\ Done(c)
    /\ UNCHANGED <<bound, now, tracker, storage>>
    /\ UNCHANGED <<settings, config, policies, cache, timer, audit, emitted, decisions, sent, marks, pending, unsettled>>

\* Mutant: the timer refreshes only a cache that is empty.
TimerReadOnce ==
    /\ timer = Unset /\ cache = {}
    /\ Effective(policies, now) # cache
    /\ timer' = Effective(policies, now)
    /\ UNCHANGED <<usageVars, settings, config, policies, cache, audit, emitted, decisions, client, sent, marks, pending, unsettled>>

\* Every 30 seconds the server refreshes too (a read that would change nothing
\* is left out).
TimerRead ==
    /\ timer = Unset
    /\ Effective(policies, now) # cache
    /\ timer' = Effective(policies, now)
    /\ UNCHANGED <<usageVars, settings, config, policies, cache, audit, emitted, decisions, client, sent, marks, pending, unsettled>>

TimerReplace ==
    /\ timer # Unset
    /\ cache' = timer /\ timer' = Unset
    /\ UNCHANGED <<usageVars, settings, config, policies, audit, emitted, decisions, client, sent, marks, pending, unsettled>>

\* PostgresThresholdSink: a threshold is recorded once per period.
Emit(thresholds) == emitted' = emitted \cup thresholds

\* audit_decision: anything but a plain allow is recorded.
AuditDecision(signal, op, decision) ==
    decisions' = IF decision = "allow" THEN decisions
                 ELSE decisions \cup {[signal |-> signal, op |-> op, decision |-> decision]}

\* check_ingest and check_query on behalf of a request (thresholds without a
\* period are kept by the hour, which is a day here).
CheckPolicy(ctx) ==
    LET res == Resolve(cache, ctx.signal, ctx.op)
        checks == IF ctx.op = "ingest" THEN IngestChecks(hot, ctx, res, now)
                  ELSE IF RangeRefused(ctx, res, now) THEN {} ELSE QueryChecks(hot, ctx, res, now)
        decision == IF ctx.op = "ingest" THEN CheckIngest(hot, ctx, res, now) ELSE CheckQuery(hot, ctx, res, now)
    IN  /\ sent < bound.requests /\ sent' = sent + 1
        /\ Emit(Thresholds(checks, ctx.signal, ctx.op, res, Today))
        /\ AuditDecision(ctx.signal, DecidedOp(checks, ctx.op), decision)
        /\ UNCHANGED <<usageVars, settings, config, policies, cache, timer, audit, client, marks, pending, unsettled>>

-----------------------------------------------------------------------------
\* The process ends and starts again: what was in memory is gone, the cache is
\* read anew and the retention of stored settings is loaded.
Restart ==
    /\ faults < bound.faults
    /\ faults' = faults + 1
    /\ hot' = {} /\ channel' = <<>> /\ worker' = NoWorker /\ spawned' = {}
    /\ gone' = gone \cup (Known \ Booked)
    /\ config' = IF settings = Unset THEN Unset ELSE settings.retention
    /\ cache' = Effective(policies, now) /\ timer' = Unset
    /\ client' = [c \in Clients |-> Idle]
    /\ sweeps' = {} /\ marks' = {} /\ pending' = {} /\ unsettled' = FALSE
    /\ UNCHANGED <<bound, now, events, daily, monthly, count, files, cleaned, snapshots, stored, misbooked>>
    /\ UNCHANGED <<settings, policies, audit, emitted, decisions, sent>>

Handler(c) ==
    \/ (\E ok \in BOOLEAN : AuditUpdate(c, ok)) \/ InsertDefaults(c)
    \/ SaveRetention(c) \/ SaveFails(c) \/ ApplyRetention(c)
    \/ ExpireStep(c) \/ MarkStep(c) \/ SweepStep(c) \/ BookStep(c)
    \/ DeleteRow(c) \/ RefreshRead(c) \/ RefreshReplace(c) \/ RefreshFails(c)

Arrival(c, req) ==
    \/ UpdateSettings(c, req) \/ GetSettings(c, req) \/ SetRetention(c, req)
    \/ RunCleanup(c, req) \/ UpsertPolicies(c, req) \/ DeletePolicy(c, req)

Next ==
    \/ UsageNext /\ UNCHANGED adminVars
    \/ \E c \in Clients : Handler(c) \/ \E req \in Requests : Arrival(c, req)
    \/ CleanupLists \/ CleanupMarks \/ ReclaimLists \/ ReclaimBooks
    \/ TimerRead \/ TimerReplace
    \/ \E ctx \in Contexts : CheckPolicy(ctx)
    \/ Restart

\* Handlers run on, and the refresh timer keeps ticking.
Fairness ==
    /\ \A c \in Clients : WF_vars(Handler(c))
    /\ WF_vars(TimerRead) /\ WF_vars(TimerReplace)

Spec == Init /\ [][Next]_vars /\ Fairness

-----------------------------------------------------------------------------
(* Properties.                                                             *)

\* However refreshes overlap, fail and install old reads over new ones, and
\* although rows start and cease to be in effect without a write, the cache
\* comes to hold the policies in effect (the 30 s refresh of builder.rs).
CacheConverges == <>[](cache = Effective(policies, now))

\* A run of the cleanup job ends with the file marked.
MarkedBy(m, f) == m \in marks /\ m \notin marks' /\ f \in m.rows

\* Retention deletes by the days the API reports: a file is marked only by a run
\* that listed it, and only when its newest row was no younger than the
\* retention reported when that run read the configuration, however much later
\* it marks - unless a change was just then saved and not yet applied, or the
\* two stores had been parted: by a settings update, defaults written on a
\* read, the days of a cleanup request, a change that was saved although its
\* request failed, or an older change applied over a newer one. A later change
\* and a restart bring them together again (retention/handlers.rs saves, then
\* applies; cleanup.rs lists, then marks).
DeletesAsReported ==
    [][ \A f \in files : f.state = "live" /\ [f EXCEPT !.state = "expired"] \in files'
            => \E m \in marks : MarkedBy(m, f) /\ (m.settled => f.ts <= m.at - m.reported * DayLen) ]_vars

\* What the API reports as blocked the enforcer refuses, and the other way
\* round: for every ingest quota, as long as the tables hold exactly what this
\* process has counted - unless a check that comes no later has let the request
\* through. The two sides read different stores and compare in code of their
\* own (service.rs quota_status, enforcer.rs compare_limit_i64).
QuotaStatusAgrees ==
    Booked = hot /\ Cardinality(events) = Cardinality(hot) =>
        \A s \in Signals :
            LET ctx    == [signal |-> s, records |-> 0, bytes |-> 0]
                res    == Resolve(cache, s, "ingest")
                spoke  == {c \in IngestChecks(hot, ctx, res, now) : c.verdict # "none"}
                refused == CheckIngest(hot, ctx, res, now) = "block"
                blocked == {st \in QuotaStatuses(cache, events, StoredBytes(s), s) :
                               /\ st.operation = "ingest" /\ st.kind = "quota"
                               /\ st.limit.basis = "compressed" /\ st.status = "blocked"}
            IN  /\ \A st \in blocked : \E c \in spoke :
                      /\ c.kind = "quota" /\ c.limit = st.limit.max /\ c.verdict = "block"
                      /\ refused \/ \E o \in spoke : o.rank <= c.rank /\ o.verdict # "block"
                /\ refused /\ (\A c \in spoke : c.kind = "quota") => blocked # {}

=============================================================================
