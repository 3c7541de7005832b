------------------------------ MODULE Admission ------------------------------
(***************************************************************************)
(* Overload protection of the ingest path: the concurrency budget and      *)
(* deadline of a listener (api-optel admission.rs), the circuit breaker    *)
(* with its cached disk and memory sample and the queue depth the server   *)
(* feeds it (circuit_breaker.rs, builder.rs), and the free-space guard of  *)
(* the WAL (zradar-wal disk.rs), consulted by append_batches before and by *)
(* Wal::append for every record.                                           *)
(*                                                                         *)
(* Both guards keep a sample that one caller at a time refreshes.  The     *)
(* caller sets a flag, awaits the measurement and clears the flag; while   *)
(* it awaits, its future may be dropped, by the deadline of the listener   *)
(* or by a client that disconnects.                                        *)
(***************************************************************************)
EXTENDS Integers, FiniteSets

CONSTANTS
    Request,        \* handlers that can be in flight on one listener
    Resource,       \* what the breaker samples: disk and memory
    MaxConcurrent,  \* otlp_limits.max_concurrent_requests
    CheckEvery      \* disk_check_interval of the WAL guard

ASSUME AdmissionAssumption ==
    /\ MaxConcurrent \in Nat \ {0}
    /\ CheckEvery \in Nat \ {0}
    /\ IsFiniteSet(Request)

VARIABLES
    permits,    \* free slots of the listener's semaphore
    pc,         \* where each handler is
    breaker,    \* the CircuitBreaker's atomics
    guard,      \* the DiskSpaceGuard's atomics
    orphaned,   \* a breaker sampler was dropped with the flag set (history)
    pressure,   \* resources that a measurement taken now finds over their threshold
                \* (one that cannot be measured is not among them)
    backlog,    \* the write buffer really is over max_queue_depth
    shortage    \* a measurement taken now finds the WAL filesystem below
                \* wal_min_free_bytes (one that fails does not)

vars == <<permits, pc, breaker, guard, orphaned, pressure, backlog, shortage>>
env  == <<pressure, backlog, shortage>>

Age == {"never", "fresh", "stale"}

\* A handler awaits in each of these, holding its slot.
Sampling == {"breaker_sample", "check_sample", "append_sample"}
InFlight == {"breaker", "check", "append", "durable"} \cup Sampling

BreakerState == [sampling : BOOLEAN, sample : Age,
                 over : SUBSET Resource, queue_over : BOOLEAN]
GuardState == [sampling : BOOLEAN, sample : Age,
               attempts : 0 .. CheckEvery - 1, low : BOOLEAN]

\* CircuitBreaker::new, DiskSpaceGuard::new and AdmissionLayer::new.  An
\* unknown measurement counts as below the threshold: both guards fail open.
Init ==
    /\ permits = MaxConcurrent
    /\ pc = [r \in Request |-> "idle"]
    /\ breaker = [sampling |-> FALSE, sample |-> "never",
                  over |-> {}, queue_over |-> FALSE]
    /\ guard = [sampling |-> FALSE, sample |-> "never",
                attempts |-> 0, low |-> FALSE]
    /\ orphaned = FALSE
    /\ pressure \in SUBSET Resource
    /\ backlog = FALSE
    /\ shortage \in BOOLEAN

Goto(r, l) == pc' = [pc EXCEPT ![r] = l]

-----------------------------------------------------------------------------
(***************************************************************************)
(* admission.rs.  A request takes a slot or is shed; the slot goes back    *)
(* when the response is produced or the future dropped.                    *)
(***************************************************************************)

\* Admission::call: no slot is waited for.  A shed request changes nothing.
Call(r) ==
    /\ pc[r] = "idle"
    /\ permits > 0
    /\ permits' = permits - 1
    /\ Goto(r, "breaker")
    /\ UNCHANGED <<breaker, guard, orphaned, env>>

\* The handler answers: _permit is dropped with the future.
Respond(r) ==
    /\ permits' = permits + 1
    /\ Goto(r, "idle")

\* Mutants of DropFuture: the slot is given back only with a response; the
\* WAL guard's flag is reset only where the sampler resumes.
DropFutureKeepsSlot(r) ==
    /\ pc[r] \in InFlight
    /\ Goto(r, "idle")
    /\ guard' = [guard EXCEPT !.sampling =
                    @ /\ pc[r] \notin {"check_sample", "append_sample"}]
    /\ orphaned' = (orphaned \/ pc[r] = "breaker_sample")
    /\ UNCHANGED <<permits, breaker, env>>

DropFutureKeepsFlag(r) ==
    /\ pc[r] \in InFlight
    /\ Respond(r)
    /\ orphaned' = (orphaned \/ pc[r] = "breaker_sample")
    /\ UNCHANGED <<breaker, guard, env>>

\* tokio::time::timeout elapses, or the client goes away: the handler's
\* future is dropped wherever it awaits.  A sampler of the WAL guard resets
\* the flag as it is dropped (SamplingFlag); one of the breaker does not.
DropFuture(r) ==
    /\ pc[r] \in InFlight
    /\ Respond(r)
    /\ guard' = [guard EXCEPT !.sampling =
                    @ /\ pc[r] \notin {"check_sample", "append_sample"}]
    /\ orphaned' = (orphaned \/ pc[r] = "breaker_sample")
    /\ UNCHANGED <<breaker, env>>

-----------------------------------------------------------------------------
(***************************************************************************)
(* circuit_breaker.rs                                                      *)
(***************************************************************************)

Tripped(b) == b.over # {} \/ b.queue_over

\* evaluate, once the sample is as fresh as it gets.
Evaluate(r, b) ==
    IF Tripped(b) THEN Respond(r) ELSE Goto(r, "check") /\ UNCHANGED permits

\* refresh_resources_if_stale returns at once: the sample is fresh, or
\* another caller is taking one.
CheckCached(r) ==
    /\ pc[r] = "breaker"
    /\ breaker.sample = "fresh" \/ breaker.sampling
    /\ Evaluate(r, breaker)
    /\ UNCHANGED <<breaker, guard, orphaned, env>>

\* Mutant: a load and a store in place of the compare_exchange.
StartSampleUnguarded(r) ==
    /\ pc[r] = "breaker"
    /\ breaker.sample # "fresh"
    /\ breaker' = [breaker EXCEPT !.sampling = TRUE]
    /\ Goto(r, "breaker_sample")
    /\ UNCHANGED <<permits, guard, orphaned, env>>

\* compare_exchange wins; the measurement runs on a blocking thread.
StartSample(r) ==
    /\ pc[r] = "breaker"
    /\ breaker.sample # "fresh"
    /\ ~breaker.sampling
    /\ breaker' = [breaker EXCEPT !.sampling = TRUE]
    /\ Goto(r, "breaker_sample")
    /\ UNCHANGED <<permits, guard, orphaned, env>>

\* Mutant: a resource once over its threshold stays so.
SampledOnlyUp(measured) ==
    [breaker EXCEPT !.over = @ \cup measured, !.sample = "fresh", !.sampling = FALSE]

\* ResourceSample::collect answers; a resource that cannot be measured is
\* stored as unknown, which compares as below the threshold.
Sampled(measured) ==
    [breaker EXCEPT !.over = measured, !.sample = "fresh", !.sampling = FALSE]

FinishSample(r) ==
    /\ pc[r] = "breaker_sample"
    /\ breaker' = Sampled(pressure)
    /\ Evaluate(r, breaker')
    /\ UNCHANGED <<guard, orphaned, env>>

\* The server's task that copies the buffer's record count every second.
SetQueueDepth ==
    /\ breaker.queue_over # backlog
    /\ breaker' = [breaker EXCEPT !.queue_over = backlog]
    /\ UNCHANGED <<permits, pc, guard, orphaned, env>>

-----------------------------------------------------------------------------
(***************************************************************************)
(* disk.rs, called twice for one record: by append_batches (check) before  *)
(* any group is appended and by Wal::append.                               *)
(***************************************************************************)

Where == {"check", "append"}
SampleOf(l) == IF l = "check" THEN "check_sample" ELSE "append_sample"

\* Mutant: only the first append samples.
SampleDueOnce(g) == g.sample = "never"

\* sample_due for the attempt about to be counted.
SampleDue(g) == g.sample = "never" \/ g.attempts = 0 \/ g.sample = "stale"

Counted(g) == [g EXCEPT !.attempts = (@ + 1) % CheckEvery]

\* Admit or refuse.  A refusal is answered with a retryable error.
Verdict(r, l, g) ==
    \/ /\ g.low
       /\ Respond(r)
    \/ /\ ~g.low
       /\ Goto(r, IF l = "check" THEN "append" ELSE "durable")
       /\ UNCHANGED permits

\* admit without a refresh of its own: not due, or another caller samples.
AdmitCached(r, l) ==
    /\ pc[r] = l
    /\ ~SampleDue(guard) \/ guard.sampling
    /\ guard' = Counted(guard)
    /\ Verdict(r, l, guard')
    /\ UNCHANGED <<breaker, orphaned, env>>

AdmitSampling(r, l) ==
    /\ pc[r] = l
    /\ SampleDue(guard) /\ ~guard.sampling
    /\ guard' = [Counted(guard) EXCEPT !.sampling = TRUE]
    /\ Goto(r, SampleOf(l))
    /\ UNCHANGED <<permits, breaker, orphaned, env>>

\* refresh stores the measurement, or unknown if it failed, which is no
\* shortage; the flag is cleared as it goes out of scope, before admit compares.
AdmitSampled(r, l) ==
    /\ pc[r] = SampleOf(l)
    /\ guard' = [guard EXCEPT !.low = shortage, !.sample = "fresh",
                              !.sampling = FALSE]
    /\ Verdict(r, l, guard')
    /\ UNCHANGED <<breaker, orphaned, env>>

\* The record is appended and fsynced, or the append fails: either way the
\* handler answers.
FinishAppend(r) ==
    /\ pc[r] = "durable"
    /\ Respond(r)
    /\ UNCHANGED <<breaker, guard, orphaned, env>>

-----------------------------------------------------------------------------

Stale(a) == IF a = "fresh" THEN "stale" ELSE a

\* A second passes: RESOURCE_SAMPLE_INTERVAL and MAX_SAMPLE_AGE are both 1 s.
Tick ==
    /\ "fresh" \in {breaker.sample, guard.sample}
    /\ breaker' = [breaker EXCEPT !.sample = Stale(@)]
    /\ guard' = [guard EXCEPT !.sample = Stale(@)]
    /\ UNCHANGED <<permits, pc, orphaned, env>>

\* The machine: pressure, backlog and free space change on their own, and
\* measurements begin and cease to fail.
Environment ==
    /\ \/ /\ pressure' \in (SUBSET Resource) \ {pressure}
          /\ UNCHANGED <<backlog, shortage>>
       \/ /\ backlog' = ~backlog
          /\ UNCHANGED <<pressure, shortage>>
       \/ /\ shortage' = ~shortage
          /\ UNCHANGED <<pressure, backlog>>
    /\ UNCHANGED <<permits, pc, breaker, guard, orphaned>>

Handler(r) ==
    \/ CheckCached(r) \/ StartSample(r) \/ FinishSample(r)
    \/ \E l \in Where : AdmitCached(r, l) \/ AdmitSampling(r, l)
                                          \/ AdmitSampled(r, l)
    \/ FinishAppend(r)

Next ==
    \/ \E r \in Request : Call(r) \/ Handler(r) \/ DropFuture(r)
    \/ SetQueueDepth \/ Tick \/ Environment

\* Traffic keeps arriving, tokio polls ready futures, and of the measurements
\* that are taken over and over some is not dropped before it returns.
Fairness ==
    /\ WF_vars(\E r \in Request : Call(r))
    /\ WF_vars(\E r \in Request : Handler(r))
    /\ SF_vars(\E r \in Request : FinishSample(r))
    /\ SF_vars(\E r \in Request, l \in Where : AdmitSampled(r, l))
    /\ WF_vars(SetQueueDepth)
    /\ WF_vars(Tick)

Spec == Init /\ [][Next]_vars /\ Fairness

-----------------------------------------------------------------------------
(***************************************************************************)
(* Properties                                                              *)
(***************************************************************************)

TypeOK ==
    /\ permits \in 0 .. MaxConcurrent
    /\ pc \in [Request -> {"idle"} \cup InFlight]
    /\ breaker \in BreakerState
    /\ guard \in GuardState
    /\ orphaned \in BOOLEAN
    /\ pressure \subseteq Resource
    /\ backlog \in BOOLEAN
    /\ shortage \in BOOLEAN

\* Every slot of the listener is free or held by a request in flight, however
\* requests end: answered, timed out or dropped (admission.rs, _permit).
PermitsConserved ==
    permits + Cardinality({r \in Request : pc[r] # "idle"}) = MaxConcurrent

Samplers(at) == {r \in Request : pc[r] \in at}

\* The free-space guard's flag is set exactly while one caller measures, also
\* when callers are dropped mid-sample (disk.rs, SamplingFlag): otherwise no
\* later append would refresh the sample.
GuardFlagOwned ==
    Cardinality(Samplers({"check_sample", "append_sample"})) =
        IF guard.sampling THEN 1 ELSE 0

\* The breaker takes one sample at a time, and its flag has lost its owner
\* only by a drop between the compare_exchange and the store that clears it.
BreakerSingleFlight ==
    /\ Cardinality(Samplers({"breaker_sample"})) <= 1
    /\ breaker.sampling <=> orphaned \/ Samplers({"breaker_sample"}) # {}

Attempts == \E r \in Request, l \in Where : AdmitCached(r, l) \/ AdmitSampling(r, l)
Checks   == \E r \in Request : CheckCached(r) \/ StartSample(r)

\* While appends are attempted, the guard's verdict comes to agree with what
\* measurements of the free space find, once that has stopped changing: shortage and recovery are noticed
\* whatever the caller's fate (disk.rs, "the age bound guarantees recovery
\* is noticed even under light traffic").
GuardTracksDisk ==
    []<><<Attempts>>_vars =>
        \A b \in BOOLEAN : <>[](shortage = b) => <>[](guard.low = b)

BreakerTracks ==
    []<><<Checks>>_vars =>
        \A p \in SUBSET Resource : <>[](pressure = p) => <>[](breaker.over = p)

\* While exports are checked, the breaker's sample comes to agree with what
\* measurements find, once that has stopped changing (circuit_breaker.rs,
\* refresh_resources_if_stale) - in runs in which no sampler is dropped.
BreakerTracksUnlessDropped == []~orphaned => BreakerTracks

\* The same without the proviso, as the comment on the function has it:
\* "Re-sample disk and memory usage if the cached sample is older than
\* RESOURCE_SAMPLE_INTERVAL".
BreakerTracksPressure == BreakerTracks
=============================================================================
