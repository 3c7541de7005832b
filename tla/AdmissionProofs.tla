--------------------------- MODULE AdmissionProofs ---------------------------
(***************************************************************************)
(* Proofs about Admission for any finite set of requests, any number of    *)
(* slots and any sampling interval: slots are conserved and each guard has *)
(* at most one sampler, wherever requests are dropped.                     *)
(***************************************************************************)
EXTENDS Admission, FiniteSetTheorems, TLAPS

Busy == {r \in Request : pc[r] # "idle"}
GuardSampling == {"check_sample", "append_sample"}

\* At most one caller measures, and the guard's flag says whether one does.
GuardOwner ==
    /\ \A r, s \in Request : pc[r] \in GuardSampling /\ pc[s] \in GuardSampling => r = s
    /\ guard.sampling <=> \E r \in Request : pc[r] \in GuardSampling

\* The same of the breaker, whose flag a dropped sampler leaves set, so that none follows.
BreakerOwner ==
    /\ \A r, s \in Request : pc[r] = "breaker_sample" /\ pc[s] = "breaker_sample" => r = s
    /\ (\E r \in Request : pc[r] = "breaker_sample") => breaker.sampling
    /\ orphaned => breaker.sampling /\ \A r \in Request : pc[r] # "breaker_sample"
    /\ breaker.sampling => orphaned \/ \E r \in Request : pc[r] = "breaker_sample"

AdmissionInv == TypeOK /\ PermitsConserved /\ GuardOwner /\ BreakerOwner

(***************************************************************************)
(* What a step does to the slots and the handlers: it takes a slot, moves  *)
(* a handler on, gives a slot back, or touches neither.                    *)
(***************************************************************************)
Takes(r) == pc[r] = "idle" /\ permits > 0 /\ permits' = permits - 1 /\ Goto(r, "breaker")
Moves(r) == pc[r] \in InFlight /\ permits' = permits /\ \E l \in InFlight : Goto(r, l)
Leaves(r) == pc[r] \in InFlight /\ Respond(r)

LEMMA HandlerShape ==
    ASSUME TypeOK, NEW r \in Request, Handler(r) \/ DropFuture(r)
    PROVE  Moves(r) \/ Leaves(r)
  <1> USE DEF InFlight, Sampling
  <1>1. CASE CheckCached(r)
    BY <1>1 DEF CheckCached, Evaluate, Moves, Leaves
  <1>2. CASE StartSample(r)
    BY <1>2 DEF StartSample, Moves
  <1>3. CASE FinishSample(r)
    BY <1>3 DEF FinishSample, Evaluate, Moves, Leaves
  <1>4. CASE \E l \in Where : AdmitCached(r, l)
    BY <1>4 DEF AdmitCached, Verdict, Where, Moves, Leaves
  <1>5. CASE \E l \in Where : AdmitSampling(r, l)
    BY <1>5 DEF AdmitSampling, SampleOf, Where, Moves
  <1>6. CASE \E l \in Where : AdmitSampled(r, l)
    BY <1>6 DEF AdmitSampled, SampleOf, Verdict, Where, Moves, Leaves
  <1>7. CASE FinishAppend(r)
    BY <1>7 DEF FinishAppend, Leaves
  <1>8. CASE DropFuture(r)
    BY <1>8 DEF DropFuture, Leaves
  <1> QED
    BY <1>1, <1>2, <1>3, <1>4, <1>5, <1>6, <1>7, <1>8 DEF Handler

LEMMA StepShape ==
    ASSUME TypeOK, [Next]_vars
    PROVE  \/ UNCHANGED <<permits, pc>>
           \/ \E r \in Request : Takes(r) \/ Moves(r) \/ Leaves(r)
  BY HandlerShape DEF Next, Call, Takes, SetQueueDepth, Tick, Environment, vars

SlotsKept ==
    /\ PermitsConserved'
    /\ permits' \in 0 .. MaxConcurrent
    /\ pc' \in [Request -> {"idle"} \cup InFlight]

(* Slots and busy handlers together stay MaxConcurrent. *)
LEMMA PermitsStep ==
    ASSUME TypeOK, PermitsConserved, [Next]_vars
    PROVE  SlotsKept
  <1> USE AdmissionAssumption
  <1>1. IsFiniteSet(Busy) /\ Cardinality(Busy) \in Nat
    BY FS_Subset, FS_CardinalityType DEF Busy
  <1>2. permits + Cardinality(Busy) = MaxConcurrent /\ permits \in 0 .. MaxConcurrent
    BY DEF PermitsConserved, Busy, TypeOK
  <1>3. Busy' = {r \in Request : pc'[r] # "idle"}
    BY DEF Busy
  <1>4. ASSUME NEW r \in Request, Takes(r) PROVE SlotsKept
    <2>1. r \notin Busy /\ Busy' = Busy \cup {r}
      BY <1>3, <1>4 DEF Takes, Goto, Busy, TypeOK
    <2>2. Cardinality(Busy') = Cardinality(Busy) + 1
      BY <1>1, <2>1, FS_AddElement
    <2>3. permits' + Cardinality(Busy') = MaxConcurrent /\ permits' \in 0 .. MaxConcurrent
      BY <1>1, <1>2, <1>4, <2>2 DEF Takes
    <2> QED
      BY <1>3, <1>4, <2>3 DEF SlotsKept, PermitsConserved, Takes, Goto, TypeOK, InFlight
  <1>5. ASSUME NEW r \in Request, Moves(r) PROVE SlotsKept
    <2>1. Busy' = Busy
      BY <1>3, <1>5 DEF Moves, Goto, Busy, TypeOK, InFlight, Sampling
    <2> QED
      BY <1>2, <1>3, <1>5, <2>1 DEF SlotsKept, PermitsConserved, Moves, Goto, TypeOK
  <1>6. ASSUME NEW r \in Request, Leaves(r) PROVE SlotsKept
    <2>1. r \in Busy /\ Busy' = Busy \ {r}
      BY <1>3, <1>6 DEF Leaves, Respond, Goto, Busy, TypeOK, InFlight, Sampling
    <2>2. Cardinality(Busy') = Cardinality(Busy) - 1 /\ Cardinality(Busy') \in Nat
      BY <1>1, <2>1, FS_RemoveElement, FS_CardinalityType
    <2>3. permits' + Cardinality(Busy') = MaxConcurrent /\ permits' \in 0 .. MaxConcurrent
      BY <1>1, <1>2, <1>6, <2>2 DEF Leaves, Respond
    <2> QED
      BY <1>3, <1>6, <2>3 DEF SlotsKept, PermitsConserved, Leaves, Respond, Goto, TypeOK
  <1>7. CASE UNCHANGED <<permits, pc>>
    BY <1>2, <1>7 DEF SlotsKept, PermitsConserved, TypeOK
  <1> QED
    BY <1>4, <1>5, <1>6, <1>7, StepShape

(***************************************************************************)
(* The guards.                                                             *)
(***************************************************************************)
LEMMA CountedType ==
    ASSUME TypeOK
    PROVE  Counted(guard) \in GuardState /\ Counted(guard).sampling = guard.sampling
  <1>1. (guard.attempts + 1) % CheckEvery \in 0 .. CheckEvery - 1
    BY AdmissionAssumption DEF TypeOK, GuardState
  <1> QED
    BY <1>1 DEF Counted, TypeOK, GuardState

LEMMA TypeStep ==
    ASSUME TypeOK, PermitsConserved, [Next]_vars
    PROVE  TypeOK'
  <1> USE DEF TypeOK
  <1>0. permits' \in 0 .. MaxConcurrent /\ pc' \in [Request -> {"idle"} \cup InFlight]
    BY PermitsStep DEF SlotsKept
  <1>1. ASSUME NEW r \in Request, Call(r) \/ Handler(r) \/ DropFuture(r) PROVE TypeOK'
    <2>1. CASE Call(r) \/ CheckCached(r) \/ FinishAppend(r)
      BY <1>0, <2>1 DEF Call, CheckCached, FinishAppend, env
    <2>2. CASE StartSample(r) \/ FinishSample(r)
      BY <1>0, <2>2 DEF StartSample, FinishSample, Sampled, BreakerState, Age, env
    <2>3. CASE \E l \in Where : AdmitCached(r, l) \/ AdmitSampling(r, l)
      BY <1>0, <2>3, CountedType DEF AdmitCached, AdmitSampling, GuardState, env
    <2>4. CASE \E l \in Where : AdmitSampled(r, l)
      BY <1>0, <2>4 DEF AdmitSampled, GuardState, Age, env
    <2>5. CASE DropFuture(r)
      <3>1. guard' \in GuardState
        BY <2>5 DEF DropFuture, GuardState
      <3>2. orphaned' \in BOOLEAN
        BY <2>5 DEF DropFuture
      <3> QED
        BY <1>0, <2>5, <3>1, <3>2 DEF DropFuture, env
    <2> QED
      BY <1>1, <2>1, <2>2, <2>3, <2>4, <2>5 DEF Handler
  <1>2. CASE SetQueueDepth
    BY <1>0, <1>2 DEF SetQueueDepth, BreakerState, env
  <1>3. CASE Tick
    BY <1>0, <1>3 DEF Tick, Stale, BreakerState, GuardState, Age, env
  <1>4. CASE Environment
    BY <1>0, <1>4 DEF Environment
  <1>5. CASE UNCHANGED vars
    BY <1>5 DEF vars
  <1> QED
    BY <1>1, <1>2, <1>3, <1>4, <1>5 DEF Next

(* A step that moves no handler into or out of the samplers keeps the owner. *)
LEMMA GuardFrame ==
    ASSUME GuardOwner, guard'.sampling = guard.sampling,
           \A r \in Request : pc'[r] \in GuardSampling <=> pc[r] \in GuardSampling
    PROVE  GuardOwner'
  BY DEF GuardOwner

LEMMA GuardStep ==
    ASSUME TypeOK, GuardOwner, [Next]_vars
    PROVE  GuardOwner'
  <1> USE DEF TypeOK, GuardSampling
  <1>1. ASSUME NEW r \in Request, Call(r) \/ Handler(r) \/ DropFuture(r) PROVE GuardOwner'
    <2>1. CASE Call(r) \/ CheckCached(r) \/ FinishAppend(r) \/ StartSample(r) \/ FinishSample(r)
      BY <2>1, GuardFrame DEF Call, CheckCached, FinishAppend, StartSample, FinishSample,
         Evaluate, Respond, Goto
    <2>2. CASE \E l \in Where : AdmitCached(r, l)
      BY <2>2, CountedType, GuardFrame DEF AdmitCached, Verdict, Respond, Goto, Where
    <2>3. CASE \E l \in Where : AdmitSampling(r, l)
      <3>1. PICK l \in Where : AdmitSampling(r, l)
        BY <2>3
      <3>2. \A s \in Request : pc[s] \notin GuardSampling
        BY <3>1 DEF AdmitSampling, GuardOwner
      <3>3. guard'.sampling = TRUE
        BY <3>1, CountedType DEF AdmitSampling, GuardState
      <3>4. pc'[r] \in GuardSampling /\ \A s \in Request : s # r => pc'[s] = pc[s]
        BY <3>1 DEF AdmitSampling, Goto, SampleOf, Where
      <3> QED
        BY <3>2, <3>3, <3>4 DEF GuardOwner
    <2>4. CASE \E l \in Where : AdmitSampled(r, l)
      <3>1. PICK l \in Where : AdmitSampled(r, l)
        BY <2>4
      <3>2. pc[r] \in GuardSampling
        BY <3>1 DEF AdmitSampled, SampleOf, Where
      <3>3. guard'.sampling = FALSE
        BY <3>1 DEF AdmitSampled, GuardState
      <3>4. pc'[r] \notin GuardSampling /\ \A s \in Request : s # r => pc'[s] = pc[s]
        BY <3>1 DEF AdmitSampled, Verdict, Respond, Goto, Where
      <3> QED
        BY <3>2, <3>3, <3>4 DEF GuardOwner
    <2>5. CASE DropFuture(r)
      <3>1. pc'[r] = "idle" /\ \A s \in Request : s # r => pc'[s] = pc[s]
        BY <2>5 DEF DropFuture, Respond, Goto
      <3>2. CASE pc[r] \in GuardSampling
        <4>1. guard'.sampling = FALSE
          BY <2>5, <3>2 DEF DropFuture, GuardState
        <4> QED
          BY <3>1, <3>2, <4>1 DEF GuardOwner
      <3>3. CASE pc[r] \notin GuardSampling
        <4>1. guard'.sampling = guard.sampling
          BY <2>5, <3>3 DEF DropFuture, GuardState
        <4> QED
          BY <3>1, <3>3, <4>1, GuardFrame
      <3> QED
        BY <3>2, <3>3
    <2> QED
      BY <1>1, <2>1, <2>2, <2>3, <2>4, <2>5 DEF Handler
  <1>2. CASE SetQueueDepth \/ Environment \/ UNCHANGED vars
    BY <1>2, GuardFrame DEF SetQueueDepth, Environment, vars
  <1>3. CASE Tick
    BY <1>3, GuardFrame DEF Tick, GuardState
  <1> QED
    BY <1>1, <1>2, <1>3 DEF Next

LEMMA BreakerFrame ==
    ASSUME BreakerOwner, breaker'.sampling = breaker.sampling, orphaned' = orphaned,
           \A r \in Request : pc'[r] = "breaker_sample" <=> pc[r] = "breaker_sample"
    PROVE  BreakerOwner'
  BY DEF BreakerOwner

LEMMA BreakerStep ==
    ASSUME TypeOK, BreakerOwner, [Next]_vars
    PROVE  BreakerOwner'
  <1> USE DEF TypeOK
  <1>1. ASSUME NEW r \in Request, Call(r) \/ Handler(r) \/ DropFuture(r) PROVE BreakerOwner'
    <2>1. CASE Call(r) \/ CheckCached(r) \/ FinishAppend(r)
      BY <2>1, BreakerFrame DEF Call, CheckCached, FinishAppend, Evaluate, Respond, Goto
    <2>2. CASE \E l \in Where : AdmitCached(r, l) \/ AdmitSampling(r, l) \/ AdmitSampled(r, l)
      BY <2>2, BreakerFrame DEF AdmitCached, AdmitSampling, AdmitSampled, SampleOf, Verdict, Respond, Goto, Where
    <2>3. CASE StartSample(r)
      <3>1. ~breaker.sampling /\ breaker'.sampling = TRUE /\ orphaned' = orphaned
        BY <2>3 DEF StartSample, BreakerState
      <3>2. pc'[r] = "breaker_sample" /\ \A s \in Request : s # r => pc'[s] = pc[s]
        BY <2>3 DEF StartSample, Goto
      <3> QED
        BY <3>1, <3>2 DEF BreakerOwner
    <2>4. CASE FinishSample(r)
      <3>1. breaker'.sampling = FALSE /\ orphaned' = orphaned
        BY <2>4 DEF FinishSample, Sampled, BreakerState
      <3>2. pc'[r] # "breaker_sample" /\ \A s \in Request : s # r => pc'[s] = pc[s]
        BY <2>4 DEF FinishSample, Evaluate, Respond, Goto
      <3> QED
        BY <2>4, <3>1, <3>2 DEF BreakerOwner, FinishSample
    <2>5. CASE DropFuture(r)
      <3>1. breaker' = breaker /\ (orphaned' <=> orphaned \/ pc[r] = "breaker_sample")
        BY <2>5 DEF DropFuture
      <3>2. pc'[r] = "idle" /\ \A s \in Request : s # r => pc'[s] = pc[s]
        BY <2>5 DEF DropFuture, Respond, Goto
      <3> QED
        BY <3>1, <3>2 DEF BreakerOwner
    <2> QED
      BY <1>1, <2>1, <2>2, <2>3, <2>4, <2>5 DEF Handler
  <1>2. CASE Environment \/ UNCHANGED vars
    BY <1>2, BreakerFrame DEF Environment, vars
  <1>3. CASE Tick \/ SetQueueDepth
    BY <1>3, BreakerFrame DEF Tick, SetQueueDepth, BreakerState
  <1> QED
    BY <1>1, <1>2, <1>3 DEF Next

(***************************************************************************)
(* Theorems.                                                               *)
(***************************************************************************)
LEMMA AdmissionInit == Init => AdmissionInv
  <1> SUFFICES ASSUME Init PROVE AdmissionInv
    OBVIOUS
  <1>1. TypeOK
    <2>1. permits \in 0 .. MaxConcurrent /\ 0 \in 0 .. CheckEvery - 1
      BY AdmissionAssumption DEF Init
    <2>2. guard \in GuardState /\ breaker \in BreakerState
      BY <2>1 DEF Init, GuardState, BreakerState, Age
    <2> QED
      BY <2>1, <2>2 DEF Init, TypeOK
  <1>2. PermitsConserved
    <2>1. {r \in Request : pc[r] # "idle"} = {}
      BY DEF Init
    <2> QED
      BY <2>1, FS_EmptySet, AdmissionAssumption DEF PermitsConserved, Init
  <1>3. GuardOwner /\ BreakerOwner
    BY DEF Init, GuardOwner, BreakerOwner, GuardSampling
  <1> QED
    BY <1>1, <1>2, <1>3 DEF AdmissionInv

\* The invariant holds in every reachable state: the state is well typed, the
\* slots of admission.rs are conserved, and the flag of each guard has the
\* owner that will clear it, or, in the breaker, has lost it to a drop.
THEOREM AdmissionInvariant == Spec => []AdmissionInv
  <1>1. AdmissionInv /\ [Next]_vars => AdmissionInv'
    BY TypeStep, PermitsStep, GuardStep, BreakerStep DEF AdmissionInv, SlotsKept
  <1> QED
    BY <1>1, AdmissionInit, PTL DEF Spec

\* No slot of a listener leaks and none is given out twice, however requests
\* end (admission.rs, _permit).
THEOREM SlotsConserved == Spec => []PermitsConserved
  <1>1. AdmissionInv => PermitsConserved
    BY DEF AdmissionInv
  <1> QED
    BY <1>1, AdmissionInvariant, PTL

\* The flag of the WAL's free-space guard is set exactly while one caller
\* measures (disk.rs, SamplingFlag).
THEOREM FlagOwned == Spec => []GuardFlagOwned
  <1>1. AdmissionInv => GuardFlagOwned
    <2> SUFFICES ASSUME AdmissionInv PROVE GuardFlagOwned
      OBVIOUS
    <2> DEFINE S == Samplers({"check_sample", "append_sample"})
    <2>1. CASE guard.sampling
      <3>1. PICK r \in Request : pc[r] \in GuardSampling
        BY <2>1 DEF AdmissionInv, GuardOwner
      <3>2. S = {r}
        BY <3>1 DEF AdmissionInv, GuardOwner, GuardSampling, Samplers
      <3> QED
        BY <2>1, <3>2, FS_Singleton DEF GuardFlagOwned
    <2>2. CASE ~guard.sampling
      <3>1. S = {}
        BY <2>2 DEF AdmissionInv, GuardOwner, GuardSampling, Samplers
      <3> QED
        BY <2>2, <3>1, FS_EmptySet DEF GuardFlagOwned
    <2> QED
      BY <2>1, <2>2
  <1> QED
    BY <1>1, AdmissionInvariant, PTL

\* The breaker takes one sample at a time, and its flag is without an owner
\* only after a sampler was dropped (circuit_breaker.rs,
\* refresh_resources_if_stale).
THEOREM SingleFlight == Spec => []BreakerSingleFlight
  <1>1. AdmissionInv => BreakerSingleFlight
    <2> SUFFICES ASSUME AdmissionInv PROVE BreakerSingleFlight
      OBVIOUS
    <2> DEFINE S == Samplers({"breaker_sample"})
    <2>1. S = {r \in Request : pc[r] = "breaker_sample"}
      BY DEF Samplers
    <2>2. Cardinality(S) <= 1
      <3>1. CASE S = {}
        BY <3>1, FS_EmptySet
      <3>2. CASE S # {}
        <4>1. PICK r \in S : TRUE
          BY <3>2
        <4>2. S = {r}
          BY <2>1, <4>1 DEF AdmissionInv, BreakerOwner
        <4> QED
          BY <4>2, FS_Singleton, SMTT(30)
      <3> QED
        BY <3>1, <3>2
    <2>3. breaker.sampling <=> orphaned \/ S # {}
      BY <2>1 DEF AdmissionInv, BreakerOwner
    <2> QED
      BY <2>2, <2>3 DEF BreakerSingleFlight
  <1> QED
    BY <1>1, AdmissionInvariant, PTL
=============================================================================
