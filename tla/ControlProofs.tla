--------------------------- MODULE ControlProofs ---------------------------
(***************************************************************************)
(* Proofs about the control plane and usage accounting: files are deleted  *)
(* by the retention that is reported, no sample is lost or booked twice    *)
(* unexplained, the reports agree, the storage books add up, and the quota *)
(* status agrees with the enforcer.                                        *)
(***************************************************************************)
EXTENDS ControlInv, FiniteSums, SequenceTheorems

-----------------------------------------------------------------------------
(* The steps, as far as usage and files are concerned.                     *)

Runners == Clients \cup {"timer"}
Marking == \E m \in marks, ok \in BOOLEAN :
               MarkDeleted(m, ok) /\ UNCHANGED <<bound, now, tracker, cleaned, snapshots, sweeps, stored, misbooked>>
Listing == \E by \in Runners :
               ListDeleted(by) /\ UNCHANGED <<bound, now, tracker, files, cleaned, snapshots, stored, misbooked>>
Sweeping == \E r \in sweeps : \E done \in SUBSET r.rows :
               BookAndDelete(r, done) /\ UNCHANGED <<bound, now, tracker, snapshots, stored>>
Quiet == UNCHANGED <<bound, now, tracker, storage>>

UsageStep ==
    \/ \E s \in Signals, b \in Sizes : WriteFile(s, b) \/ QueryDone(s, b)
    \/ \E f, g \in files : Compact(f, g)
    \/ \E u \in spawned : Record(u)
    \/ Receive \/ Flush \/ Snapshot \/ Tick
    \/ Marking \/ Listing \/ Sweeping \/ Restart \/ Quiet

\* Every step is a step of usage accounting, of a cleanup or of a reclaim, a
\* restart or leaves samples and files alone.
LEMMA StepsAre == [Next]_vars => UsageStep
<1> SUFFICES ASSUME [Next]_vars PROVE UsageStep
    OBVIOUS
<1> USE DEF UsageStep
<1>1. CASE UsageNext
    BY <1>1 DEF UsageNext
<1>2. ASSUME NEW c \in Clients, Handler(c) PROVE UsageStep
  <2>1. CASE MarkStep(c)
      BY <2>1 DEF MarkStep, Marking, tracker
  <2>2. CASE SweepStep(c)
    <3>1. CASE Deleted = {}
        BY <2>2, <3>1 DEF SweepStep, ListDeleted, Quiet, tracker, storage
    <3>2. CASE Deleted # {}
      <4>1. ListDeleted(c) /\ UNCHANGED <<bound, now, tracker, files, cleaned, snapshots, stored, misbooked>>
          BY <2>2, <3>2 DEF SweepStep, tracker
      <4> QED BY <4>1 DEF Listing, Runners
    <3> QED BY <3>1, <3>2
  <2>3. CASE BookStep(c)
      BY <2>3 DEF BookStep, Sweeping, tracker
  <2>4. CASE RefreshFails(c) \/ SaveFails(c)
      BY <2>4 DEF RefreshFails, SaveFails, Quiet, tracker, storage
  <2>5. CASE \/ \E ok \in BOOLEAN : AuditUpdate(c, ok)
             \/ InsertDefaults(c) \/ SaveRetention(c) \/ ApplyRetention(c) \/ ExpireStep(c)
             \/ DeleteRow(c) \/ RefreshRead(c) \/ RefreshReplace(c)
      BY <2>5 DEF AuditUpdate, InsertDefaults, SaveRetention, ApplyRetention, ExpireStep, DeleteRow, RefreshRead,
                  RefreshReplace, Quiet, usageVars, tracker, storage
  <2> QED BY <1>2, <2>1, <2>2, <2>3, <2>4, <2>5 DEF Handler
<1>3. ASSUME NEW c \in Clients, NEW req \in Requests, Arrival(c, req) PROVE UsageStep
    BY <1>3 DEF Arrival, UpdateSettings, GetSettings, SetRetention, RunCleanup, UpsertPolicies, DeletePolicy,
                Quiet, usageVars, tracker, storage
<1>4. CASE CleanupMarks \/ CleanupLists
  <2>1. CASE CleanupMarks
      BY <2>1 DEF CleanupMarks, Marking, tracker
  <2>2. CASE CleanupLists
      BY <2>2 DEF CleanupLists, Quiet, usageVars, tracker, storage
  <2> QED BY <1>4, <2>1, <2>2
<1>5. CASE ReclaimLists \/ ReclaimBooks
  <2>1. CASE ReclaimLists
    <3>1. ListDeleted("timer") /\ UNCHANGED <<bound, now, tracker, files, cleaned, snapshots, stored, misbooked>>
        BY <2>1 DEF ReclaimLists, tracker
    <3> QED BY <3>1 DEF Listing, Runners
  <2>2. CASE ReclaimBooks
      BY <2>2 DEF ReclaimBooks, Sweeping, tracker
  <2> QED BY <1>5, <2>1, <2>2
<1>6. CASE TimerRead \/ TimerReplace \/ \E ctx \in Contexts : CheckPolicy(ctx)
    BY <1>6 DEF TimerRead, TimerReplace, CheckPolicy, Quiet, usageVars, tracker, storage
<1>7. CASE UNCHANGED vars
    BY <1>7 DEF vars, Quiet, usageVars, tracker, storage
<1> QED BY <1>1, <1>2, <1>3, <1>4, <1>5, <1>6, <1>7 DEF Next

-----------------------------------------------------------------------------
(* Files.                                                                  *)

\* What a run makes of a file.
Mark(m, f) == IF f \in m.rows THEN [f EXCEPT !.state = "expired"] ELSE f

LEMMA MarkOK ==
    ASSUME NEW m, NEW f \in Rows
    PROVE  /\ Mark(m, f) \in Rows /\ Mark(m, f).id = f.id /\ Mark(m, f).signal = f.signal /\ Mark(m, f).bytes = f.bytes
BY DEF Mark, Rows

LEMMA MarkingIs ==
    ASSUME Marking
    PROVE  /\ files' = files \/ \E m \in marks : marks' = marks \ {m} /\ files' = {Mark(m, f) : f \in files}
           /\ UNCHANGED <<bound, now, tracker, cleaned, snapshots, sweeps, stored, misbooked>>
<1>1. PICK m \in marks, ok \in BOOLEAN :
            MarkDeleted(m, ok) /\ UNCHANGED <<bound, now, tracker, cleaned, snapshots, sweeps, stored, misbooked>>
    BY DEF Marking
<1>2. marks' = marks \ {m} /\ (files' = files \/ files' = {Mark(m, f) : f \in files})
    BY <1>1 DEF MarkDeleted, Mark
<1> QED BY <1>1, <1>2

\* The file a write registers.
LEMMA FileOK ==
    ASSUME ClockInv, NEW s \in Signals, NEW b \in Nat
    PROVE  File(s, b) \in Rows /\ File(s, b).id = count + 1 /\ File(s, b).signal = s /\ File(s, b).bytes = b
           /\ File(s, b).state = "live"
BY DEF File, Rows, ClockInv

\* The files a compaction leaves: the two it merged and their union.
Merge(f, g) == [File(f.signal, f.bytes + g.bytes) EXCEPT !.ts = Max({f.ts, g.ts})]
LEMMA MergeOK ==
    ASSUME ClockInv, NEW f \in Rows, NEW g \in Rows
    PROVE  /\ Merge(f, g) \in Rows /\ Merge(f, g).id = count + 1 /\ Merge(f, g).signal = f.signal
           /\ Merge(f, g).bytes = f.bytes + g.bytes /\ Merge(f, g).state = "live"
           /\ [f EXCEPT !.state = "merged"] \in Rows
           /\ [f EXCEPT !.state = "merged"].id = f.id
           /\ [f EXCEPT !.state = "merged"].signal = f.signal
           /\ [f EXCEPT !.state = "merged"].bytes = f.bytes
           /\ [f EXCEPT !.state = "merged"].state = "merged"
<1>1. f.ts \in Nat /\ g.ts \in Nat /\ f.bytes + g.bytes \in Nat /\ f.signal \in Signals
    BY DEF Rows
<1>2. Max({f.ts, g.ts}) \in Nat
    BY <1>1, MaxOfTwo
<1> DEFINE new == File(f.signal, f.bytes + g.bytes)
<1>3. new \in Rows /\ new.id = count + 1 /\ new.signal = f.signal /\ new.bytes = f.bytes + g.bytes /\ new.state = "live"
    BY <1>1, FileOK
<1>4. /\ Merge(f, g) \in Rows /\ Merge(f, g).id = count + 1 /\ Merge(f, g).signal = f.signal
      /\ Merge(f, g).bytes = f.bytes + g.bytes /\ Merge(f, g).state = "live"
  <2> HIDE DEF new
  <2>1. Merge(f, g) = [new EXCEPT !.ts = Max({f.ts, g.ts})]
      BY DEF Merge, new
  <2> QED BY <1>2, <1>3, <2>1 DEF Rows
<1> QED BY <1>4 DEF Rows

LEMMA FiniteThree == \A a, b, c : IsFiniteSet({a, b, c})
<1> SUFFICES ASSUME NEW a, NEW b, NEW c PROVE IsFiniteSet({a, b, c})
    OBVIOUS
<1>1. IsFiniteSet({a})
    BY FS_Singleton
<1>2. IsFiniteSet({a} \cup {b})
    BY <1>1, FS_AddElement
<1>3. IsFiniteSet(({a} \cup {b}) \cup {c})
    BY <1>2, FS_AddElement
<1>4. {a, b, c} = ({a} \cup {b}) \cup {c}
    OBVIOUS
<1> QED BY <1>3, <1>4, Zenon

LEMMA FilesStep ==
    ASSUME FilesInv, ClockInv, UsageStep
    PROVE  FilesInv'
<1> USE DEF FilesInv
<1>1. ASSUME NEW s \in Signals, NEW b \in Sizes, WriteFile(s, b)
      PROVE  FilesInv'
  <2>1. File(s, b) \in Rows /\ File(s, b).id = count + 1
      BY FileOK, UsageAssumption
  <2>2. files' = files \cup {File(s, b)} /\ count' = count + 1 /\ count \in Nat
      BY <1>1 DEF WriteFile, Spawn, ClockInv
  <2>3. IsFiniteSet(files')
      BY <2>2, FS_AddElement
  <2> QED BY <2>1, <2>2, <2>3
<1>2. ASSUME NEW f \in files, NEW g \in files, Compact(f, g)
      PROVE  FilesInv'
  <2> DEFINE a == [f EXCEPT !.state = "merged"]
             b == [g EXCEPT !.state = "merged"]
             m == Merge(f, g)
  <2>1. files' = (files \ {f, g}) \cup {a, b, m} /\ count' = count + 1 /\ count \in Nat /\ f # g
      BY <1>2 DEF Compact, Spawn, ClockInv, Merge
  <2>2. m \in Rows /\ m.id = count + 1 /\ a \in Rows /\ a.id = f.id /\ b \in Rows /\ b.id = g.id
      BY MergeOK
  <2> HIDE DEF a, b, m
  <2>3. IsFiniteSet(files')
    <3>1. IsFiniteSet(files \ {f, g}) /\ IsFiniteSet({a, b, m})
        BY FS_Subset, FS_AddElement, FS_EmptySet, FiniteThree
    <3> QED BY <2>1, <3>1, FS_Union
  <2>4. files' \subseteq Rows /\ \A x \in files' : x.id \in 1 .. count'
      BY <2>1, <2>2
  <2>5. ASSUME NEW x \in files', NEW y \in files', x.id = y.id PROVE x = y
      BY <2>1, <2>2, <2>5
  <2> QED BY <2>3, <2>4, <2>5
<1>3. ASSUME NEW m, files' = {Mark(m, f) : f \in files}, count' = count
      PROVE  FilesInv'
  <2>1. IsFiniteSet(files')
    <3> DEFINE h == [x \in files |-> Mark(m, x)]
    <3>1. \A f \in files : h[f] = Mark(m, f)
        OBVIOUS
    <3>2. files' = {h[f] : f \in files}
        BY <1>3, <3>1
    <3> HIDE DEF h
    <3>3. IsFiniteSet({h[f] : f \in files})
        BY FiniteImage
    <3> QED BY <3>2, <3>3, Zenon
  <2> QED BY <1>3, <2>1, MarkOK
<1>4. CASE Sweeping
  <2>1. files' \subseteq files /\ count' = count
      BY <1>4 DEF Sweeping, BookAndDelete, tracker
  <2>2. IsFiniteSet(files')
      BY <2>1, FS_Subset
  <2> QED BY <2>1, <2>2
<1>5. ASSUME files' = files, count' = count \/ count' = count + 1
      PROVE  FilesInv'
    BY <1>5 DEF ClockInv
<1>6. CASE \E s \in Signals, b \in Sizes : QueryDone(s, b)
    BY <1>5, <1>6 DEF QueryDone, Spawn, storage
<1>7. CASE Quiet \/ Listing \/ Restart \/ Tick \/ Snapshot \/ Flush \/ Receive \/ \E u \in spawned : Record(u)
    BY <1>5, <1>7 DEF Quiet, Listing, Restart, Tick, Snapshot, Flush, Receive, Record, storage, tracker
<1>8. CASE Marking
  <2>1. count' = count
      BY <1>8, MarkingIs DEF tracker
  <2> QED BY <1>3, <1>5, <1>8, <2>1, MarkingIs
<1> QED BY <1>1, <1>2, <1>4, <1>6, <1>7, <1>8 DEF UsageStep

LEMMA ClockStep ==
    ASSUME ClockInv, UsageStep
    PROVE  ClockInv' /\ now' \in {now, now + 1} /\ bound' = bound /\ count' \in {count, count + 1}
<1> USE DEF ClockInv
<1>1. \A b \in Bounds : b.time \in Nat
    BY UsageAssumption
<1>2. CASE \/ \E s \in Signals, b \in Sizes : WriteFile(s, b) \/ QueryDone(s, b)
           \/ \E f, g \in files : Compact(f, g)
  <2>1. bound' = bound /\ now' = now /\ count' = count + 1
      BY <1>2, Zenon DEF WriteFile, QueryDone, Compact, Spawn
  <2> QED BY <2>1
<1>3. CASE Tick
    BY <1>1, <1>3 DEF Tick, tracker
<1>4. CASE \/ Quiet \/ Restart \/ Snapshot \/ Flush \/ Receive \/ Marking \/ Listing \/ Sweeping
           \/ \E u \in spawned : Record(u)
    BY <1>4 DEF Quiet, Restart, Snapshot, Flush, Receive, Record, Marking, Listing, Sweeping, tracker
<1> QED BY <1>2, <1>3, <1>4 DEF UsageStep

-----------------------------------------------------------------------------
(* Retention.                                                              *)

\* The days of a change are a number, and so the days that are enforced.
LEMMA SettingsStep ==
    ASSUME ClientInv, SettledInv, [Next]_vars
    PROVE  ClientInv' /\ SettledInv'
<1> USE DEF ClientInv
<1>0. /\ \A r \in Requests : r.name = "set_retention" => r.days \in Int /\ r.days # Unset
      /\ \A r \in Requests : r.name = "update_settings" => r.settings \in WorkspaceSettings
      /\ DefaultSettings \in WorkspaceSettings /\ Unset \notin WorkspaceSettings
    BY ControlAssumption, UsageAssumption
<1>1. \A s \in WorkspaceSettings : s.retention \in Int /\ s.retention # Unset
    BY UsageAssumption DEF WorkspaceSettings
\* A client that was not about to apply a change goes on to something that is
\* no change.
<1>2. ASSUME NEW c \in Clients, NEW pc, NEW req, NEW read, Step(c, pc, req, read),
             pc \notin {"merge", "apply"}, client[c].pc # "apply",
             settings' \in WorkspaceSettings \cup {Unset}, unsettled' \in BOOLEAN,
             pending' \subseteq pending, pending' # {} => settings' = settings,
             Settled' => Settled /\ settings' = settings /\ config' = config
      PROVE  ClientInv' /\ SettledInv'
  <2>1. /\ \A d \in Clients : d # c => client'[d] = client[d]
        /\ client'[c].pc = pc /\ client' = [d \in Clients |-> client'[d]]
      BY <1>2 DEF Step
  <2>2. ClientInv'
      BY <1>2, <2>1 DEF Changing
  <2>3. \A d \in pending : d # c
      BY <1>2 DEF SettledInv
  <2>4. \A d \in pending' : /\ d \in Clients /\ client'[d].pc = "apply" /\ settings' # Unset
                           /\ settings'.retention = client'[d].req.days
      BY <1>2, <2>1, <2>3 DEF SettledInv
  <2>5. \A d, e \in pending' : d = e
      BY <1>2 DEF SettledInv
  <2>6. Settled' => Agreed'
      BY <1>2 DEF SettledInv, Agreed, ReportedDays, EffectiveDays
  <2> QED BY <2>2, <2>4, <2>5, <2>6 DEF SettledInv
\* Such a client is done.
<1>3. ASSUME NEW c \in Clients, Done(c), client[c].pc # "apply",
             settings' \in WorkspaceSettings \cup {Unset}, unsettled' \in BOOLEAN,
             pending' \subseteq pending, pending' # {} => settings' = settings,
             Settled' => Settled /\ settings' = settings /\ config' = config
      PROVE  ClientInv' /\ SettledInv'
  <2>1. Step(c, "idle", Unset, Unset)
      BY <1>3 DEF Done, Step, Idle
  <2> QED BY <1>2, <1>3, <2>1
\* Clients stay where they are.
<1>4. ASSUME UNCHANGED <<client, settings, config, pending, unsettled>>
      PROVE  ClientInv' /\ SettledInv'
    BY <1>4 DEF SettledInv, Settled, Agreed, ReportedDays, EffectiveDays, Changing
<1>5. ASSUME NEW c \in Clients, Handler(c) PROVE ClientInv' /\ SettledInv'
  <2>1. CASE \E ok \in BOOLEAN : AuditUpdate(c, ok)
      BY <1>3, <2>1 DEF AuditUpdate, At, Settled
  <2>2. CASE InsertDefaults(c)
      BY <1>0, <1>3, <2>2 DEF InsertDefaults, At, SettingsApart, Settled
  <2>3. ASSUME At(c, "merge", "set_retention")
        PROVE  /\ client[c].pc = "merge" /\ client[c].req \in Requests /\ client[c].req.name = "set_retention"
               /\ Merged(c) \in WorkspaceSettings /\ Merged(c).retention = client[c].req.days
    <3>1. client[c].pc = "merge" /\ Changing(c)
        BY <2>3 DEF At, Changing
    <3>2. client[c].req \in Requests /\ client[c].req.name = "set_retention" /\ client[c].read \in WorkspaceSettings
        BY <3>1
    <3> QED BY <1>0, <3>1, <3>2 DEF Merged, WorkspaceSettings
  <2>4. CASE SaveRetention(c)
    <3>1. /\ client[c].pc = "merge" /\ settings' = Merged(c) /\ pending' = {c} /\ unsettled' = FALSE
          /\ client[c].req \in Requests /\ client[c].req.name = "set_retention"
          /\ Merged(c) \in WorkspaceSettings /\ Merged(c).retention = client[c].req.days
        BY <2>3, <2>4 DEF SaveRetention
    <3>2. /\ \A d \in Clients : d # c => client'[d] = client[d]
          /\ client'[c].pc = "apply" /\ client'[c].req = client[c].req
          /\ client' = [d \in Clients |-> client'[d]]
        BY <2>4 DEF SaveRetention, Step
    <3>3. ClientInv'
        BY <3>1, <3>2 DEF Changing
    <3>4. ~Settled'
        BY <3>1 DEF Settled
    <3> QED BY <1>0, <3>1, <3>2, <3>3, <3>4 DEF SettledInv
  <2>5. CASE SaveFails(c)
    <3>1. client[c].pc = "merge" /\ Merged(c) \in WorkspaceSettings /\ Done(c) /\ config' = config
        BY <2>3, <2>5 DEF SaveFails
    <3>2. CASE settings' = Merged(c) /\ SettingsApart
        BY <1>3, <3>1, <3>2 DEF SettingsApart, Settled
    <3>3. CASE UNCHANGED <<settings, pending, unsettled>>
        BY <1>3, <3>1, <3>3 DEF Settled
    <3> QED BY <2>5, <3>2, <3>3 DEF SaveFails
  <2>6. CASE ApplyRetention(c)
    <3>1. /\ client[c].pc = "apply" /\ config' = client[c].req.days /\ settings' = settings
          /\ pending' = pending \ {c} /\ unsettled' = (pending = {})
          /\ \A d \in Clients : d # c => client'[d] = client[d]
          /\ client'[c].pc = "idle" /\ client' = [d \in Clients |-> client'[d]]
        BY <2>6 DEF ApplyRetention, At, Applied, Done, Idle
    <3>2. Changing(c) /\ client[c].req \in Requests /\ client[c].req.name = "set_retention" /\ ~Changing(c)'
        BY <3>1 DEF Changing
    <3>3. ClientInv'
        BY <3>1 DEF Changing
    <3>4. \A d \in pending' : /\ d \in Clients /\ client'[d].pc = "apply" /\ settings' # Unset
                             /\ settings'.retention = client'[d].req.days
        BY <3>1 DEF SettledInv
    <3>5. \A d, e \in pending' : d = e
        BY <3>1 DEF SettledInv
    <3>6. ASSUME Settled' PROVE Agreed'
      <4>1. c \in pending
          BY <3>1, <3>6 DEF Settled
      <4>2. settings # Unset /\ settings.retention = client[c].req.days
          BY <4>1 DEF SettledInv
      <4> QED BY <1>0, <3>1, <3>2, <4>2 DEF Agreed, ReportedDays, EffectiveDays
    <3> QED BY <3>3, <3>4, <3>5, <3>6 DEF SettledInv
  <2>7. CASE ExpireStep(c)
      BY <1>2, <2>7 DEF ExpireStep, At, Settled
  <2>8. CASE MarkStep(c)
      BY <1>2, <2>8 DEF MarkStep, At, Settled
  <2>9. CASE SweepStep(c)
      BY <1>2, <1>3, <2>9 DEF SweepStep, At, Settled
  <2>10. CASE BookStep(c)
      BY <1>3, <2>10 DEF BookStep, At, Settled
  <2>11. CASE DeleteRow(c) \/ RefreshRead(c)
      BY <1>2, <2>11 DEF DeleteRow, RefreshRead, At, Settled
  <2>12. CASE RefreshReplace(c) \/ RefreshFails(c)
      BY <1>3, <2>12 DEF RefreshReplace, RefreshFails, Settled
  <2> QED BY <1>5, <2>1, <2>2, <2>4, <2>5, <2>6, <2>7, <2>8, <2>9, <2>10, <2>11, <2>12 DEF Handler
<1>6. ASSUME NEW c \in Clients, NEW req \in Requests, Arrival(c, req) PROVE ClientInv' /\ SettledInv'
  <2>1. client[c].pc = "idle"
      BY <1>6 DEF Arrival, UpdateSettings, GetSettings, SetRetention, RunCleanup, UpsertPolicies, DeletePolicy, Begin
  <2>2. CASE UpdateSettings(c, req)
    <3>1. CASE Invalid(req.settings)
        BY <1>4, <2>2, <3>1 DEF UpdateSettings
    <3>2. CASE ~Invalid(req.settings)
      <4>1. req.settings \in WorkspaceSettings
          BY <1>0, <2>2 DEF UpdateSettings, Begin
      <4> QED BY <1>2, <2>1, <2>2, <3>2, <4>1 DEF UpdateSettings, SettingsApart, Settled
    <3> QED BY <3>1, <3>2
  <2>3. CASE GetSettings(c, req)
    <3>1. CASE settings = Unset
        BY <1>2, <2>1, <2>3, <3>1 DEF GetSettings, Settled
    <3>2. CASE settings # Unset
        BY <1>4, <2>3, <3>2 DEF GetSettings
    <3> QED BY <3>1, <3>2
  <2>4. CASE SetRetention(c, req)
    <3> DEFINE read == IF settings = Unset THEN DefaultSettings ELSE settings
    <3>1. /\ req.name = "set_retention" /\ UNCHANGED <<settings, config, pending, unsettled>> /\ read \in WorkspaceSettings
        BY <1>0, <2>4 DEF SetRetention, Begin
    <3>2. /\ \A d \in Clients : d # c => client'[d] = client[d]
          /\ client'[c] = [pc |-> "merge", req |-> req, read |-> read]
          /\ client' = [d \in Clients |-> client'[d]]
        BY <2>4 DEF SetRetention, Step
    <3> HIDE DEF read
    <3>3. ClientInv'
        BY <3>1, <3>2 DEF Changing
    <3>4. \A d \in pending : d # c
        BY <2>1 DEF SettledInv
    <3>5. (Agreed' <=> Agreed) /\ (Settled' <=> Settled)
        BY <3>1 DEF Agreed, ReportedDays, EffectiveDays, Settled
    <3> QED BY <3>1, <3>2, <3>3, <3>4, <3>5 DEF SettledInv
  <2>5. CASE RunCleanup(c, req)
    <3>1. Settled' => Settled /\ config' = config
        BY <2>5 DEF RunCleanup, Settled
    <3> QED BY <1>2, <2>1, <2>5, <3>1 DEF RunCleanup
  <2>6. CASE UpsertPolicies(c, req)
      BY <1>2, <2>1, <2>6 DEF UpsertPolicies, Settled
  <2>7. CASE DeletePolicy(c, req)
    <3>1. CASE \E p \in policies : p.id = req.id
        BY <1>2, <2>1, <2>7, <3>1 DEF DeletePolicy, Settled
    <3>2. CASE ~\E p \in policies : p.id = req.id
        BY <1>4, <2>7, <3>2 DEF DeletePolicy
    <3> QED BY <3>1, <3>2
  <2> QED BY <1>6, <2>2, <2>3, <2>4, <2>5, <2>6, <2>7 DEF Arrival
<1>7. CASE Restart
  <2>1. /\ client' = [c \in Clients |-> Idle] /\ settings' = settings /\ pending' = {} /\ unsettled' = FALSE
        /\ config' = IF settings = Unset THEN Unset ELSE settings.retention
      BY <1>7 DEF Restart
  <2>2. \A c \in Clients : client'[c].pc = "idle"
      BY <2>1 DEF Idle
  <2>3. Agreed'
      BY <1>1, <2>1 DEF Agreed, ReportedDays, EffectiveDays
  <2> QED BY <2>1, <2>2, <2>3 DEF SettledInv, Changing
<1>8. CASE (UsageNext /\ UNCHANGED adminVars) \/ CleanupLists \/ CleanupMarks \/ ReclaimLists \/ ReclaimBooks
    BY <1>4, <1>8 DEF adminVars, CleanupLists, CleanupMarks, ReclaimLists, ReclaimBooks
<1>9. CASE TimerRead \/ TimerReplace \/ \E ctx \in Contexts : CheckPolicy(ctx)
    BY <1>4, <1>9 DEF TimerRead, TimerReplace, CheckPolicy
<1>10. CASE UNCHANGED vars
    BY <1>4, <1>10 DEF vars, adminVars
<1> QED BY <1>5, <1>6, <1>7, <1>8, <1>9, <1>10 DEF Next

\* A run lists by the retention in memory, which is the one reported when the
\* two agree; what it has listed stays as it is.
LEMMA MarksStep ==
    ASSUME SettledInv, MarksInv, [Next]_vars
    PROVE  MarksInv'
<1> USE DEF MarksInv
<1>1. ASSUME NEW by, ListExpired(by) PROVE MarksInv'
  <2> DEFINE new == [by |-> by, rows |-> Expired, at |-> now, reported |-> ReportedDays, settled |-> Settled]
  <2>1. marks' = marks \cup {new}
      BY <1>1 DEF ListExpired
  <2>2. new.settled => \A f \in new.rows : f.ts <= new.at - new.reported * DayLen
      BY DEF SettledInv, Agreed, Expired
  <2> HIDE DEF new
  <2> QED BY <2>1, <2>2
<1>2. ASSUME marks' \subseteq marks PROVE MarksInv'
    BY <1>2
<1>3. ASSUME NEW c \in Clients, Handler(c) PROVE MarksInv'
  <2>1. CASE ExpireStep(c)
      BY <1>1, <1>2, <2>1 DEF ExpireStep
  <2>2. CASE MarkStep(c)
      BY <1>2, <2>2 DEF MarkStep, MarkDeleted
  <2>3. CASE \/ \E ok \in BOOLEAN : AuditUpdate(c, ok)
             \/ InsertDefaults(c) \/ SaveRetention(c) \/ SaveFails(c) \/ ApplyRetention(c) \/ SweepStep(c) \/ BookStep(c)
             \/ DeleteRow(c) \/ RefreshRead(c) \/ RefreshReplace(c) \/ RefreshFails(c)
      BY <1>2, <2>3 DEF AuditUpdate, InsertDefaults, SaveRetention, SaveFails, ApplyRetention, SweepStep, BookStep,
                        DeleteRow, RefreshRead, RefreshReplace, RefreshFails
  <2> QED BY <1>3, <2>1, <2>2, <2>3 DEF Handler
<1>4. ASSUME NEW c \in Clients, NEW req \in Requests, Arrival(c, req) PROVE MarksInv'
    BY <1>2, <1>4 DEF Arrival, UpdateSettings, GetSettings, SetRetention, RunCleanup, UpsertPolicies, DeletePolicy
<1>5. CASE CleanupLists
    BY <1>1, <1>5 DEF CleanupLists
<1>6. CASE CleanupMarks
    BY <1>2, <1>6 DEF CleanupMarks, MarkDeleted
<1>7. CASE \/ UsageNext /\ UNCHANGED adminVars
           \/ ReclaimLists \/ ReclaimBooks \/ TimerRead \/ TimerReplace \/ Restart \/ UNCHANGED vars
           \/ \E ctx \in Contexts : CheckPolicy(ctx)
    BY <1>2, <1>7 DEF adminVars, vars, ReclaimLists, ReclaimBooks, TimerRead, TimerReplace, Restart, CheckPolicy
<1> QED BY <1>3, <1>4, <1>5, <1>6, <1>7 DEF Next

LEMMA RetentionInit == Init => RetentionIInv
<1> SUFFICES ASSUME Init PROVE RetentionIInv
    OBVIOUS
<1>1. ClockInv /\ FilesInv
  <2>1. bound.time \in Nat
      BY UsageAssumption DEF Init, UsageInit
  <2> QED BY <2>1, FS_EmptySet DEF Init, UsageInit, ClockInv, FilesInv
<1>2. \A c \in Clients : client[c] = Idle
    BY DEF Init
<1>3. ClientInv /\ SettledInv /\ MarksInv
    BY <1>2 DEF Init, ClientInv, SettledInv, MarksInv, Idle, Changing, Agreed, ReportedDays, EffectiveDays
<1> QED BY <1>1, <1>3 DEF RetentionIInv

LEMMA RetentionNext == RetentionIInv /\ [Next]_vars => RetentionIInv'
BY StepsAre, ClockStep, FilesStep, SettingsStep, MarksStep DEF RetentionIInv

\* However changes of the retention overlap, fail and are dropped, the days
\* that are reported are the ones in memory unless the change saved last is
\* about to be applied or something parted the two; and what a run of the
\* cleanup job has listed is what the days reported then cover
\* (set_workspace_retention in services/api, CleanupJob::run_now_scoped).
THEOREM RetentionInvariant == Spec => []RetentionIInv
BY RetentionInit, RetentionNext, PTL DEF Spec

\* A file becomes expired only by the run that ends in the step and listed it.
LEMMA MarkedIsListed ==
    ASSUME FilesInv, ClockInv, UsageStep, NEW f \in files, f.state = "live", [f EXCEPT !.state = "expired"] \in files'
    PROVE  \E m \in marks : MarkedBy(m, f)
<1> DEFINE x == [f EXCEPT !.state = "expired"]
<1>1. f \in Rows /\ x \in Rows /\ x.id = f.id /\ x.state = "expired" /\ x # f
    BY DEF FilesInv, Rows
<1>2. x \notin files /\ x \in files'
    BY <1>1 DEF FilesInv
<1>3. x.id \in 1 .. count /\ count \in Nat
    BY <1>1 DEF FilesInv, ClockInv
<1> HIDE DEF x
<1>4. ASSUME NEW s \in Signals, NEW b \in Sizes, WriteFile(s, b) PROVE FALSE
  <2>1. files' = files \cup {File(s, b)} /\ File(s, b).id = count + 1
      BY <1>4, FileOK, UsageAssumption DEF WriteFile
  <2> QED BY <1>2, <1>3, <2>1
<1>5. ASSUME NEW g \in files, NEW h \in files, Compact(g, h) PROVE FALSE
  <2>1. /\ files' = (files \ {g, h}) \cup {[g EXCEPT !.state = "merged"], [h EXCEPT !.state = "merged"], Merge(g, h)}
        /\ g \in Rows /\ h \in Rows
      BY <1>5 DEF Compact, Merge, FilesInv
  <2>2. [g EXCEPT !.state = "merged"].state = "merged" /\ [h EXCEPT !.state = "merged"].state = "merged"
        /\ Merge(g, h).state = "live"
      BY <2>1, MergeOK
  <2> QED BY <1>1, <1>2, <2>1, <2>2
<1>6. CASE Marking
  <2>1. PICK m \in marks : marks' = marks \ {m} /\ files' = {Mark(m, g) : g \in files}
      BY <1>2, <1>6, MarkingIs
  <2>2. PICK g \in files : x = Mark(m, g)
      BY <1>2, <2>1
  <2>3. g.id = f.id
      BY <1>1, <2>2, MarkOK DEF FilesInv
  <2>4. g = f
      BY <2>3 DEF FilesInv
  <2>5. f \in m.rows
      BY <1>1, <2>2, <2>4 DEF Mark
  <2> QED BY <2>1, <2>5 DEF MarkedBy
<1>7. CASE Sweeping
    BY <1>2, <1>7 DEF Sweeping, BookAndDelete
<1>8. CASE files' = files
    BY <1>2, <1>8
<1>9. CASE (\E s \in Signals, b \in Sizes : QueryDone(s, b)) \/ Quiet \/ Listing \/ Restart \/ Tick \/ Snapshot \/ Flush \/ Receive
           \/ \E u \in spawned : Record(u)
    BY <1>8, <1>9 DEF QueryDone, Quiet, Listing, Restart, Tick, Snapshot, Flush, Receive, Record, storage
<1> QED BY <1>4, <1>5, <1>6, <1>7, <1>9 DEF UsageStep

\* Retention deletes by the days the API reports: the action property of the
\* control run, for any number of clients, files and requests.
THEOREM DeletesAsReportedHolds == Spec => DeletesAsReported
<1> DEFINE Deletes == \A f \in files : f.state = "live" /\ [f EXCEPT !.state = "expired"] \in files'
               => \E m \in marks : MarkedBy(m, f) /\ (m.settled => f.ts <= m.at - m.reported * DayLen)
<1>1. ASSUME RetentionIInv, [Next]_vars PROVE Deletes
  <2> SUFFICES ASSUME NEW f \in files, f.state = "live", [f EXCEPT !.state = "expired"] \in files'
               PROVE  \E m \in marks : MarkedBy(m, f) /\ (m.settled => f.ts <= m.at - m.reported * DayLen)
      OBVIOUS
  <2>1. PICK m \in marks : MarkedBy(m, f)
      BY <1>1, StepsAre, MarkedIsListed DEF RetentionIInv
  <2>2. m.settled => f.ts <= m.at - m.reported * DayLen
      BY <1>1, <2>1 DEF RetentionIInv, MarksInv, MarkedBy
  <2> QED BY <2>1, <2>2
<1>2. RetentionIInv /\ [Next]_vars => [Deletes]_vars
    BY <1>1
<1> HIDE DEF Deletes
<1>3. Spec => [][Deletes]_vars
    BY <1>2, RetentionInvariant, PTL DEF Spec
<1> QED BY <1>3 DEF DeletesAsReported, Deletes

-----------------------------------------------------------------------------
(* The lists of the tracker.                                               *)

LEMMA ListFacts ==
    ASSUME NEW T, NEW list \in Seq(T)
    PROVE  /\ ToSet(list) \subseteq T
           /\ \A u \in T : /\ Append(list, u) \in Seq(T) /\ Len(Append(list, u)) = Len(list) + 1
                           /\ ToSet(Append(list, u)) = ToSet(list) \cup {u}
                           /\ Once(list) /\ u \notin ToSet(list) => Once(Append(list, u))
           /\ list # <<>> => /\ Tail(list) \in Seq(T) /\ Len(Tail(list)) = Len(list) - 1 /\ Len(list) > 0
                             /\ Head(list) \in ToSet(list) /\ ToSet(list) = ToSet(Tail(list)) \cup {Head(list)}
                             /\ Once(list) => Once(Tail(list)) /\ Head(list) \notin ToSet(Tail(list))
<1> USE DEF ToSet, Once
<1>1. ToSet(list) \subseteq T
    OBVIOUS
<1>2. ASSUME NEW u \in T
      PROVE  /\ Append(list, u) \in Seq(T) /\ Len(Append(list, u)) = Len(list) + 1
             /\ ToSet(Append(list, u)) = ToSet(list) \cup {u}
             /\ Once(list) /\ u \notin ToSet(list) => Once(Append(list, u))
  <2> DEFINE a == Append(list, u)
  <2>1. /\ a \in Seq(T) /\ Len(a) = Len(list) + 1 /\ DOMAIN a = 1 .. Len(list) + 1 /\ DOMAIN list = 1 .. Len(list)
        /\ \A i \in 1 .. Len(list) : a[i] = list[i]
        /\ a[Len(list) + 1] = u /\ Len(list) \in Nat
      OBVIOUS
  <2> HIDE DEF a
  <2>2. ToSet(a) = ToSet(list) \cup {u}
    <3>1. \A i \in DOMAIN a : a[i] \in ToSet(list) \cup {u}
        BY <2>1
    <3>2. \A x \in ToSet(list) \cup {u} : x \in ToSet(a)
        BY <2>1
    <3> QED BY <3>1, <3>2
  <2>3. ASSUME Once(list), u \notin ToSet(list) PROVE Once(a)
      BY <2>1, <2>3
  <2> QED BY <2>1, <2>2, <2>3 DEF a
<1>3. ASSUME list # <<>>
      PROVE  /\ Tail(list) \in Seq(T) /\ Len(Tail(list)) = Len(list) - 1 /\ Len(list) > 0
             /\ Head(list) \in ToSet(list) /\ ToSet(list) = ToSet(Tail(list)) \cup {Head(list)}
             /\ Once(list) => Once(Tail(list)) /\ Head(list) \notin ToSet(Tail(list))
  <2> DEFINE t == Tail(list)
  <2>1. /\ t \in Seq(T) /\ Len(t) = Len(list) - 1 /\ Len(list) > 0 /\ Len(list) \in Nat
        /\ DOMAIN t = 1 .. Len(list) - 1 /\ DOMAIN list = 1 .. Len(list)
        /\ \A i \in 1 .. Len(list) - 1 : t[i] = list[i + 1]
        /\ Head(list) = list[1]
      BY <1>3
  <2> HIDE DEF t
  <2>2. \A i \in DOMAIN list : i = 1 \/ (i - 1 \in DOMAIN t /\ t[i - 1] = list[i])
      BY <2>1
  <2>3. ToSet(list) = ToSet(t) \cup {Head(list)}
    <3>1. \A x \in ToSet(list) : x \in ToSet(t) \cup {Head(list)}
        BY <2>1, <2>2
    <3>2. \A x \in ToSet(t) \cup {Head(list)} : x \in ToSet(list)
        BY <2>1
    <3> QED BY <3>1, <3>2
  <2>4. Head(list) \in ToSet(list)
      BY <2>3
  <2>5. ASSUME Once(list) PROVE Once(t) /\ Head(list) \notin ToSet(t)
    <3>1. \A i \in DOMAIN t : i + 1 \in DOMAIN list /\ 1 \in DOMAIN list /\ i + 1 # 1 /\ t[i] = list[i + 1]
        BY <2>1
    <3>2. \A i, j \in DOMAIN t : i + 1 = j + 1 => i = j
        BY <2>1
    <3> QED BY <2>1, <2>5, <3>1, <3>2
  <2> QED BY <2>1, <2>3, <2>4, <2>5 DEF t
<1> QED BY <1>1, <1>2, <1>3

LEMMA EmptyList == ToSet(<<>>) = {} /\ Once(<<>>) /\ (\A T : <<>> \in Seq(T)) /\ Len(<<>>) = 0
BY DEF ToSet, Once

\* Cutting the buffer takes at most one sample out of it, which is counted.
LEMMA CutOK ==
    ASSUME NEW w \in Workers, Once(w.writes), Once(w.queries), ToSet(w.writes) \cap ToSet(w.queries) = {},
           Buffered(w) <= RetryBufferMax + 1
    PROVE  /\ Cut(w) \in Workers /\ Buffered(Cut(w)) <= RetryBufferMax
           /\ Once(Cut(w).writes) /\ Once(Cut(w).queries)
           /\ ToSet(Cut(w).writes) \subseteq ToSet(w.writes) /\ ToSet(Cut(w).queries) \subseteq ToSet(w.queries)
           /\ ToSet(Cut(w).writes) \cup ToSet(Cut(w).queries) \cup OverLimit(w) = ToSet(w.writes) \cup ToSet(w.queries)
           /\ OverLimit(w) \cap (ToSet(Cut(w).writes) \cup ToSet(Cut(w).queries)) = {}
<1>0. RetryBufferMax \in Nat /\ RetryBufferMax > 0
    BY UsageAssumption
<1>1. w.writes \in Seq(Samples) /\ w.queries \in Seq(Samples) /\ Len(w.writes) \in Nat /\ Len(w.queries) \in Nat
    BY DEF Workers
<1>2. PICK m \in Nat, n \in Nat : /\ m = Len(w.writes) /\ n = Len(w.queries)
                                  /\ Buffered(w) = m + n /\ m + n <= RetryBufferMax + 1
    BY <1>1 DEF Buffered
<1>3. CASE ~(m + n <= RetryBufferMax) /\ m >= n
  <2>1. w.writes # <<>>
    <3>1. w.writes = <<>> => m = 0
        BY <1>2, EmptyList, Zenon
    <3>2. m # 0
        BY <1>0, <1>3
    <3> QED BY <3>1, <3>2, Zenon
  <2>2. Cut(w) = [w EXCEPT !.writes = Tail(w.writes)] /\ OverLimit(w) = {Head(w.writes)}
      BY <1>2, <1>3, Zenon DEF Cut, OverLimit
  <2>3. /\ Len(Tail(w.writes)) = Len(w.writes) - 1 /\ Tail(w.writes) \in Seq(Samples)
        /\ Head(w.writes) \in ToSet(w.writes) /\ ToSet(w.writes) = ToSet(Tail(w.writes)) \cup {Head(w.writes)}
        /\ Once(Tail(w.writes)) /\ Head(w.writes) \notin ToSet(Tail(w.writes))
      BY <1>1, <2>1, ListFacts
  <2>4. PICK t : t = Tail(w.writes)
      OBVIOUS
  <2>5. Cut(w) \in Workers /\ Cut(w).writes = t /\ Cut(w).queries = w.queries
    <3>1. t \in Seq(Samples) /\ Cut(w) = [w EXCEPT !.writes = t]
        BY <2>2, <2>3, <2>4
    <3> QED BY <3>1 DEF Workers
  <2>6. Len(Cut(w).writes) = m - 1 /\ Len(Cut(w).queries) = n
      BY <1>2, <2>3, <2>4, <2>5, Zenon
  <2>7. Buffered(Cut(w)) = Len(Cut(w).writes) + Len(Cut(w).queries)
      BY DEF Buffered
  <2>8. PICK k, j : k = Len(Cut(w).writes) /\ j = Len(Cut(w).queries) /\ Buffered(Cut(w)) = k + j
      BY <2>7, Zenon
  <2>9. k = m - 1 /\ j = n
      BY <2>6, <2>8, Zenon
  <2>10. Buffered(Cut(w)) <= RetryBufferMax
    <3>1. m + n <= RetryBufferMax + 1
        BY <1>2, Zenon
    <3>2. k + j <= RetryBufferMax /\ j + k <= RetryBufferMax
        BY <1>0, <2>9, <3>1
    <3> QED BY <2>8, <3>2, Zenon
  <2> QED BY <2>2, <2>3, <2>4, <2>5, <2>10
<1>4. CASE ~(m + n <= RetryBufferMax) /\ ~(m >= n)
  <2>1. w.queries # <<>>
    <3>1. w.queries = <<>> => n = 0
        BY <1>2, EmptyList, Zenon
    <3>2. n # 0
        BY <1>0, <1>4
    <3> QED BY <3>1, <3>2, Zenon
  <2>2. Cut(w) = [w EXCEPT !.queries = Tail(w.queries)] /\ OverLimit(w) = {Head(w.queries)}
      BY <1>2, <1>4, Zenon DEF Cut, OverLimit
  <2>3. /\ Len(Tail(w.queries)) = Len(w.queries) - 1 /\ Tail(w.queries) \in Seq(Samples)
        /\ Head(w.queries) \in ToSet(w.queries) /\ ToSet(w.queries) = ToSet(Tail(w.queries)) \cup {Head(w.queries)}
        /\ Once(Tail(w.queries)) /\ Head(w.queries) \notin ToSet(Tail(w.queries))
      BY <1>1, <2>1, ListFacts
  <2>4. PICK t : t = Tail(w.queries)
      OBVIOUS
  <2>5. Cut(w) \in Workers /\ Cut(w).queries = t /\ Cut(w).writes = w.writes
    <3>1. t \in Seq(Samples) /\ Cut(w) = [w EXCEPT !.queries = t]
        BY <2>2, <2>3, <2>4
    <3> QED BY <3>1 DEF Workers
  <2>6. Len(Cut(w).queries) = n - 1 /\ Len(Cut(w).writes) = m
      BY <1>2, <2>3, <2>4, <2>5, Zenon
  <2>7. Buffered(Cut(w)) = Len(Cut(w).writes) + Len(Cut(w).queries)
      BY DEF Buffered
  <2>8. PICK k, j : k = Len(Cut(w).queries) /\ j = Len(Cut(w).writes) /\ Buffered(Cut(w)) = j + k
      BY <2>7, Zenon
  <2>9. k = n - 1 /\ j = m
      BY <2>6, <2>8, Zenon
  <2>10. Buffered(Cut(w)) <= RetryBufferMax
    <3>1. m + n <= RetryBufferMax + 1
        BY <1>2, Zenon
    <3>2. k + j <= RetryBufferMax /\ j + k <= RetryBufferMax
        BY <1>0, <2>9, <3>1
    <3> QED BY <2>8, <3>2, Zenon
  <2> QED BY <2>2, <2>3, <2>4, <2>5, <2>10
<1>5. CASE m + n <= RetryBufferMax
    BY <1>2, <1>5 DEF Cut, OverLimit
<1> QED BY <1>3, <1>4, <1>5

\* A flush leaves a list, books it or gives it up; and never two of these
\* unless a commit was reported as failed.
BookedOf(list, o) == IF o = "failed" THEN {} ELSE ToSet(list)
LEMMA AfterOK ==
    ASSUME NEW list \in Seq(Samples), Once(list), NEW fails \in Nat, NEW o \in Outcomes
    PROVE  LET r == After(list, fails, o)
           IN  /\ r.list \in Seq(Samples) /\ Once(r.list) /\ r.fails \in Nat /\ Len(r.list) <= Len(list)
               /\ ToSet(r.list) \subseteq ToSet(list)
               /\ ToSet(r.list) \cup r.dropped \cup BookedOf(list, o) = ToSet(list)
               /\ ToSet(r.list) \cap r.dropped = {}
               /\ ~AmbiguousCommits => BookedOf(list, o) \cap (ToSet(r.list) \cup r.dropped) = {}
<1>1. Len(list) \in Nat
    OBVIOUS
<1>2. MaxFlushRetries \in Nat
    BY UsageAssumption
<1>3. ~AmbiguousCommits => o \in {"ok", "failed"}
    BY DEF Outcomes
<1>4. CASE list = <<>>
    BY <1>1, <1>4, EmptyList DEF After, BookedOf
<1>5. CASE list # <<>> /\ o = "ok"
    BY <1>1, <1>5, EmptyList DEF After, BookedOf
<1>6. CASE list # <<>> /\ o # "ok" /\ fails + 1 >= MaxFlushRetries
  <2>1. After(list, fails, o) = [list |-> <<>>, fails |-> 0, dropped |-> ToSet(list)]
      BY <1>6 DEF After
  <2> QED BY <1>1, <1>3, <1>6, <2>1, EmptyList DEF BookedOf
<1>7. CASE list # <<>> /\ o # "ok" /\ ~(fails + 1 >= MaxFlushRetries)
  <2>1. After(list, fails, o) = [list |-> list, fails |-> fails + 1, dropped |-> {}]
      BY <1>7 DEF After
  <2> QED BY <1>1, <1>3, <1>7, <2>1 DEF BookedOf
<1> QED BY <1>4, <1>5, <1>6, <1>7

-----------------------------------------------------------------------------
(* Where samples are.                                                      *)

TrackerInv == PlaceTypes /\ NumbersInv /\ PlacesInv /\ BufferInv

LEMMA SampleOK ==
    ASSUME ClockInv, NEW op \in Ops, NEW s \in Signals, NEW b \in Nat
    PROVE  /\ Sample(op, s, b) \in Samples /\ Sample(op, s, b).id = count + 1 /\ Sample(op, s, b).at = now
           /\ Sample(op, s, b).op = op /\ Sample(op, s, b).signal = s /\ Sample(op, s, b).bytes = b
BY DEF Sample, Samples, ClockInv

\* A new sample has a number of its own.
LEMMA SpawnStep ==
    ASSUME ClockInv, TrackerInv, NEW u \in Samples, u.id = count + 1, u.at = now,
           spawned' = spawned \cup {u}, count' = count + 1,
           UNCHANGED <<now, hot, channel, worker, events, gone>>
    PROVE  TrackerInv' /\ u \notin Everything /\ Everything' = Everything \cup {u}
<1>1. Known' = Known \cup {u} /\ Booked' = Booked
    BY DEF Known, Booked
<1>2. Everything' = Everything \cup {u}
    BY <1>1 DEF Everything
<1>3. u \notin Everything /\ count \in Nat
    BY DEF TrackerInv, NumbersInv, ClockInv
<1>4. u \notin Known /\ u \notin Booked /\ u \notin gone
    BY <1>3 DEF Everything
<1>5. NumbersInv'
  <2>1. \A i \in 1 .. count + 1 : i \in 1 .. count \/ i = u.id
      BY <1>3
  <2>2. now \in Nat
      BY DEF ClockInv
  <2> QED BY <1>2, <1>3, <2>1, <2>2 DEF TrackerInv, NumbersInv
<1>6. PlaceTypes'
    BY <1>2 DEF TrackerInv, PlaceTypes
<1>7. PlacesInv'
    BY <1>1, <1>4 DEF TrackerInv, PlacesInv, Known
<1>8. BufferInv'
    BY DEF TrackerInv, BufferInv
<1> QED BY <1>2, <1>3, <1>5, <1>6, <1>7, <1>8 DEF TrackerInv

LEMMA EverythingOK ==
    ASSUME PlaceTypes
    PROVE  Everything \subseteq Samples /\ Known \subseteq Samples /\ Booked \subseteq Samples
<1>1. worker.writes \in Seq(Samples) /\ worker.queries \in Seq(Samples)
    BY DEF PlaceTypes, Workers
<1>2. ToSet(channel) \subseteq Samples /\ ToSet(worker.writes) \subseteq Samples /\ ToSet(worker.queries) \subseteq Samples
    BY <1>1, ListFacts DEF PlaceTypes
<1>3. Booked \subseteq Samples
    BY DEF PlaceTypes, Booked, Events
<1> QED BY <1>2, <1>3 DEF PlaceTypes, Everything, Known

\* As long as there are no more samples their numbers stay right.
LEMMA NumbersKeep ==
    ASSUME ClockInv, PlaceTypes, NumbersInv, Everything' = Everything, count' = count, now' \in {now, now + 1}
    PROVE  NumbersInv'
<1>1. \A u \in Everything : u.at <= now'
  <2> SUFFICES ASSUME NEW u \in Everything PROVE u.at <= now'
      OBVIOUS
  <2>1. u.at \in Nat /\ u.at <= now
      BY EverythingOK DEF Samples, NumbersInv
  <2> QED BY <2>1 DEF ClockInv
<1> QED BY <1>1 DEF NumbersInv

\* Nothing but the clock has moved.
LEMMA TrackerKeeps ==
    ASSUME ClockInv, TrackerInv, now' \in {now, now + 1},
           UNCHANGED <<spawned, hot, channel, worker, events, gone, count>>
    PROVE  TrackerInv' /\ Everything' = Everything
<1>1. Everything' = Everything /\ Known' = Known /\ Booked' = Booked
    BY DEF Everything, Known, Booked
<1>2. NumbersInv'
    BY <1>1, NumbersKeep DEF TrackerInv
<1> QED BY <1>1, <1>2 DEF TrackerInv, PlaceTypes, PlacesInv, BufferInv, Known, Booked

\* A recorded sample goes into the channel, or is dropped and counted.
LEMMA RecordStep ==
    ASSUME ClockInv, TrackerInv, NEW u \in spawned, Record(u)
    PROVE  TrackerInv' /\ Everything' = Everything
<1>1. /\ spawned' = spawned \ {u} /\ hot' = hot \cup {u} /\ TrySend(u)
      /\ UNCHANGED <<now, worker, events, count>>
    BY DEF Record
<1>2. u \in Samples /\ channel \in Seq(Samples) /\ Once(channel) /\ u \notin ToSet(channel)
    BY DEF TrackerInv, PlaceTypes, PlacesInv
<1>3. CASE channel' = Append(channel, u) /\ gone' = gone
  <2>1. channel' \in Seq(Samples) /\ ToSet(channel') = ToSet(channel) \cup {u} /\ Once(channel')
      BY <1>2, <1>3, ListFacts
  <2>2. Known' = Known /\ Booked' = Booked /\ Everything' = Everything /\ u \in Everything
      BY <1>1, <1>3, <2>1 DEF Known, Booked, Everything
  <2>3. NumbersInv'
      BY <1>1, <2>2, NumbersKeep DEF TrackerInv
  <2>4. PlaceTypes'
      BY <1>1, <1>2, <1>3, <2>1, <2>2 DEF TrackerInv, PlaceTypes
  <2>5. PlacesInv'
      BY <1>1, <1>3, <2>1, <2>2 DEF TrackerInv, PlacesInv
  <2> QED BY <1>1, <2>2, <2>3, <2>4, <2>5 DEF TrackerInv, BufferInv
<1>4. CASE gone' = gone \cup {u} /\ channel' = channel
  <2>1. Known' = Known \ {u} /\ Booked' = Booked /\ u \in Known
      BY <1>1, <1>4 DEF Known, Booked, TrackerInv, PlacesInv
  <2>2. Everything' = Everything /\ u \in Everything
      BY <1>4, <2>1 DEF Everything
  <2>3. NumbersInv'
      BY <1>1, <2>2, NumbersKeep DEF TrackerInv
  <2>4. PlaceTypes'
      BY <1>1, <1>2, <1>4, <2>2 DEF TrackerInv, PlaceTypes
  <2>5. PlacesInv'
      BY <1>1, <1>4, <2>1 DEF TrackerInv, PlacesInv
  <2> QED BY <1>1, <2>2, <2>3, <2>4, <2>5 DEF TrackerInv, BufferInv
<1> QED BY <1>1, <1>3, <1>4 DEF TrySend

\* A received sample is buffered; a buffer at its limit gives one up.
LEMMA ReceiveStep ==
    ASSUME ClockInv, TrackerInv, Receive
    PROVE  TrackerInv' /\ Everything' = Everything
<1> DEFINE u == Head(channel)
           w == IF u.op = "ingest" THEN [worker EXCEPT !.writes = Append(@, u)] ELSE [worker EXCEPT !.queries = Append(@, u)]
<1>1. /\ channel # <<>> /\ channel' = Tail(channel)
      /\ worker' = [Cut(w) EXCEPT !.full = Buffered(Cut(w)) >= BatchSize]
      /\ gone' = gone \cup OverLimit(w)
      /\ UNCHANGED <<now, spawned, hot, events, count>>
    BY DEF Receive
<1>2. /\ channel \in Seq(Samples) /\ Once(channel) /\ worker \in Workers /\ Once(worker.writes) /\ Once(worker.queries)
      /\ worker.writes \in Seq(Samples) /\ worker.queries \in Seq(Samples)
    BY DEF TrackerInv, PlaceTypes, PlacesInv, Workers
<1>3. /\ u \in Samples /\ channel' \in Seq(Samples) /\ Once(channel')
      /\ ToSet(channel) = ToSet(channel') \cup {u} /\ u \notin ToSet(channel')
    BY <1>1, <1>2, ListFacts
<1>4. u \notin spawned /\ u \notin ToSet(worker.writes) /\ u \notin ToSet(worker.queries) /\ u \notin gone
    BY <1>3 DEF TrackerInv, PlacesInv, Known
<1> HIDE DEF u
<1>5. /\ w \in Workers /\ Once(w.writes) /\ Once(w.queries) /\ ToSet(w.writes) \cap ToSet(w.queries) = {}
      /\ Buffered(w) <= RetryBufferMax + 1
      /\ ToSet(w.writes) \cup ToSet(w.queries) = ToSet(worker.writes) \cup ToSet(worker.queries) \cup {u}
  <2>0. PICK m \in Nat, n \in Nat : m = Len(worker.writes) /\ n = Len(worker.queries) /\ m + n <= RetryBufferMax
    <3>1. Len(worker.writes) \in Nat /\ Len(worker.queries) \in Nat
        BY <1>2
    <3>2. Len(worker.writes) + Len(worker.queries) <= RetryBufferMax
        BY Zenon DEF TrackerInv, BufferInv, Buffered
    <3> QED BY <3>1, <3>2, Zenon
  <2>a. m + n <= RetryBufferMax /\ RetryBufferMax \in Nat
      BY <2>0, UsageAssumption
  <2>1. CASE u.op = "ingest"
    <3>1. PICK a : a = Append(worker.writes, u)
        OBVIOUS
    <3>2. /\ a \in Seq(Samples) /\ Len(a) = Len(worker.writes) + 1 /\ ToSet(a) = ToSet(worker.writes) \cup {u} /\ Once(a)
        BY <1>2, <1>3, <1>4, <3>1, ListFacts
    <3>3. w = [worker EXCEPT !.writes = a]
        BY <2>1, <3>1
    <3>4. w \in Workers /\ w.writes = a /\ w.queries = worker.queries
        BY <1>2, <3>2, <3>3 DEF Workers
    <3>5. Buffered(w) <= RetryBufferMax + 1
      <4>1. Buffered(w) = (m + 1) + n
          BY <2>0, <3>2, <3>4, Zenon DEF Buffered
      <4>2. (m + 1) + n <= RetryBufferMax + 1
          BY <2>a
      <4> QED BY <4>1, <4>2, Zenon
    <3>6. ToSet(worker.writes) \cap ToSet(worker.queries) = {}
        BY DEF TrackerInv, PlacesInv
    <3> HIDE DEF w
    <3> QED BY <1>2, <1>4, <3>2, <3>4, <3>5, <3>6
  <2>2. CASE u.op # "ingest"
    <3>1. PICK a : a = Append(worker.queries, u)
        OBVIOUS
    <3>2. /\ a \in Seq(Samples) /\ Len(a) = Len(worker.queries) + 1 /\ ToSet(a) = ToSet(worker.queries) \cup {u} /\ Once(a)
        BY <1>2, <1>3, <1>4, <3>1, ListFacts
    <3>3. w = [worker EXCEPT !.queries = a]
        BY <2>2, <3>1
    <3>4. w \in Workers /\ w.queries = a /\ w.writes = worker.writes
        BY <1>2, <3>2, <3>3 DEF Workers
    <3>5. Buffered(w) <= RetryBufferMax + 1
      <4>1. Buffered(w) = m + (n + 1)
          BY <2>0, <3>2, <3>4, Zenon DEF Buffered
      <4>2. m + (n + 1) <= RetryBufferMax + 1
          BY <2>a
      <4> QED BY <4>1, <4>2, Zenon
    <3>6. ToSet(worker.writes) \cap ToSet(worker.queries) = {}
        BY DEF TrackerInv, PlacesInv
    <3> HIDE DEF w
    <3> QED BY <1>2, <1>4, <3>2, <3>4, <3>5, <3>6
  <2> QED BY <2>1, <2>2
<1> HIDE DEF w
<1>6. PICK k : k = Cut(w)
    OBVIOUS
<1>7. /\ k \in Workers /\ Buffered(k) <= RetryBufferMax /\ Once(k.writes) /\ Once(k.queries)
      /\ ToSet(k.writes) \subseteq ToSet(w.writes) /\ ToSet(k.queries) \subseteq ToSet(w.queries)
      /\ ToSet(k.writes) \cup ToSet(k.queries) \cup OverLimit(w) = ToSet(w.writes) \cup ToSet(w.queries)
      /\ OverLimit(w) \cap (ToSet(k.writes) \cup ToSet(k.queries)) = {}
    BY <1>5, <1>6, CutOK
<1>8. worker' \in Workers /\ worker'.writes = k.writes /\ worker'.queries = k.queries
  <2>0. (Buffered(k) >= BatchSize) \in BOOLEAN
    <3>1. PICK n : n = Buffered(k)
        OBVIOUS
    <3>2. (n >= BatchSize) \in BOOLEAN
        OBVIOUS
    <3> QED BY <3>1, <3>2, Zenon
  <2>1. PICK full \in BOOLEAN : full = (Buffered(k) >= BatchSize)
      BY <2>0, Zenon
  <2>2. worker' = [k EXCEPT !.full = full]
      BY <1>1, <1>6, <2>1, Zenon
  <2> QED BY <1>7, <2>2 DEF Workers
<1>9. BufferInv'
    BY <1>7, <1>8, Zenon DEF BufferInv, Buffered
<1>10. /\ Known' \cup OverLimit(w) = Known /\ Known' \cap OverLimit(w) = {} /\ Booked' = Booked
  <2>1. /\ Known' = spawned \cup ToSet(channel') \cup ToSet(k.writes) \cup ToSet(k.queries)
        /\ Known = spawned \cup ToSet(channel') \cup {u} \cup ToSet(worker.writes) \cup ToSet(worker.queries)
      BY <1>1, <1>3, <1>8 DEF Known
  <2>2. Booked' = Booked
      BY <1>1 DEF Booked
  <2>3. /\ spawned \cap (ToSet(worker.writes) \cup ToSet(worker.queries)) = {}
        /\ ToSet(channel') \cap (ToSet(worker.writes) \cup ToSet(worker.queries)) = {}
      BY <1>3 DEF TrackerInv, PlacesInv
  <2> QED BY <1>3, <1>4, <1>5, <1>7, <2>1, <2>2, <2>3
<1>11. Everything' = Everything
    BY <1>1, <1>10 DEF Everything
<1>12. NumbersInv'
    BY <1>1, <1>11, NumbersKeep DEF TrackerInv
<1>13. PlaceTypes'
  <2>1. OverLimit(w) \subseteq Samples
      BY <1>10, EverythingOK DEF TrackerInv
  <2> QED BY <1>1, <1>3, <1>8, <1>11, <2>1 DEF TrackerInv, PlaceTypes
<1>14. PlacesInv'
  <2>1. /\ Once(channel') /\ Once(worker'.writes) /\ Once(worker'.queries)
      BY <1>3, <1>7, <1>8
  <2>2. /\ spawned' \cap (ToSet(channel') \cup ToSet(worker'.writes) \cup ToSet(worker'.queries)) = {}
        /\ ToSet(channel') \cap (ToSet(worker'.writes) \cup ToSet(worker'.queries)) = {}
        /\ ToSet(worker'.writes) \cap ToSet(worker'.queries) = {}
    <3>1. /\ spawned \cap (ToSet(channel) \cup ToSet(worker.writes) \cup ToSet(worker.queries)) = {}
          /\ ToSet(channel) \cap (ToSet(worker.writes) \cup ToSet(worker.queries)) = {}
        BY DEF TrackerInv, PlacesInv
    <3> QED BY <1>1, <1>3, <1>4, <1>5, <1>7, <1>8, <3>1
  <2>3. Known' \cap gone' = {} /\ (Known' \cup gone') = (Known \cup gone)
      BY <1>1, <1>10 DEF TrackerInv, PlacesInv
  <2> QED BY <1>1, <1>10, <2>1, <2>2, <2>3 DEF TrackerInv, PlacesInv
<1> QED BY <1>9, <1>11, <1>12, <1>13, <1>14 DEF TrackerInv

-----------------------------------------------------------------------------
(* What the tables hold.                                                   *)

\* The samples are as many as were taken.
LEMMA EverythingCounted ==
    ASSUME ClockInv, NumbersInv
    PROVE  IsFiniteSet(Everything) /\ Cardinality(Everything) = count
<1> DEFINE f == [u \in Everything |-> u.id]
<1>1. f \in Injection(Everything, 1 .. count) /\ f \in Surjection(Everything, 1 .. count)
    BY DEF NumbersInv, Injection, Surjection, IsInjective
<1>2. IsFiniteSet(1 .. count) /\ Cardinality(1 .. count) = count
    BY FS_Interval DEF ClockInv
<1>3. IsFiniteSet(Everything)
    BY <1>1, <1>2, FS_Injection
<1>4. Cardinality(Everything) = Cardinality(1 .. count)
    BY <1>1, <1>2, FS_Injection
<1> QED BY <1>2, <1>3, <1>4

\* The bytes of samples, files and events are numbers that add up.
LEMMA SumBytesOf ==
    ASSUME NEW S, IsFiniteSet(S), \A u \in S : u.bytes \in Nat
    PROVE  /\ SumBytes(S) \in Nat
           /\ \A T \in SUBSET S : SumBytes(T) <= SumBytes(S)
           /\ \A T, R \in SUBSET S : T \cap R = {} => SumBytes(T \cup R) = SumBytes(T) + SumBytes(R)
<1> DEFINE f == [u \in S |-> u.bytes]
<1>1. \A x \in S : f[x] \in Nat
    OBVIOUS
<1>2. ASSUME NEW T \in SUBSET S PROVE IsFiniteSet(T) /\ SumBytes(T) = SumFunctionOnSet(f, T)
  <2>1. IsFiniteSet(T)
      BY FS_Subset
  <2>2. \A x \in T : [u \in T |-> u.bytes][x] \in Int /\ [u \in T |-> u.bytes][x] = f[x]
      OBVIOUS
  <2> QED BY <2>1, <2>2, SumSame DEF SumBytes
<1> HIDE DEF f
<1>3. SumBytes(S) \in Nat
    BY <1>1, <1>2, SumNat
<1>4. ASSUME NEW T \in SUBSET S PROVE SumBytes(T) <= SumBytes(S)
    BY <1>1, <1>2, SumSubset
<1>5. ASSUME NEW T \in SUBSET S, NEW R \in SUBSET S, T \cap R = {}
      PROVE  SumBytes(T \cup R) = SumBytes(T) + SumBytes(R)
  <2>1. \A x \in T \cup R : f[x] \in Int
      BY <1>1
  <2>2. SumFunctionOnSet(f, T \cup R) = SumFunctionOnSet(f, T) + SumFunctionOnSet(f, R)
      BY <1>2, <1>5, <2>1, SumUnion
  <2>3. T \cup R \in SUBSET S
      OBVIOUS
  <2> QED BY <1>2, <2>2, <2>3
<1> QED BY <1>3, <1>4, <1>5

LEMMA SumBytesNone == SumBytes({}) = 0 /\ BytesOf({}) = 0
BY SumEmpty DEF SumBytes, BytesOf

\* The bytes of events are those of their samples, when no sample is in two.
LEMMA BytesOfSamples ==
    ASSUME NEW es \in SUBSET Events, IsFiniteSet(es), \A e, d \in es : e.s = d.s => e = d
    PROVE  BytesOf(es) = SumBytes({e.s : e \in es}) /\ Cardinality({e.s : e \in es}) = Cardinality(es)
<1> DEFINE h == [e \in es |-> e.s]
           us == {h[e] : e \in es}
           f == [e \in es |-> e.s.bytes]
           g == [u \in us |-> u.bytes]
<1>0. us = {e.s : e \in es}
    OBVIOUS
<1>1. \A e \in es : f[e] \in Int /\ g[h[e]] = f[e]
    BY DEF Events, Samples
<1>2. \A e, d \in es : h[e] = h[d] => e = d
    OBVIOUS
<1>3. SumFunctionOnSet(g, {h[e] : e \in es}) = SumFunctionOnSet(f, es)
  <2> HIDE DEF h, f, g
  <2> QED BY <1>1, <1>2, SumRenamed
<1>4. Cardinality({h[e] : e \in es}) = Cardinality(es)
  <2> HIDE DEF h
  <2> QED BY <1>2, RenamedCount
<1>5. SumBytes(us) = SumFunctionOnSet(g, us) /\ BytesOf(es) = SumFunctionOnSet(f, es)
    BY DEF SumBytes, BytesOf
<1>6. SumBytes(us) = BytesOf(es) /\ Cardinality(us) = Cardinality(es)
  <2> HIDE DEF g, f, h
  <2> QED BY <1>3, <1>4, <1>5
<1> QED BY <1>0, <1>6, Zenon

\* Events add up.
LEMMA BytesOfUnion ==
    ASSUME NEW es \in SUBSET Events, IsFiniteSet(es)
    PROVE  /\ BytesOf(es) \in Nat
           /\ \A T, R \in SUBSET es : T \cap R = {} => BytesOf(T \cup R) = BytesOf(T) + BytesOf(R)
<1> DEFINE f == [e \in es |-> e.s.bytes]
<1>1. \A x \in es : f[x] \in Nat
    BY DEF Events, Samples
<1>2. ASSUME NEW T \in SUBSET es PROVE IsFiniteSet(T) /\ BytesOf(T) = SumFunctionOnSet(f, T)
  <2>1. IsFiniteSet(T)
      BY FS_Subset
  <2>2. \A x \in T : [u \in T |-> u.s.bytes][x] = f[x]
      OBVIOUS
  <2>3. \A x \in T : f[x] \in Int
      BY <1>1
  <2> HIDE DEF f
  <2> QED BY <2>1, <2>2, <2>3, SumSame DEF BytesOf
<1> HIDE DEF f
<1>3. BytesOf(es) \in Nat
    BY <1>1, <1>2, SumNat
<1>5. ASSUME NEW T \in SUBSET es, NEW R \in SUBSET es, T \cap R = {}
      PROVE  BytesOf(T \cup R) = BytesOf(T) + BytesOf(R)
  <2>1. \A x \in T \cup R : f[x] \in Int
      BY <1>1
  <2>2. SumFunctionOnSet(f, T \cup R) = SumFunctionOnSet(f, T) + SumFunctionOnSet(f, R)
      BY <1>2, <1>5, <2>1, SumUnion
  <2>3. T \cup R \in SUBSET es
      OBVIOUS
  <2> QED BY <1>2, <2>2, <2>3
<1> QED BY <1>3, <1>5

\* A copy that is inserted is a new event, with the sample it copies.
LEMMA CopyOK ==
    ASSUME PlaceTypes, CopiesInv, NEW u \in Samples
    PROVE  /\ Copy(u) \in Events /\ Copy(u).s = u /\ Copy(u) \notin events
           /\ Copy(u).copy = 1 + Cardinality({e \in events : e.s = u})
           /\ IsFiniteSet({e \in events : e.s = u}) /\ Cardinality({e \in events : e.s = u}) \in Nat
<1> DEFINE same == {e \in events : e.s = u}
<1>1. IsFiniteSet(same) /\ Cardinality(same) \in Nat
    BY FS_Subset, FS_CardinalityType DEF PlaceTypes
<1>2. Copy(u).s = u /\ Copy(u).copy = 1 + Cardinality(same)
    BY DEF Copy
<1>3. Copy(u) \in Events
    BY <1>1 DEF Copy, Events
<1>4. Copy(u) \notin events
  <2> SUFFICES ASSUME Copy(u) \in events PROVE FALSE
      OBVIOUS
  <2>1. Copy(u).copy \in 1 .. Cardinality({d \in events : d.s = Copy(u).s})
      BY DEF CopiesInv
  <2>2. {d \in events : d.s = Copy(u).s} = same
      BY <1>2
  <2>3. Copy(u).copy \in 1 .. Cardinality(same)
      BY <2>1, <2>2, Zenon
  <2> QED BY <1>1, <1>2, <2>3
<1> QED BY <1>1, <1>2, <1>3, <1>4

\* What a flush adds to the rows of one key.
LEMMA AddedBytes ==
    ASSUME PlaceTypes, CopiesInv, NEW us \in SUBSET Samples, IsFiniteSet(us),
           NEW old \in SUBSET events
    PROVE  /\ BytesOf(old \cup {Copy(u) : u \in us}) = BytesOf(old) + SumBytes(us)
           /\ BytesOf(old) \in Nat /\ SumBytes(us) \in Nat
           /\ IsFiniteSet({Copy(u) : u \in us}) /\ {Copy(u) : u \in us} \subseteq Events
<1> DEFINE c == [u \in us |-> Copy(u)]
           new == {c[u] : u \in us}
<1>0. new = {Copy(u) : u \in us}
    OBVIOUS
<1>1. IsFiniteSet(new)
  <2> HIDE DEF c
  <2> QED BY FiniteImage
<1>2a. \A u \in us : c[u] \in Events /\ c[u].s = u /\ c[u] \notin events
    BY CopyOK
<1> HIDE DEF c
<1>2b. new \subseteq Events /\ new \cap old = {}
    BY <1>2a
<1>2c. \A e \in new : e.s \in us /\ e = c[e.s]
    BY <1>2a
<1>2d. {e.s : e \in new} = us
    BY <1>2a, <1>2c
<1>2. new \subseteq Events /\ new \cap old = {} /\ {e.s : e \in new} = us /\ \A e, d \in new : e.s = d.s => e = d
    BY <1>2b, <1>2c, <1>2d
<1> HIDE DEF new
<1>3. IsFiniteSet(old) /\ old \subseteq Events
    BY FS_Subset DEF PlaceTypes
<1>4. BytesOf(new) = SumBytes(us)
  <2>1. BytesOf(new) = SumBytes({e.s : e \in new})
      BY <1>1, <1>2, BytesOfSamples
  <2> QED BY <1>2, <2>1, Zenon
<1>5. BytesOf(old \cup new) = BytesOf(old) + BytesOf(new)
  <2>1. IsFiniteSet(old \cup new) /\ old \cup new \in SUBSET Events
      BY <1>1, <1>2, <1>3, FS_Union
  <2>2. old \in SUBSET (old \cup new) /\ new \in SUBSET (old \cup new) /\ old \cap new = {}
      BY <1>2
  <2> QED BY <2>1, <2>2, BytesOfUnion
<1>6. BytesOf(old) \in Nat /\ BytesOf(new) \in Nat
    BY <1>1, <1>2, <1>3, BytesOfUnion
<1>7. BytesOf(old \cup new) = BytesOf(old) + SumBytes(us) /\ SumBytes(us) \in Nat
    BY <1>4, <1>5, <1>6
<1> QED BY <1>0, <1>1, <1>2, <1>6, <1>7, Zenon

\* Events, days and months are written in one transaction and stay in step;
\* a second copy of a sample gets the next number.
LEMMA InsertStep ==
    ASSUME PlaceTypes, CopiesInv, BooksInv, NEW us \in SUBSET Samples, IsFiniteSet(us), Insert(us)
    PROVE  /\ events' \subseteq Events /\ IsFiniteSet(events') /\ CopiesInv' /\ BooksInv'
           /\ Booked' = Booked \cup us
           /\ us \cap Booked = {} /\ (\A e, d \in events : e.s = d.s => e = d)
                => \A e, d \in events' : e.s = d.s => e = d
<1> DEFINE new == {Copy(u) : u \in us}
<1>1. events' = events \cup new
    BY DEF Insert
<1>2. IsFiniteSet(new) /\ new \subseteq Events
    BY AddedBytes
<1>3. events' \subseteq Events /\ IsFiniteSet(events')
    BY <1>1, <1>2, FS_Union DEF PlaceTypes
<1>4. \A e \in new : e.s \in us /\ e = Copy(e.s)
    BY CopyOK
<1>5. Booked' = Booked \cup us
  <2>1. \A u \in us : Copy(u).s = u /\ Copy(u) \in new
      BY CopyOK
  <2>2. Booked' = {e.s : e \in events'}
      BY DEF Booked
  <2> HIDE DEF new
  <2>3. ASSUME NEW u \in us PROVE u \in {e.s : e \in events'}
      BY <1>1, <2>1
  <2>4. {e.s : e \in events'} \subseteq Booked \cup us
      BY <1>1, <1>4 DEF Booked
  <2>5. Booked \subseteq {e.s : e \in events'}
      BY <1>1 DEF Booked
  <2> QED BY <2>2, <2>3, <2>4, <2>5
<1>6. ASSUME us \cap Booked = {}, \A e, d \in events : e.s = d.s => e = d,
             NEW e \in events', NEW d \in events', e.s = d.s
      PROVE  e = d
  <2>1. \A x \in events : x.s \in Booked
      BY DEF Booked
  <2> HIDE DEF new
  <2> QED BY <1>1, <1>4, <1>6, <2>1
<1>7. CopiesInv'
  <2> SUFFICES ASSUME NEW e \in events' PROVE e.copy \in 1 .. Cardinality({d \in events' : d.s = e.s})
      BY DEF CopiesInv
  <2> DEFINE old == {d \in events : d.s = e.s}
             now2 == {d \in events' : d.s = e.s}
  <2>1. IsFiniteSet(now2) /\ IsFiniteSet(old) /\ Cardinality(old) \in Nat /\ Cardinality(now2) \in Nat
      BY <1>3, FS_Subset, FS_CardinalityType DEF PlaceTypes
  <2>2. CASE e \in events
    <3>1. old \subseteq now2
        BY <1>1
    <3>2. Cardinality(old) <= Cardinality(now2)
        BY <2>1, <3>1, FS_Subset
    <3>3. e.copy \in 1 .. Cardinality(old)
        BY <2>2 DEF CopiesInv
    <3> QED BY <2>1, <3>2, <3>3
  <2>3. CASE e \in new
    <3>1. e.s \in us /\ e = Copy(e.s) /\ e.s \in Samples
        BY <1>4, <2>3
    <3>2. e.copy = 1 + Cardinality(old) /\ e \notin events
        BY <3>1, CopyOK
    <3>3. now2 = old \cup {e}
        BY <1>1, <1>4, <2>3, <3>1
    <3>4. Cardinality(now2) = Cardinality(old) + 1
        BY <2>1, <3>2, <3>3, FS_AddElement
    <3> QED BY <2>1, <3>2, <3>4
  <2> QED BY <1>1, <2>2, <2>3
<1>8. ASSUME NEW k \in Ops \X Signals \X Days
      PROVE  daily'[k] = IF OfDay(events', k) = {} THEN Unset ELSE BytesOf(OfDay(events', k))
  <2> DEFINE mine == {u \in us : DayKey(u) = k}
             old == OfDay(events, k)
  <2>1. mine \in SUBSET Samples /\ IsFiniteSet(mine) /\ old \in SUBSET events
      BY FS_Subset DEF OfDay
  <2>2. OfDay(events', k) = old \cup {Copy(u) : u \in mine}
      BY <1>1, CopyOK DEF OfDay
  <2>3. daily'[k] = Upserted(daily[k], mine)
    <3>1. daily'[k] = IF k[1] = "ingest" THEN IngestionDaily(us, k) ELSE QueryUsageDaily(us, k)
        BY DEF Insert, DailyAfter, BooksInv
    <3>2. CASE k[1] = "ingest"
      <4>1. {u \in us : u.op = "ingest" /\ <<"ingest", u.signal, DayOf(u.at)>> = k} = mine
          BY <3>2 DEF DayKey
      <4>2. IngestionDaily(us, k) = Upserted(daily[k], mine)
          BY <4>1, Zenon DEF IngestionDaily
      <4> QED BY <3>1, <3>2, <4>2
    <3>3. CASE k[1] = "query"
      <4>1. {u \in us : u.op = "query" /\ <<"query", u.signal, DayOf(u.at)>> = k} = mine
          BY <3>3 DEF DayKey
      <4>2. QueryUsageDaily(us, k) = Upserted(daily[k], mine)
          BY <4>1, Zenon DEF QueryUsageDaily
      <4> QED BY <3>1, <3>3, <4>2
    <3> QED BY <3>2, <3>3 DEF Ops
  <2>4. daily[k] = IF old = {} THEN Unset ELSE BytesOf(old)
      BY DEF BooksInv
  <2>5. BytesOf(old \cup {Copy(u) : u \in mine}) = BytesOf(old) + SumBytes(mine)
        /\ BytesOf(old) \in Nat /\ SumBytes(mine) \in Nat
      BY <2>1, AddedBytes
  <2>6. CASE mine = {}
    <3>1. {Copy(u) : u \in mine} = {}
        BY <2>6
    <3>2. OfDay(events', k) = old
        BY <2>2, <3>1
    <3> QED BY <2>3, <2>4, <2>6, <3>2, Zenon DEF Upserted
  <2>7. CASE mine # {}
    <3>1. OfDay(events', k) # {}
        BY <2>2, <2>7
    <3>2. Number(daily[k]) = BytesOf(old)
      <4>1. CASE old = {}
        <5>1. BytesOf(old) = 0
            BY <4>1, SumBytesNone, Zenon
        <5> QED BY <2>4, <4>1, <5>1 DEF Number
      <4>2. CASE old # {}
          BY <2>4, <2>5, <4>2, UsageAssumption DEF Number
      <4> QED BY <4>1, <4>2
    <3>3. daily'[k] = BytesOf(old) + SumBytes(mine)
        BY <2>3, <2>7, <3>2, Zenon DEF Upserted
    <3>4. BytesOf(OfDay(events', k)) = BytesOf(old) + SumBytes(mine)
        BY <2>2, <2>5, Zenon
    <3> QED BY <3>1, <3>3, <3>4, Zenon
  <2> QED BY <2>6, <2>7
<1>9. ASSUME NEW k \in Ops \X Signals \X Months
      PROVE  monthly'[k] = BytesOf(OfMonth(events', k))
  <2> DEFINE mine == {u \in us : MonthKey(u) = k}
             old == OfMonth(events, k)
  <2>1. mine \in SUBSET Samples /\ IsFiniteSet(mine) /\ old \in SUBSET events
      BY FS_Subset DEF OfMonth
  <2>2. OfMonth(events', k) = old \cup {Copy(u) : u \in mine}
      BY <1>1, CopyOK DEF OfMonth
  <2>3. monthly'[k] = monthly[k] + SumBytes(mine)
      BY DEF Insert, MonthlyAfter, BooksInv, MonthKey
  <2>4. monthly[k] = BytesOf(old)
      BY DEF BooksInv
  <2>5. BytesOf(old \cup {Copy(u) : u \in mine}) = BytesOf(old) + SumBytes(mine)
      BY <2>1, AddedBytes
  <2> QED BY <2>2, <2>3, <2>4, <2>5, Zenon
<1>10. BooksInv'
  <2>1. daily' = [k \in Ops \X Signals \X Days |-> daily'[k]]
      BY DEF Insert, DailyAfter, BooksInv
  <2>2. monthly' = [k \in Ops \X Signals \X Months |-> monthly'[k]]
      BY DEF Insert, MonthlyAfter, BooksInv
  <2> QED BY <1>8, <1>9, <2>1, <2>2, Zenon DEF BooksInv
<1> QED BY <1>3, <1>5, <1>6, <1>7, <1>10

\* A flush books the lists, keeps them or gives them up.
LEMMA FlushStep ==
    ASSUME ClockInv, TrackerInv, CopiesInv, BooksInv, Flush
    PROVE  TrackerInv' /\ Everything' = Everything /\ CopiesInv' /\ BooksInv'
<1>1. PICK ow \in Outcomes, oq \in Outcomes :
          LET w == After(worker.writes, worker.wfail, ow)
              r == After(worker.queries, worker.qfail, oq)
          IN  /\ worker' = [writes |-> w.list, queries |-> r.list, wfail |-> w.fails, qfail |-> r.fails, full |-> FALSE]
              /\ gone' = gone \cup w.dropped \cup r.dropped
              /\ Insert((IF ow = "failed" THEN {} ELSE ToSet(worker.writes))
                        \cup (IF oq = "failed" THEN {} ELSE ToSet(worker.queries)))
    BY DEF Flush
<1> DEFINE w == After(worker.writes, worker.wfail, ow)
           r == After(worker.queries, worker.qfail, oq)
           bw == BookedOf(worker.writes, ow)
           bq == BookedOf(worker.queries, oq)
           W == ToSet(worker.writes)
           Q == ToSet(worker.queries)
<1>2. /\ UNCHANGED <<now, spawned, hot, channel, count>>
      /\ worker' = [writes |-> w.list, queries |-> r.list, wfail |-> w.fails, qfail |-> r.fails, full |-> FALSE]
      /\ gone' = gone \cup w.dropped \cup r.dropped
      /\ Insert(bw \cup bq)
    BY <1>1 DEF Flush, BookedOf
<1>3. /\ worker \in Workers /\ Once(worker.writes) /\ Once(worker.queries)
      /\ worker.writes \in Seq(Samples) /\ worker.queries \in Seq(Samples) /\ worker.wfail \in Nat /\ worker.qfail \in Nat
    BY DEF TrackerInv, PlaceTypes, PlacesInv, Workers
<1>4. /\ w.list \in Seq(Samples) /\ Once(w.list) /\ w.fails \in Nat /\ Len(w.list) <= Len(worker.writes)
      /\ ToSet(w.list) \subseteq W /\ ToSet(w.list) \cup w.dropped \cup bw = W /\ ToSet(w.list) \cap w.dropped = {}
      /\ (~AmbiguousCommits => bw \cap (ToSet(w.list) \cup w.dropped) = {})
    BY <1>3, AfterOK
<1>5. /\ r.list \in Seq(Samples) /\ Once(r.list) /\ r.fails \in Nat /\ Len(r.list) <= Len(worker.queries)
      /\ ToSet(r.list) \subseteq Q /\ ToSet(r.list) \cup r.dropped \cup bq = Q /\ ToSet(r.list) \cap r.dropped = {}
      /\ (~AmbiguousCommits => bq \cap (ToSet(r.list) \cup r.dropped) = {})
    BY <1>3, AfterOK
<1> HIDE DEF w, r, bw, bq
<1>6. worker' \in Workers /\ worker'.writes = w.list /\ worker'.queries = r.list
    BY <1>2, <1>4, <1>5 DEF Workers
<1> DEFINE keep == spawned \cup ToSet(channel)
           W2 == ToSet(w.list)
           Q2 == ToSet(r.list)
<1>7. /\ Known = keep \cup W \cup Q /\ Known' = keep \cup W2 \cup Q2
    BY <1>2, <1>6 DEF Known
<1>8. W \cap Q = {} /\ keep \cap (W \cup Q) = {} /\ Known \cap gone = {}
    BY DEF TrackerInv, PlacesInv
<1>9. IsFiniteSet(Everything)
    BY EverythingCounted DEF TrackerInv
<1>10. Known \subseteq Everything /\ Everything \subseteq Samples
    BY EverythingOK DEF Everything, TrackerInv
<1>11. bw \cup bq \in SUBSET Samples /\ IsFiniteSet(bw \cup bq)
  <2>1. bw \cup bq \in SUBSET Everything
      BY <1>4, <1>5, <1>7, <1>10
  <2> QED BY <1>9, <1>10, <2>1, FS_Subset
<1>12. PlaceTypes
    BY DEF TrackerInv
<1>13. /\ events' \subseteq Events /\ IsFiniteSet(events') /\ CopiesInv' /\ BooksInv'
       /\ Booked' = Booked \cup (bw \cup bq)
       /\ (bw \cup bq) \cap Booked = {} /\ (\A e, d \in events : e.s = d.s => e = d)
            => \A e, d \in events' : e.s = d.s => e = d
    BY <1>2, <1>11, <1>12, InsertStep
<1> HIDE DEF W, Q, keep, W2, Q2
<1>14. Everything' = Everything
    BY <1>2, <1>4, <1>5, <1>7, <1>13 DEF Everything, W2, Q2
<1>15. NumbersInv'
    BY <1>2, <1>14, NumbersKeep DEF TrackerInv
<1>16. PlaceTypes'
  <2>1. gone' \subseteq Everything'
      BY DEF Everything
  <2> QED BY <1>2, <1>6, <1>10, <1>13, <1>14, <2>1 DEF TrackerInv, PlaceTypes
<1>17. PlacesInv'
  <2>1. /\ Once(channel') /\ Once(worker'.writes) /\ Once(worker'.queries)
      BY <1>2, <1>4, <1>5, <1>6 DEF TrackerInv, PlacesInv
  <2>2. /\ spawned' \cap (ToSet(channel') \cup ToSet(worker'.writes) \cup ToSet(worker'.queries)) = {}
        /\ ToSet(channel') \cap (ToSet(worker'.writes) \cup ToSet(worker'.queries)) = {}
        /\ ToSet(worker'.writes) \cap ToSet(worker'.queries) = {}
    <3>1. W2 \subseteq W /\ Q2 \subseteq Q
        BY <1>4, <1>5 DEF W2, Q2
    <3>2. spawned \cap ToSet(channel) = {}
        BY DEF TrackerInv, PlacesInv
    <3> QED BY <1>2, <1>6, <1>8, <3>1, <3>2 DEF W2, Q2, keep
  <2>3. Known' \cap gone' = {}
      BY <1>2, <1>4, <1>5, <1>7, <1>8 DEF W2, Q2
  <2>4. ASSUME ~AmbiguousCommits
        PROVE  /\ Booked' \cap (Known' \cup gone') = {}
               /\ \A e, d \in events' : e.s = d.s => e = d
    <3>1. Booked \cap (Known \cup gone) = {} /\ \A e, d \in events : e.s = d.s => e = d
        BY <2>4 DEF TrackerInv, PlacesInv
    <3>2. (bw \cup bq) \cap Booked = {}
        BY <1>4, <1>5, <1>7, <3>1
    <3>3. (bw \cup bq) \cap (Known' \cup gone') = {}
        BY <1>2, <1>4, <1>5, <1>7, <1>8, <2>4 DEF W2, Q2
    <3>4. Known' \cup gone' \subseteq Known \cup gone
        BY <1>2, <1>4, <1>5, <1>7 DEF W2, Q2
    <3>5. Booked' \cap (Known' \cup gone') = {}
        BY <1>13, <3>1, <3>3, <3>4
    <3> QED BY <1>13, <3>1, <3>2, <3>5
  <2> QED BY <2>1, <2>2, <2>3, <2>4 DEF PlacesInv
<1>18. BufferInv'
  <2>1. PICK m \in Nat, n \in Nat : m = Len(worker.writes) /\ n = Len(worker.queries)
      BY <1>3
  <2>2. PICK k \in Nat, j \in Nat : k = Len(w.list) /\ j = Len(r.list)
      BY <1>4, <1>5
  <2>3. k <= m /\ j <= n
      BY <1>4, <1>5, <2>1, <2>2, Zenon
  <2>4. m + n <= RetryBufferMax
      BY <2>1, Zenon DEF TrackerInv, BufferInv, Buffered
  <2>5. k + j <= RetryBufferMax
      BY <2>3, <2>4, UsageAssumption
  <2> QED BY <1>6, <2>2, <2>5, Zenon DEF BufferInv, Buffered
<1> QED BY <1>13, <1>14, <1>15, <1>16, <1>17, <1>18 DEF TrackerInv

\* A restart loses what was in memory: from there on it counts as lost.
LEMMA RestartStep ==
    ASSUME ClockInv, TrackerInv, Restart
    PROVE  TrackerInv' /\ Everything' = Everything
<1>1. /\ hot' = {} /\ channel' = <<>> /\ worker' = NoWorker /\ spawned' = {}
      /\ gone' = gone \cup (Known \ Booked) /\ UNCHANGED <<now, events, count>>
    BY DEF Restart
<1>2. NoWorker \in Workers /\ NoWorker.writes = <<>> /\ NoWorker.queries = <<>> /\ Buffered(NoWorker) = 0
    BY EmptyList DEF NoWorker, Workers, Buffered
<1>3. Known' = {} /\ Booked' = Booked
    BY <1>1, <1>2, EmptyList DEF Known, Booked
<1>4. Everything' = Everything
    BY <1>1, <1>3 DEF Everything
<1>5. NumbersInv'
    BY <1>1, <1>4, NumbersKeep DEF TrackerInv
<1>6. PlaceTypes'
    BY <1>1, <1>2, EmptyList, EverythingOK DEF TrackerInv, PlaceTypes
<1>7. PlacesInv'
    BY <1>1, <1>2, <1>3, EmptyList DEF TrackerInv, PlacesInv
<1>8. BufferInv'
  <2>1. 0 <= RetryBufferMax
      BY UsageAssumption
  <2> QED BY <1>1, <1>2, <2>1, Zenon DEF BufferInv
<1> QED BY <1>4, <1>5, <1>6, <1>7, <1>8 DEF TrackerInv

\* The tables are written by flushes only.
LEMMA BooksKeep ==
    ASSUME CopiesInv, BooksInv, UNCHANGED <<events, daily, monthly>>
    PROVE  CopiesInv' /\ BooksInv'
BY DEF CopiesInv, BooksInv

\* What a step adds to the samples there have been.
Adds(u) == u \in Samples /\ u.at = now /\ u \notin Everything /\ Everything' = Everything \cup {u}
LEMMA AddStep ==
    ASSUME UsageIInv, NEW op \in Ops, NEW s \in Signals, NEW b \in Nat, Spawn(Sample(op, s, b)),
           UNCHANGED <<now, hot, channel, worker, events, daily, monthly, gone>>
    PROVE  TrackerInv' /\ CopiesInv' /\ BooksInv' /\ Adds(Sample(op, s, b))
<1>1. ClockInv /\ TrackerInv /\ CopiesInv /\ BooksInv
    BY DEF UsageIInv, TrackerInv
<1> DEFINE u == Sample(op, s, b)
<1>2. u \in Samples /\ u.id = count + 1 /\ u.at = now
    BY <1>1, SampleOK
<1>3. spawned' = spawned \cup {u} /\ count' = count + 1
    BY DEF Spawn
<1> HIDE DEF u
<1>4. TrackerInv' /\ u \notin Everything /\ Everything' = Everything \cup {u}
    BY <1>1, <1>2, <1>3, SpawnStep
<1>5. CopiesInv' /\ BooksInv'
    BY <1>1, BooksKeep
<1> QED BY <1>2, <1>4, <1>5 DEF Adds, u

\* The steps that record no sample.
Still ==
    \/ \E u \in spawned : Record(u)
    \/ Receive \/ Flush \/ Snapshot \/ Tick
    \/ Marking \/ Listing \/ Sweeping \/ Restart \/ Quiet

\* A step records one more sample or leaves all there have been somewhere.
LEMMA UsageKeeps ==
    ASSUME UsageIInv, FilesInv, UsageStep
    PROVE  /\ UsageIInv'
           /\ \/ \E s \in Signals, b \in Sizes : WriteFile(s, b) /\ Adds(Sample("ingest", s, b))
              \/ \E s \in Signals, b \in Sizes : QueryDone(s, b) /\ Adds(Sample("query", s, b))
              \/ \E f, g \in files : Compact(f, g) /\ Adds(Sample("ingest", f.signal, f.bytes + g.bytes))
              \/ Still /\ Everything' = Everything
<1>0. ClockInv /\ TrackerInv /\ CopiesInv /\ BooksInv
    BY DEF UsageIInv, TrackerInv
<1>1. ClockInv' /\ now' \in {now, now + 1}
    BY <1>0, ClockStep
<1>2. Sizes \subseteq Nat /\ "ingest" \in Ops /\ "query" \in Ops
    BY UsageAssumption DEF Ops
<1>3. ASSUME NEW s \in Signals, NEW b \in Sizes, WriteFile(s, b)
      PROVE  TrackerInv' /\ CopiesInv' /\ BooksInv' /\ Adds(Sample("ingest", s, b))
    BY <1>2, <1>3, AddStep DEF WriteFile
<1>4. ASSUME NEW s \in Signals, NEW b \in Sizes, QueryDone(s, b)
      PROVE  TrackerInv' /\ CopiesInv' /\ BooksInv' /\ Adds(Sample("query", s, b))
    BY <1>2, <1>4, AddStep DEF QueryDone
<1>5. ASSUME NEW f \in files, NEW g \in files, Compact(f, g)
      PROVE  TrackerInv' /\ CopiesInv' /\ BooksInv' /\ Adds(Sample("ingest", f.signal, f.bytes + g.bytes))
  <2>1. f.signal \in Signals /\ f.bytes + g.bytes \in Nat
      BY DEF FilesInv, Rows
  <2> QED BY <1>2, <1>5, <2>1, AddStep DEF Compact
<1>6. CASE \E u \in spawned : Record(u)
  <2>1. UNCHANGED <<events, daily, monthly>>
      BY <1>6 DEF Record
  <2> QED BY <1>0, <1>1, <1>6, <2>1, RecordStep, BooksKeep DEF UsageIInv, TrackerInv, Still
<1>7. CASE Receive
  <2>1. UNCHANGED <<events, daily, monthly>>
      BY <1>7 DEF Receive
  <2> QED BY <1>0, <1>1, <1>7, <2>1, ReceiveStep, BooksKeep DEF UsageIInv, TrackerInv, Still
<1>8. CASE Flush
    BY <1>0, <1>1, <1>8, FlushStep DEF UsageIInv, TrackerInv, Still
<1>9. CASE Restart
  <2>1. UNCHANGED <<events, daily, monthly>>
      BY <1>9 DEF Restart
  <2> QED BY <1>0, <1>1, <1>9, <2>1, RestartStep, BooksKeep DEF UsageIInv, TrackerInv, Still
<1>10. CASE Snapshot \/ Tick \/ Marking \/ Listing \/ Sweeping \/ Quiet
  <2>1. UNCHANGED tracker
      BY <1>10 DEF Snapshot, Tick, Marking, Listing, Sweeping, Quiet
  <2>2. UNCHANGED <<spawned, hot, channel, worker, events, gone, count>> /\ UNCHANGED <<events, daily, monthly>>
      BY <2>1 DEF tracker
  <2> QED BY <1>0, <1>1, <1>10, <2>2, TrackerKeeps, BooksKeep DEF UsageIInv, TrackerInv, Still
<1> QED BY <1>1, <1>3, <1>4, <1>5, <1>6, <1>7, <1>8, <1>9, <1>10 DEF UsageStep, UsageIInv, TrackerInv

LEMMA UsageStart == Init => UsageIInv
<1> SUFFICES ASSUME Init PROVE UsageIInv
    OBVIOUS
<1>1. UsageInit
    BY DEF Init
<1>2. Known = {} /\ Booked = {} /\ Everything = {}
    BY <1>1, EmptyList DEF UsageInit, Known, Booked, Everything, NoWorker
<1>3. ClockInv
    BY <1>1, UsageAssumption DEF UsageInit, ClockInv
<1>4. NoWorker \in Workers /\ NoWorker.writes = <<>> /\ NoWorker.queries = <<>> /\ Buffered(NoWorker) = 0
    BY EmptyList DEF NoWorker, Workers, Buffered
<1>5. PlaceTypes
    BY <1>1, <1>4, EmptyList, FS_EmptySet DEF UsageInit, PlaceTypes
<1>6. NumbersInv
    BY <1>1, <1>2 DEF UsageInit, NumbersInv
<1>7. PlacesInv
    BY <1>1, <1>2, <1>4, EmptyList DEF UsageInit, PlacesInv
<1>8. BufferInv
  <2>1. 0 <= RetryBufferMax /\ worker = NoWorker
      BY <1>1, UsageAssumption DEF UsageInit
  <2> QED BY <1>4, <2>1, Zenon DEF BufferInv
<1>9. CopiesInv
    BY <1>1 DEF UsageInit, CopiesInv
<1>10. BooksInv
  <2>1. \A k : OfDay(events, k) = {} /\ OfMonth(events, k) = {}
      BY <1>1 DEF UsageInit, OfDay, OfMonth
  <2>2. \A k : BytesOf(OfMonth(events, k)) = 0
      BY <2>1, SumBytesNone, Zenon
  <2> QED BY <1>1, <2>1, <2>2, Zenon DEF UsageInit, BooksInv
<1> QED BY <1>3, <1>5, <1>6, <1>7, <1>8, <1>9, <1>10 DEF UsageIInv

\* Samples are numbered, each in one place; the retry buffer is bounded; and
\* the rollups of days and months are those of the events, whatever is
\* dropped, retried, booked twice or lost with the process.
THEOREM UsageInvariant == Spec => []UsageIInv
<1>1. UsageIInv /\ FilesInv /\ [Next]_vars => UsageIInv'
    BY StepsAre, UsageKeeps
<1>2. RetentionIInv => FilesInv
    BY DEF RetentionIInv
<1> QED BY <1>1, <1>2, UsageStart, RetentionInvariant, PTL DEF Spec

-----------------------------------------------------------------------------
(* Days and months.                                                        *)

\* The quotient of a division.
LEMMA DivIs ==
    ASSUME NEW a \in Nat, NEW n \in Nat \ {0}
    PROVE  a \div n \in Nat /\ (a \div n) * n <= a /\ a < (a \div n) * n + n
OBVIOUS

\* Multiples grow with their factors.
LEMMA TimesGrows ==
    ASSUME NEW n \in Nat, NEW x \in Int, NEW y \in Int, x <= y
    PROVE x * n <= y * n
OBVIOUS

\* There is one quotient.
LEMMA DivUnique ==
    ASSUME NEW a \in Nat, NEW n \in Nat \ {0}, NEW q \in Nat, q * n <= a, a < q * n + n
    PROVE  a \div n = q
<1>1. PICK p \in Nat : p = a \div n /\ p * n <= a /\ a < p * n + n
  BY DivIs
<1>2. CASE p < q
  <2>1. (p+1) * n <= q * n
    BY <1>2, TimesGrows
  <2>2. (p+1) * n = p * n + n
    OBVIOUS
  <2> QED BY <1>1, <2>1, <2>2
<1>3. CASE q < p
  <2>1. (q+1) * n <= p * n
    BY <1>3, TimesGrows
  <2>2. (q+1) * n = q * n + n
    OBVIOUS
  <2> QED BY <1>1, <2>1, <2>2
<1> QED BY <1>1, <1>2, <1>3

\* Quotients grow with the dividend.
LEMMA DivMonotone ==
    ASSUME NEW a \in Nat, NEW b \in Nat, a <= b, NEW n \in Nat \ {0}
    PROVE  a \div n <= b \div n
<1>1. PICK p \in Nat : p = a \div n /\ p * n <= a /\ a < p * n + n
  BY DivIs
<1>2. PICK q \in Nat : q = b \div n /\ q * n <= b /\ b < q * n + n
  BY DivIs
<1>3. CASE q < p
  <2>1. (q+1) * n <= p * n
    BY <1>3, TimesGrows
  <2>2. (q+1) * n = q * n + n
    OBVIOUS
  <2> QED BY <1>1, <1>2, <2>1, <2>2
<1> QED BY <1>1, <1>2, <1>3

\* A month is a whole number of days.
LEMMA Divisible ==
    ASSUME NEW n \in Nat \ {0}, NEW m \in Nat \ {0}, m % n = 0
    PROVE  \E q \in Nat \ {0} : m = q * n
<1>1. m = (m \div n) * n + (m % n)
  OBVIOUS
<1>2. m \div n \in Nat
  BY DivIs
<1>3. PICK q \in Nat : q = m \div n
  BY <1>2
<1>4. m = q * n /\ q # 0
  BY <1>1, <1>3
<1> QED BY <1>3, <1>4

\* A time and the start of its day are in the same month.
LEMMA DayInMonth ==
    ASSUME NEW a \in Nat, NEW n \in Nat \ {0}, NEW m \in Nat \ {0}, m % n = 0
    PROVE  ((a \div n) * n) \div m = a \div m
<1>0. PICK k \in Nat \ {0} : m = k * n
  BY Divisible
<1>1. PICK p \in Nat : p = a \div n /\ p * n <= a /\ a < p * n + n
  BY DivIs
<1>2. PICK q \in Nat : q = a \div m /\ q * m <= a /\ a < q * m + m
  BY DivIs
<1>3. q * m = (q * k) * n /\ q * m + m = (q * k + k) * n /\ q * k \in Nat
  BY <1>0
<1>4. PICK r \in Nat, t \in Nat : r = q * k /\ t = q * k + k
  BY <1>3
<1>5. r <= p
  <2>1. CASE p < r
    <3>1. (p + 1) * n <= r * n
      BY <2>1, TimesGrows
    <3>2. (p+1) * n = p * n + n
      OBVIOUS
    <3> QED BY <1>1, <1>2, <1>3, <1>4, <3>1, <3>2
  <2> QED BY <2>1
<1>6. p < t
  <2>1. CASE t <= p
    <3>1. t * n <= p * n
      BY <2>1, TimesGrows
    <3> QED BY <1>1, <1>2, <1>3, <1>4, <3>1
  <2> QED BY <2>1
<1>7. r * n <= p * n /\ p * n + n <= t * n
  <2>1. (p+1) * n <= t * n
      BY <1>6, TimesGrows
  <2>2. (p+1) * n = p * n + n
      OBVIOUS
  <2> QED BY <1>5, <2>1, <2>2, TimesGrows
<1>8. q * m <= p * n /\ p * n < q * m + m /\ p * n \in Nat
  <2>1. p * n < p * n + n /\ p * n \in Nat
    OBVIOUS
  <2> QED BY <1>3, <1>4, <1>7, <2>1
<1>9. (p * n) \div m = q
  BY <1>8, DivUnique
<1> QED BY <1>1, <1>2, <1>9

LEMMA CalendarOK == DayLen \in Nat \ {0} /\ MonthLen \in Nat \ {0} /\ MonthLen % DayLen = 0 /\ MaxTime \in Nat
BY UsageAssumption

\* The events of a day are those in the window of that day.
LEMMA WindowIsDay ==
    ASSUME PlaceTypes, NEW op \in Ops, NEW s \in Signals, NEW d \in Nat
    PROVE  Window(op, s, d * DayLen, d * DayLen + DayLen) = OfDay(events, <<op, s, d>>)
<1>1. ASSUME NEW a \in Nat PROVE (a >= d * DayLen /\ a < d * DayLen + DayLen) <=> DayOf(a) = d
  <2>1. ASSUME a >= d * DayLen, a < d * DayLen + DayLen PROVE a \div DayLen = d
    <3>1. d * DayLen <= a
        BY <2>1, CalendarOK
    <3> QED BY <2>1, <3>1, CalendarOK, DivUnique
  <2>2. ASSUME a \div DayLen = d PROVE a >= d * DayLen /\ a < d * DayLen + DayLen
    <3>1. (a \div DayLen) * DayLen <= a /\ a < (a \div DayLen) * DayLen + DayLen
        BY CalendarOK, DivIs
    <3>2. d * DayLen <= a /\ a < d * DayLen + DayLen
        BY <2>2, <3>1
    <3> QED BY <3>2, CalendarOK
  <2> QED BY <2>1, <2>2 DEF DayOf
<1>2. \A e \in events : e.s.at \in Nat
    BY DEF PlaceTypes, Events, Samples
<1>3. \A e \in events : (e.s.at >= d * DayLen /\ e.s.at < d * DayLen + DayLen) <=> DayOf(e.s.at) = d
    BY <1>1, <1>2
<1> QED BY <1>3 DEF Window, OfDay, DayKey

\* A sample was taken on one of the days there are.
LEMMA DayOK ==
    ASSUME ClockInv, PlaceTypes, NumbersInv, NEW u \in Everything
    PROVE  u.at \in Nat /\ DayOf(u.at) \in Days /\ Today \in Days /\ DayOf(u.at) <= Today /\ Today \in Nat
<1>1. u.at \in Nat /\ u.at <= now
    BY EverythingOK DEF Samples, NumbersInv
<1>2. now \in Nat /\ now <= MaxTime
    BY UsageAssumption DEF ClockInv
<1>3. now \div DayLen <= MaxTime \div DayLen /\ now \div DayLen \in Nat /\ MaxTime \div DayLen \in Nat
    BY <1>2, CalendarOK, DivMonotone, DivIs
<1>4. u.at \div DayLen <= now \div DayLen /\ u.at \div DayLen \in Nat
    BY <1>1, <1>2, CalendarOK, DivMonotone, DivIs
<1> QED BY <1>1, <1>3, <1>4 DEF DayOf, Days, Today

\* A day's row, as a number, is the bytes of the day's events.
LEMMA RowIs ==
    ASSUME PlaceTypes, BooksInv, NEW k \in Ops \X Signals \X Days
    PROVE  /\ daily[k] = (IF OfDay(events, k) = {} THEN Unset ELSE BytesOf(OfDay(events, k)))
           /\ Number(daily[k]) = BytesOf(OfDay(events, k)) /\ BytesOf(OfDay(events, k)) \in Nat
<1>1. daily[k] = IF OfDay(events, k) = {} THEN Unset ELSE BytesOf(OfDay(events, k))
    BY DEF BooksInv
<1>2. BytesOf(OfDay(events, k)) \in Nat
  <2>1. OfDay(events, k) \in SUBSET Events /\ IsFiniteSet(OfDay(events, k))
      BY FS_Subset DEF PlaceTypes, OfDay
  <2> QED BY <2>1, BytesOfUnion
<1>3. CASE OfDay(events, k) = {}
  <2>1. BytesOf(OfDay(events, k)) = 0
      BY <1>3, SumBytesNone, Zenon
  <2> QED BY <1>1, <1>2, <1>3, <2>1 DEF Number
<1>4. CASE OfDay(events, k) # {}
    BY <1>1, <1>2, <1>4, UsageAssumption DEF Number
<1> QED BY <1>1, <1>2, <1>3, <1>4

\* The rows reported for one day and one signal.
LEMMA RowsOfDay ==
    ASSUME PlaceTypes, BooksInv, NEW s \in Signals, NEW d \in Days, NEW op \in Ops
    PROVE  {r \in UsageDaily(s, d, d) : r.op = op}
             = IF OfDay(events, <<op, s, d>>) = {} THEN {}
               ELSE {[op |-> op, signal |-> s, day |-> d, bytes |-> BytesOf(OfDay(events, <<op, s, d>>))]}
<1> DEFINE k == <<op, s, d>>
           row == [op |-> op, signal |-> s, day |-> d, bytes |-> daily[k]]
<1>1. SignalFilter(s) = {s} /\ d \in Nat /\ d .. d = {d}
    BY UsageAssumption DEF SignalFilter, Days
<1>2. DOMAIN daily = Ops \X Signals \X Days
    BY DEF BooksInv
<1>3. \A j \in DOMAIN daily : j[2] \in SignalFilter(s) /\ j[3] \in d .. d /\ j[1] = op <=> j = k
    BY <1>1, <1>2
<1>4. \A j \in DOMAIN daily : j[1] = op /\ j[2] \in SignalFilter(s) /\ j[3] \in d .. d => j = k
    BY <1>3
<1>5. {r \in UsageDaily(s, d, d) : r.op = op} = IF daily[k] = Unset THEN {} ELSE {row}
  <2>1. ASSUME NEW r \in UsageDaily(s, d, d), r.op = op PROVE daily[k] # Unset /\ r = row
    <3>1. PICK j \in DOMAIN daily : /\ daily[j] # Unset /\ j[2] \in SignalFilter(s) /\ j[3] \in d .. d
                                    /\ r = [op |-> j[1], signal |-> j[2], day |-> j[3], bytes |-> daily[j]]
        BY DEF UsageDaily
    <3>2. j[1] = op
        BY <2>1, <3>1
    <3>3. j = k
        BY <1>4, <3>1, <3>2
    <3> QED BY <3>1, <3>3
  <2>2. ASSUME daily[k] # Unset PROVE row \in UsageDaily(s, d, d) /\ row.op = op
    <3>1. k \in DOMAIN daily /\ k[2] \in SignalFilter(s) /\ k[3] \in d .. d
        BY <1>1, <1>2
    <3> QED BY <2>2, <3>1 DEF UsageDaily
  <2> QED BY <2>1, <2>2
<1>6. k \in Ops \X Signals \X Days
    OBVIOUS
<1>7. /\ daily[k] = (IF OfDay(events, k) = {} THEN Unset ELSE BytesOf(OfDay(events, k)))
      /\ BytesOf(OfDay(events, k)) \in Nat
    BY <1>6, RowIs
<1>8. daily[k] = Unset <=> OfDay(events, k) = {}
    BY <1>7, UsageAssumption
<1> QED BY <1>5, <1>7, <1>8

\* The daily rows and the reports over the window of a day say the same.
LEMMA DaysAgree ==
    ASSUME PlaceTypes, BooksInv, NEW s \in Signals, NEW d \in Days
    PROVE  /\ {[bytes |-> r.bytes \div DayLen] : r \in {r \in UsageDaily(s, d, d) : r.op = "ingest"}}
                = {[bytes |-> r.bytes] : r \in IngestRate(s, d * DayLen, d * DayLen + DayLen)}
           /\ {r.bytes : r \in {r \in UsageDaily(s, d, d) : r.op = "query"}}
                = {r.bytes : r \in QueryUsage(s, d * DayLen, d * DayLen + DayLen)}
<1> DEFINE start == d * DayLen
           end == d * DayLen + DayLen
           I == OfDay(events, <<"ingest", s, d>>)
           Q == OfDay(events, <<"query", s, d>>)
<1>1. d \in Nat /\ "ingest" \in Ops /\ "query" \in Ops /\ SignalFilter(s) = {s}
    BY UsageAssumption DEF Days, Ops, SignalFilter
<1>2. Window("ingest", s, start, end) = I /\ Window("query", s, start, end) = Q
    BY <1>1, WindowIsDay
<1>3. end - start = DayLen
    BY <1>1, CalendarOK
<1>4. Max({end - start, 1}) = DayLen
  <2>1. Max({DayLen, 1}) = DayLen
      BY CalendarOK, MaxOfTwo
  <2> QED BY <1>3, <2>1, Zenon
<1> HIDE DEF start, end
<1>5. \E n : IngestRate(s, start, end)
        = IF I = {} THEN {} ELSE {[signal |-> s, records |-> n, bytes |-> BytesOf(I) \div DayLen]}
  <2> DEFINE secs == Max({end - start, 1})
             n == Cardinality(I) \div DayLen
             win(x) == Window("ingest", x, start, end)
  <2>1. IngestRate(s, start, end)
          = {[signal |-> x, records |-> Cardinality(win(x)) \div secs, bytes |-> BytesOf(win(x)) \div secs]
                : x \in {x \in SignalFilter(s) : win(x) # {}}}
      BY DEF IngestRate
  <2>2. secs = DayLen /\ win(s) = I
      BY <1>2, <1>4
  <2> HIDE DEF secs, win
  <2>3. IngestRate(s, start, end)
          = IF win(s) = {} THEN {}
            ELSE {[signal |-> s, records |-> Cardinality(win(s)) \div secs, bytes |-> BytesOf(win(s)) \div secs]}
      BY <1>1, <2>1
  <2> QED BY <2>2, <2>3, Zenon
<1>6. \E n : QueryUsage(s, start, end) = IF Q = {} THEN {} ELSE {[signal |-> s, bytes |-> BytesOf(Q), queries |-> n]}
  <2> DEFINE win(x) == Window("query", x, start, end)
  <2>1. QueryUsage(s, start, end)
          = {[signal |-> x, bytes |-> BytesOf(win(x)), queries |-> Cardinality(win(x))]
                : x \in {x \in SignalFilter(s) : win(x) # {}}}
      BY DEF QueryUsage
  <2>2. win(s) = Q
      BY <1>2
  <2> HIDE DEF win
  <2>3. QueryUsage(s, start, end)
          = IF win(s) = {} THEN {} ELSE {[signal |-> s, bytes |-> BytesOf(win(s)), queries |-> Cardinality(win(s))]}
      BY <1>1, <2>1
  <2> QED BY <2>2, <2>3, Zenon
<1>7. {r \in UsageDaily(s, d, d) : r.op = "ingest"}
        = IF I = {} THEN {} ELSE {[op |-> "ingest", signal |-> s, day |-> d, bytes |-> BytesOf(I)]}
    BY <1>1, RowsOfDay
<1>8. {r \in UsageDaily(s, d, d) : r.op = "query"}
        = IF Q = {} THEN {} ELSE {[op |-> "query", signal |-> s, day |-> d, bytes |-> BytesOf(Q)]}
    BY <1>1, RowsOfDay
<1> HIDE DEF I, Q
<1>9. {[bytes |-> r.bytes \div DayLen] : r \in {r \in UsageDaily(s, d, d) : r.op = "ingest"}}
        = {[bytes |-> r.bytes] : r \in IngestRate(s, start, end)}
  <2>1. PICK n : IngestRate(s, start, end)
          = IF I = {} THEN {} ELSE {[signal |-> s, records |-> n, bytes |-> BytesOf(I) \div DayLen]}
      BY <1>5
  <2>2. PICK b : b = BytesOf(I) \div DayLen
      OBVIOUS
  <2>3. CASE I = {}
      BY <1>7, <2>1, <2>3
  <2>4. CASE I # {}
    <3> DEFINE row == [op |-> "ingest", signal |-> s, day |-> d, bytes |-> BytesOf(I)]
               rate == [signal |-> s, records |-> n, bytes |-> b]
    <3>1. {r \in UsageDaily(s, d, d) : r.op = "ingest"} = {row} /\ IngestRate(s, start, end) = {rate}
        BY <1>7, <2>1, <2>2, <2>4
    <3>2. row.bytes \div DayLen = b /\ rate.bytes = b
        BY <2>2
    <3> HIDE DEF row, rate
    <3> QED BY <3>1, <3>2
  <2> QED BY <2>3, <2>4
<1>10. {r.bytes : r \in {r \in UsageDaily(s, d, d) : r.op = "query"}} = {r.bytes : r \in QueryUsage(s, start, end)}
  <2>1. PICK n : QueryUsage(s, start, end) = IF Q = {} THEN {} ELSE {[signal |-> s, bytes |-> BytesOf(Q), queries |-> n]}
      BY <1>6
  <2>2. CASE Q = {}
      BY <1>8, <2>1, <2>2
  <2>3. CASE Q # {}
    <3> DEFINE row == [op |-> "query", signal |-> s, day |-> d, bytes |-> BytesOf(Q)]
               use == [signal |-> s, bytes |-> BytesOf(Q), queries |-> n]
    <3>1. {r \in UsageDaily(s, d, d) : r.op = "query"} = {row} /\ QueryUsage(s, start, end) = {use}
        BY <1>8, <2>1, <2>3
    <3>2. row.bytes = use.bytes
        OBVIOUS
    <3> HIDE DEF row, use
    <3> QED BY <3>1, <3>2
  <2> QED BY <2>2, <2>3
<1> QED BY <1>9, <1>10 DEF start, end

\* The row of a month is the sum of the rows of its days.
LEMMA MonthAgrees ==
    ASSUME ClockInv, PlaceTypes, NumbersInv, BooksInv, NEW op \in Ops, NEW s \in Signals, NEW m \in Months
    PROVE  monthly[<<op, s, m>>] =
              LET days == {d \in Days : MonthOf(d * DayLen) = m}
              IN  SumFunctionOnSet([d \in days |-> Number(daily[<<op, s, d>>])], days)
<1> DEFINE days == {d \in Days : MonthOf(d * DayLen) = m}
           g == [d \in days |-> Number(daily[<<op, s, d>>])]
           S == {e \in events : e.s.op = op /\ e.s.signal = s}
           f == [e \in S |-> e.s.bytes]
           k == [e \in S |-> DayOf(e.s.at)]
           P == [d \in days |-> OfDay(events, <<op, s, d>>)]
           U == OfMonth(events, <<op, s, m>>)
<1>1. IsFiniteSet(S) /\ S \subseteq Events /\ \A e \in S : f[e] \in Int
    BY FS_Subset DEF PlaceTypes, Events, Samples
<1>2. IsFiniteSet(days)
  <2>1. IsFiniteSet(Days)
    <3>1. MaxTime \div DayLen \in Nat
        BY CalendarOK, DivIs
    <3> QED BY <3>1, FS_Interval DEF Days
  <2> QED BY <2>1, FS_Subset
<1>3. ASSUME NEW T \in SUBSET S PROVE BytesOf(T) = SumFunctionOnSet(f, T)
  <2>1. IsFiniteSet(T)
      BY <1>1, FS_Subset
  <2>2. \A x \in T : [u \in T |-> u.s.bytes][x] = f[x]
      OBVIOUS
  <2>3. \A x \in T : f[x] \in Int
      BY <1>1
  <2> HIDE DEF f
  <2> QED BY <2>1, <2>2, <2>3, SumSame DEF BytesOf
<1>4. ASSUME NEW d \in days
      PROVE  /\ P[d] \in SUBSET S /\ g[d] = SumFunctionOnSet(f, P[d])
             /\ \A x \in S : x \in P[d] <=> k[x] = d
  <2>1. P[d] = OfDay(events, <<op, s, d>>)
      OBVIOUS
  <2>2. P[d] \in SUBSET S /\ \A x \in S : x \in P[d] <=> k[x] = d
      BY <2>1 DEF OfDay, DayKey
  <2>3. g[d] = BytesOf(OfDay(events, <<op, s, d>>))
    <3>1. <<op, s, d>> \in Ops \X Signals \X Days
        OBVIOUS
    <3> QED BY <3>1, RowIs
  <2> HIDE DEF f, g, k, S, P
  <2>4. BytesOf(P[d]) = SumFunctionOnSet(f, P[d])
      BY <1>3, <2>2
  <2> QED BY <2>1, <2>2, <2>3, <2>4
<1>5. U \in SUBSET S /\ \A x \in S : x \in U <=> k[x] \in days
  <2>1. ASSUME NEW e \in S PROVE k[e] \in days <=> MonthOf(e.s.at) = m
    <3>1. e.s \in Everything
        BY DEF Everything, Booked
    <3>2. e.s.at \in Nat /\ DayOf(e.s.at) \in Days
        BY <3>1, DayOK
    <3>3. MonthOf(DayOf(e.s.at) * DayLen) = MonthOf(e.s.at)
        BY <3>2, CalendarOK, DayInMonth DEF MonthOf, DayOf
    <3> QED BY <3>2, <3>3
  <2>2. ASSUME NEW e \in S PROVE e \in U <=> MonthOf(e.s.at) = m
      BY DEF OfMonth, MonthKey
  <2>3. U \in SUBSET S
      BY DEF OfMonth, MonthKey
  <2> QED BY <2>1, <2>2, <2>3
<1>6. SumFunctionOnSet(f, U) = SumFunctionOnSet(g, days)
  <2>1. \A d \in days : P[d] \in SUBSET S /\ \A x \in S : x \in P[d] <=> k[x] = d
      BY <1>4
  <2>2. \A d \in days : g[d] = SumFunctionOnSet(f, P[d])
      BY <1>4
  <2>3. IsFiniteSet(S) /\ \A x \in S : f[x] \in Int
      BY <1>1
  <2> HIDE DEF f, g, k, S, P, U, days
  <2> QED BY <1>2, <1>5, <2>1, <2>2, <2>3, SumByGroup
<1>7. monthly[<<op, s, m>>] = BytesOf(U)
  <2>1. <<op, s, m>> \in Ops \X Signals \X Months
      OBVIOUS
  <2> QED BY <2>1 DEF BooksInv
<1>8. monthly[<<op, s, m>>] = SumFunctionOnSet(g, days)
  <2> HIDE DEF f, g, k, S, days, U
  <2> QED BY <1>3, <1>5, <1>6, <1>7
<1> QED BY <1>8

\* No sample is unaccounted for, none is booked twice unless a commit that
\* took effect was reported as failed, the retry buffer keeps its limit, and
\* the reports over events, days and months agree: for every size of channel,
\* batch and buffer, every number of retries, and every length of day and month.
THEOREM UsageAccountedHolds == Spec => []UsageAccounted
<1>1. ASSUME UsageIInv PROVE UsageAccounted
  <2>1. ClockInv /\ PlaceTypes /\ NumbersInv /\ PlacesInv /\ BufferInv /\ BooksInv
      BY <1>1 DEF UsageIInv
  <2>2. IsFiniteSet(Everything) /\ Cardinality(Everything) = count
      BY <2>1, EverythingCounted
  <2>3. ASSUME ~AmbiguousCommits PROVE Cardinality(Known) + Cardinality(events) + Cardinality(gone) = count
    <3>1. /\ Booked \cap (Known \cup gone) = {} /\ Known \cap gone = {}
          /\ \A e, d \in events : e.s = d.s => e = d
        BY <2>1, <2>3 DEF PlacesInv
    <3>2. Cardinality(Booked) = Cardinality(events)
        BY <2>1, <3>1, BytesOfSamples DEF PlaceTypes, Booked
    <3>3. IsFiniteSet(Known) /\ IsFiniteSet(Booked) /\ IsFiniteSet(gone)
        BY <2>2, FS_Subset DEF Everything
    <3>4. PICK a \in Nat, b \in Nat, c \in Nat : a = Cardinality(Known) /\ b = Cardinality(Booked) /\ c = Cardinality(gone)
        BY <3>3, FS_CardinalityType
    <3>5. IsFiniteSet(Known \cup Booked) /\ Cardinality(Known \cup Booked) = a + b
      <4>1. Cardinality(Known \cup Booked) = Cardinality(Known) + Cardinality(Booked) - Cardinality(Known \cap Booked)
            /\ IsFiniteSet(Known \cup Booked)
          BY <3>3, FS_Union
      <4>2. Known \cap Booked = {} /\ Cardinality({}) = 0
          BY <3>1, FS_EmptySet
      <4>3. Cardinality(Known \cap Booked) = 0
          BY <4>2, Zenon
      <4> QED BY <3>4, <4>1, <4>3
    <3>6. Cardinality((Known \cup Booked) \cup gone) = a + b + c
      <4>1. Cardinality((Known \cup Booked) \cup gone)
              = Cardinality(Known \cup Booked) + Cardinality(gone) - Cardinality((Known \cup Booked) \cap gone)
          BY <3>3, <3>5, FS_Union
      <4>2. (Known \cup Booked) \cap gone = {} /\ Cardinality({}) = 0
          BY <3>1, FS_EmptySet
      <4>3. Cardinality((Known \cup Booked) \cap gone) = 0
          BY <4>2, Zenon
      <4> QED BY <3>4, <3>5, <4>1, <4>3
    <3>7. a + b + c = count
        BY <2>2, <3>6, Zenon DEF Everything
    <3> QED BY <3>2, <3>4, <3>7, Zenon
  <2>4. ReportsAgree
      BY <2>1, DaysAgree, MonthAgrees DEF ReportsAgree
  <2> QED BY <2>1, <2>2, <2>3, <2>4 DEF UsageAccounted, BufferInv, Everything
<1> QED BY <1>1, UsageInvariant, PTL

-----------------------------------------------------------------------------
(* Storage.                                                                *)

LEMMA SumBytesOne ==
    ASSUME NEW f, f.bytes \in Nat
    PROVE  SumBytes({f}) = f.bytes
<1> DEFINE g == [x \in {f} |-> x.bytes]
<1>1. SumBytes({f}) = SumFunctionOnSet(g, {f})
    BY DEF SumBytes
<1>2. g[f] = f.bytes /\ \A x \in {f} : g[x] \in Int
    OBVIOUS
<1> HIDE DEF g
<1>3. {f} \ {f} = {} /\ IsFiniteSet({f})
    BY FS_Singleton
<1>4. SumFunctionOnSet(g, {f}) = g[f] + SumFunctionOnSet(g, {f} \ {f})
    BY <1>2, <1>3, SumStep
<1>5. SumFunctionOnSet(g, {f} \ {f}) = 0
    BY <1>3, SumEmpty
<1> QED BY <1>1, <1>2, <1>4, <1>5

\* The bytes on disk add up file by file.
LEMMA OnDiskUnion ==
    ASSUME NEW fs \in SUBSET Rows, IsFiniteSet(fs), NEW gs \in SUBSET Rows, IsFiniteSet(gs), fs \cap gs = {}, NEW x
    PROVE  /\ OnDisk(fs \cup gs, x) = OnDisk(fs, x) + OnDisk(gs, x)
           /\ OnDisk(fs, x) \in Nat /\ OnDisk(gs, x) \in Nat
<1> DEFINE S == fs \cup gs
           F == {f \in fs : f.signal = x}
           G == {f \in gs : f.signal = x}
<1>1. IsFiniteSet(S) /\ \A f \in S : f.bytes \in Nat
    BY FS_Union DEF Rows
<1>2. F \in SUBSET S /\ G \in SUBSET S /\ F \cap G = {} /\ {f \in S : f.signal = x} = F \cup G
    OBVIOUS
<1>3. IsFiniteSet(F) /\ IsFiniteSet(G)
    BY FS_Subset
<1>4. OnDisk(S, x) = SumBytes(F \cup G) /\ OnDisk(fs, x) = SumBytes(F) /\ OnDisk(gs, x) = SumBytes(G)
    BY <1>2, Zenon DEF OnDisk
<1> HIDE DEF S, F, G
<1>5. SumBytes(F \cup G) = SumBytes(F) + SumBytes(G)
  <2>1. \A T, R \in SUBSET S : T \cap R = {} => SumBytes(T \cup R) = SumBytes(T) + SumBytes(R)
      BY <1>1, SumBytesOf
  <2> QED BY <1>2, <2>1, Zenon
<1>6. SumBytes(F) \in Nat /\ SumBytes(G) \in Nat
    BY <1>1, <1>2, <1>3, SumBytesOf
<1> QED BY <1>4, <1>5, <1>6 DEF S

LEMMA OnDiskOne ==
    ASSUME NEW f \in Rows, NEW x
    PROVE  OnDisk({f}, x) = IF f.signal = x THEN f.bytes ELSE 0
<1>1. CASE f.signal = x
  <2>1. {g \in {f} : g.signal = x} = {f} /\ f.bytes \in Nat
      BY <1>1 DEF Rows
  <2>2. OnDisk({f}, x) = SumBytes({f})
      BY <2>1, Zenon DEF OnDisk
  <2> QED BY <1>1, <2>1, <2>2, SumBytesOne
<1>2. CASE f.signal # x
  <2>1. {g \in {f} : g.signal = x} = {}
      BY <1>2
  <2>2. OnDisk({f}, x) = SumBytes({})
      BY <2>1, Zenon DEF OnDisk
  <2> QED BY <1>2, <2>2, SumBytesNone
<1> QED BY <1>1, <1>2

LEMMA OnDiskAdd ==
    ASSUME NEW fs \in SUBSET Rows, IsFiniteSet(fs), NEW f \in Rows, f \notin fs, NEW x
    PROVE  /\ OnDisk(fs \cup {f}, x) = OnDisk(fs, x) + (IF f.signal = x THEN f.bytes ELSE 0)
           /\ OnDisk(fs, x) \in Nat /\ IsFiniteSet(fs \cup {f}) /\ fs \cup {f} \in SUBSET Rows
<1>0. IsFiniteSet({f}) /\ IsFiniteSet(fs \cup {f})
    BY FS_Singleton, FS_AddElement, Zenon
<1>1. IsFiniteSet({f}) /\ {f} \in SUBSET Rows /\ fs \cap {f} = {} /\ IsFiniteSet(fs \cup {f})
    BY <1>0
<1>2. /\ OnDisk(fs \cup {f}, x) = OnDisk(fs, x) + OnDisk({f}, x)
      /\ OnDisk(fs, x) \in Nat
    BY <1>1, OnDiskUnion, ZenonT(40)
<1> QED BY <1>1, <1>2, OnDiskOne

\* A mark leaves the row.
LEMMA OnDiskMarked ==
    ASSUME FilesInv, NEW m, NEW x
    PROVE  OnDisk({Mark(m, f) : f \in files}, x) = OnDisk(files, x)
<1> DEFINE M == {Mark(m, f) : f \in files}
           S == {f \in files : f.signal = x}
           h == [f \in S |-> Mark(m, f)]
           T == {h[f] : f \in S}
           f0 == [f \in S |-> f.bytes]
           g0 == [f \in T |-> f.bytes]
<1>1. \A f \in files : /\ f \in Rows /\ Mark(m, f).id = f.id /\ Mark(m, f).signal = f.signal /\ Mark(m, f).bytes = f.bytes
    BY MarkOK DEF FilesInv
<1>2. {f \in M : f.signal = x} = T
  <2>1. \A f \in S : h[f] = Mark(m, f)
      OBVIOUS
  <2>2. T = {Mark(m, f) : f \in S}
      BY <2>1
  <2>3. ASSUME NEW y \in M, y.signal = x PROVE y \in {Mark(m, f) : f \in S}
    <3>1. PICK f \in files : y = Mark(m, f)
        OBVIOUS
    <3>2. f \in S
        BY <1>1, <2>3, <3>1
    <3> QED BY <3>1, <3>2
  <2>4. ASSUME NEW f \in S PROVE Mark(m, f) \in M /\ Mark(m, f).signal = x
      BY <1>1
  <2> HIDE DEF T, S, M
  <2> QED BY <2>2, <2>3, <2>4
<1>3. IsFiniteSet(S)
    BY FS_Subset DEF FilesInv
<1>4. \A f \in S : f0[f] \in Int /\ g0[h[f]] = f0[f]
    BY <1>1 DEF Rows
<1>5. \A f, g \in S : h[f] = h[g] => f = g
    BY <1>1 DEF FilesInv
<1>6. SumFunctionOnSet(g0, {h[f] : f \in S}) = SumFunctionOnSet(f0, S)
  <2> HIDE DEF h, f0, g0, S, T
  <2> QED BY <1>3, <1>4, <1>5, SumRenamed
<1>7. SumBytes(T) = SumFunctionOnSet(g0, T) /\ SumBytes(S) = SumFunctionOnSet(f0, S)
    BY DEF SumBytes
<1>8. OnDisk(M, x) = SumBytes(T) /\ OnDisk(files, x) = SumBytes(S)
    BY <1>2, Zenon DEF OnDisk
<1> HIDE DEF h, f0, g0, S
<1> QED BY <1>6, <1>7, <1>8

\* A compaction adds the file it writes.
LEMMA OnDiskCompacted ==
    ASSUME ClockInv, FilesInv, NEW f \in files, NEW g \in files, Compact(f, g), NEW x
    PROVE  OnDisk(files', x) = OnDisk(files, x) + (IF f.signal = x THEN f.bytes + g.bytes ELSE 0)
<1> DEFINE a == [f EXCEPT !.state = "merged"]
           b == [g EXCEPT !.state = "merged"]
           m == Merge(f, g)
           rest == files \ {f, g}
           N(r) == IF r.signal = x THEN r.bytes ELSE 0
<1>1. files' = (files \ {f, g}) \cup {a, b, m} /\ f # g /\ count \in Nat
    BY DEF Compact, Merge, ClockInv
<1>2. /\ f \in Rows /\ g \in Rows /\ files \subseteq Rows
      /\ \A r \in files : r.id \in 1 .. count
      /\ \A r, t \in files : r.id = t.id => r = t
    BY DEF FilesInv
<1>3. /\ m \in Rows /\ m.id = count + 1 /\ m.signal = f.signal /\ m.bytes = f.bytes + g.bytes
      /\ a \in Rows /\ a.id = f.id /\ a.signal = f.signal /\ a.bytes = f.bytes
      /\ b \in Rows /\ b.id = g.id /\ b.signal = g.signal /\ b.bytes = g.bytes
    BY <1>2, MergeOK
<1> HIDE DEF a, b, m
<1>4. rest \in SUBSET Rows /\ IsFiniteSet(rest) /\ f \notin rest /\ g \notin rest
    BY <1>2, FS_Subset DEF FilesInv
<1>5. /\ a \notin rest /\ b \notin rest \cup {a} /\ m \notin (rest \cup {a}) \cup {b} /\ g \notin rest \cup {f}
    BY <1>1, <1>2, <1>3
<1>6. files = (rest \cup {f}) \cup {g} /\ files' = ((rest \cup {a}) \cup {b}) \cup {m}
    BY <1>1
<1> HIDE DEF rest
<1>n. \A r \in Rows : N(r) \in Nat
    BY DEF Rows
<1> DEFINE r1 == rest \cup {f}
           s1 == rest \cup {a}
           s2 == s1 \cup {b}
<1>7. /\ OnDisk(r1, x) = OnDisk(rest, x) + N(f) /\ OnDisk(rest, x) \in Nat /\ IsFiniteSet(r1) /\ r1 \in SUBSET Rows
    BY <1>2, <1>4, OnDiskAdd
<1>8. /\ OnDisk(s1, x) = OnDisk(rest, x) + N(a) /\ IsFiniteSet(s1) /\ s1 \in SUBSET Rows
    BY <1>3, <1>4, <1>5, OnDiskAdd
<1> HIDE DEF r1, s1, s2, rest
<1>9. OnDisk(r1 \cup {g}, x) = OnDisk(r1, x) + N(g)
    BY <1>2, <1>5, <1>7, OnDiskAdd DEF r1
<1>10. /\ OnDisk(s2, x) = OnDisk(s1, x) + N(b) /\ IsFiniteSet(s2) /\ s2 \in SUBSET Rows
    BY <1>3, <1>5, <1>8, OnDiskAdd DEF s1, s2
<1>11. OnDisk(s2 \cup {m}, x) = OnDisk(s2, x) + N(m)
    BY <1>3, <1>5, <1>10, OnDiskAdd DEF s1, s2
<1>12. files = r1 \cup {g} /\ files' = s2 \cup {m}
    BY <1>6 DEF r1, s1, s2
<1>13. N(a) = N(f) /\ N(b) = N(g) /\ N(m) = (IF f.signal = x THEN f.bytes + g.bytes ELSE 0)
    BY <1>3
<1>14. PICK nf \in Nat, ng \in Nat, nm \in Nat : nf = N(f) /\ ng = N(g) /\ nm = N(m)
    BY <1>2, <1>3, <1>n
<1>15. N(a) = nf /\ N(b) = ng /\ nm = (IF f.signal = x THEN f.bytes + g.bytes ELSE 0)
    BY <1>13, <1>14, Zenon
<1> HIDE DEF N
<1>16. OnDisk(files, x) = (OnDisk(rest, x) + nf) + ng
    BY <1>7, <1>9, <1>12, <1>14, Zenon
<1>17. OnDisk(files', x) = ((OnDisk(rest, x) + nf) + ng) + nm
    BY <1>8, <1>10, <1>11, <1>12, <1>14, <1>15, Zenon
<1> QED BY <1>15, <1>16, <1>17, Zenon

\* The bytes ingested on a day, with one more sample.
LEMMA IngestedAdd ==
    ASSUME NEW us \in SUBSET Samples, IsFiniteSet(us), NEW u \in Samples, u \notin us, NEW x, NEW d
    PROVE  /\ SumBytes(Ingested(us \cup {u}, x, d))
                = SumBytes(Ingested(us, x, d))
                    + (IF u.op = "ingest" /\ u.signal = x /\ DayOf(u.at) = d THEN u.bytes ELSE 0)
           /\ SumBytes(Ingested(us, x, d)) \in Nat
<1> DEFINE I == Ingested(us, x, d)
           J == Ingested(us \cup {u}, x, d)
<1>1. IsFiniteSet(us \cup {u}) /\ \A v \in us \cup {u} : v.bytes \in Nat
    BY FS_AddElement DEF Samples
<1>2. I \in SUBSET (us \cup {u}) /\ {u} \in SUBSET (us \cup {u}) /\ I \cap {u} = {} /\ I \in SUBSET us
    BY DEF Ingested
<1>3. SumBytes(I) \in Nat
  <2>1. IsFiniteSet(I) /\ \A v \in I : v.bytes \in Nat
      BY <1>1, <1>2, FS_Subset
  <2> HIDE DEF I
  <2> QED BY <2>1, SumBytesOf
<1>4. CASE u.op = "ingest" /\ u.signal = x /\ DayOf(u.at) = d
  <2>1. J = I \cup {u}
      BY <1>4 DEF Ingested
  <2> HIDE DEF I, J
  <2>2. SumBytes(I \cup {u}) = SumBytes(I) + SumBytes({u})
      BY <1>1, <1>2, SumBytesOf
  <2>3. SumBytes({u}) = u.bytes
      BY SumBytesOne DEF Samples
  <2>4. SumBytes(J) = SumBytes(I) + u.bytes
      BY <2>1, <2>2, <2>3, Zenon
  <2> QED BY <1>3, <1>4, <2>4 DEF I, J
<1>5. CASE ~(u.op = "ingest" /\ u.signal = x /\ DayOf(u.at) = d)
  <2>1. J = I
      BY <1>5 DEF Ingested
  <2>2. SumBytes(J) = SumBytes(I) + 0
      BY <1>3, <2>1
  <2> QED BY <1>3, <1>5, <2>2, Zenon
<1> QED BY <1>4, <1>5

\* Today is one of the days there are, and a tick stays in it or comes to the next.
LEMMA DayIn ==
    ASSUME NEW a \in Nat, a <= MaxTime
    PROVE  DayOf(a) \in Days /\ DayOf(a) \in Nat
<1>1. a \div DayLen <= MaxTime \div DayLen /\ a \div DayLen \in Nat /\ MaxTime \div DayLen \in Nat
    BY CalendarOK, DivMonotone, DivIs
<1> QED BY <1>1 DEF DayOf, Days

LEMMA TodayOK ==
    ASSUME ClockInv
    PROVE  Today \in Days /\ Today \in Nat
<1>1. now \in Nat /\ now <= MaxTime
    BY UsageAssumption DEF ClockInv
<1> QED BY <1>1, DayIn DEF Today

LEMMA DayBefore ==
    ASSUME NEW d \in Days
    PROVE  d # 0 => d - 1 \in Days /\ d - 1 # d
<1>1. PICK n \in Nat : n = MaxTime \div DayLen
    BY CalendarOK, DivIs
<1> QED BY <1>1 DEF Days

LEMMA NextDay ==
    ASSUME NEW a \in Nat
    PROVE  DayOf(a + 1) \in {DayOf(a), DayOf(a) + 1}
<1>1. PICK p \in Nat : p = a \div DayLen /\ p * DayLen <= a /\ a < p * DayLen + DayLen
    BY CalendarOK, DivIs
<1>2. CASE a + 1 < p * DayLen + DayLen
  <2>1. p * DayLen <= a + 1 /\ a + 1 \in Nat
      BY <1>1, CalendarOK
  <2>2. (a + 1) \div DayLen = p
      BY <1>2, <2>1, CalendarOK, DivUnique
  <2> QED BY <1>1, <2>2 DEF DayOf
<1>3. CASE ~(a + 1 < p * DayLen + DayLen)
  <2>1. (p + 1) * DayLen = p * DayLen + DayLen
      BY CalendarOK
  <2>2. (p + 1) * DayLen <= a + 1 /\ a + 1 < (p + 1) * DayLen + DayLen /\ a + 1 \in Nat /\ p + 1 \in Nat
    <3>1. p * DayLen \in Nat
        BY CalendarOK
    <3> QED BY <1>1, <1>3, <2>1, <3>1, CalendarOK
  <2>3. (a + 1) \div DayLen = p + 1
      BY <2>2, CalendarOK, DivUnique
  <2> QED BY <1>1, <2>3 DEF DayOf
<1> QED BY <1>2, <1>3

\* The storage equation of one signal.
Balance(x) == OnDisk(files, x) + cleaned[<<x, Today>>] = StoredBefore(x) + SumBytes(Ingested(Everything, x, Today))

\* The numbers in it.
LEMMA BalanceTypes ==
    ASSUME StorageIInv, NEW x \in Signals
    PROVE  /\ OnDisk(files, x) \in Nat /\ cleaned[<<x, Today>>] \in Nat /\ StoredBefore(x) \in Nat
           /\ SumBytes(Ingested(Everything, x, Today)) \in Nat
           /\ <<x, Today>> \notin misbooked => Balance(x)
<1>1. ClockInv /\ PlaceTypes /\ NumbersInv /\ FilesInv /\ StorageInv
    BY DEF StorageIInv, UsageIInv
<1>2. Today \in Days /\ Today \in Nat
    BY <1>1, TodayOK
<1>3. OnDisk(files, x) \in Nat
  <2>1. IsFiniteSet({f \in files : f.signal = x}) /\ \A f \in {f \in files : f.signal = x} : f.bytes \in Nat
      BY <1>1, FS_Subset DEF FilesInv, Rows
  <2> QED BY <2>1, SumBytesOf DEF OnDisk
<1>4. cleaned[<<x, Today>>] \in Nat
    BY <1>1, <1>2 DEF StorageInv
<1>5. StoredBefore(x) \in Nat
  <2>1. Today # 0 => Today - 1 \in Days
      BY <1>2, DayBefore
  <2> QED BY <1>1, <1>2, <2>1 DEF StorageInv, StoredBefore
<1>6. SumBytes(Ingested(Everything, x, Today)) \in Nat
  <2>1. Ingested(Everything, x, Today) \subseteq Everything
      BY DEF Ingested
  <2>2. IsFiniteSet(Ingested(Everything, x, Today))
      BY <1>1, <2>1, EverythingCounted, FS_Subset
  <2>3. \A u \in Ingested(Everything, x, Today) : u.bytes \in Nat
      BY <1>1, <2>1, EverythingOK DEF Samples
  <2> QED BY <2>2, <2>3, SumBytesOf
<1> QED BY <1>1, <1>3, <1>4, <1>5, <1>6 DEF StorageInv, Balance

\* A file that is written weighs as much as its sample.
LEMMA WrittenStep ==
    ASSUME StorageIInv, NEW s \in Signals, NEW b \in Nat, Adds(Sample("ingest", s, b)),
           \A x \in Signals : OnDisk(files', x) = OnDisk(files, x) + (IF s = x THEN b ELSE 0),
           UNCHANGED <<now, cleaned, stored, misbooked>>
    PROVE  StorageInv'
<1>1. ClockInv /\ PlaceTypes /\ NumbersInv /\ StorageInv /\ Today' = Today
    BY DEF StorageIInv, UsageIInv, Today
<1> DEFINE u == Sample("ingest", s, b)
<1>2. u \in Samples /\ u.op = "ingest" /\ u.signal = s /\ u.bytes = b /\ u.at = now
    BY <1>1, SampleOK DEF Ops
<1>3. u \notin Everything /\ Everything' = Everything \cup {u}
    BY DEF Adds
<1>4. Everything \in SUBSET Samples /\ IsFiniteSet(Everything)
    BY <1>1, EverythingOK, EverythingCounted
<1>5. DayOf(u.at) = Today
    BY <1>2 DEF Today
<1> HIDE DEF u
<1>6. ASSUME NEW x \in Signals, <<x, Today>> \notin misbooked PROVE Balance(x)'
  <2>1. SumBytes(Ingested(Everything \cup {u}, x, Today))
          = SumBytes(Ingested(Everything, x, Today)) + (IF s = x THEN b ELSE 0)
    <3>1. SumBytes(Ingested(Everything \cup {u}, x, Today))
            = SumBytes(Ingested(Everything, x, Today))
               + (IF u.op = "ingest" /\ u.signal = x /\ DayOf(u.at) = Today THEN u.bytes ELSE 0)
        BY <1>2, <1>3, <1>4, IngestedAdd
    <3> QED BY <1>2, <1>5, <3>1
  <2>2. PICK p \in Nat, q \in Nat, r \in Nat, t \in Nat :
            /\ p = OnDisk(files, x) /\ q = cleaned[<<x, Today>>] /\ r = StoredBefore(x)
            /\ t = SumBytes(Ingested(Everything, x, Today)) /\ p + q = r + t
      BY <1>6, BalanceTypes DEF Balance
  <2>3. PICK n \in Nat : n = IF s = x THEN b ELSE 0
      OBVIOUS
  <2>4. (p + n) + q = r + (t + n)
      BY <2>2
  <2>5. OnDisk(files', x) = p + n /\ SumBytes(Ingested(Everything', x, Today')) = t + n
      BY <1>1, <1>3, <2>1, <2>2, <2>3, Zenon
  <2>6. cleaned'[<<x, Today'>>] = q /\ StoredBefore(x)' = r
      BY <1>1, <2>2 DEF StoredBefore
  <2>7. Balance(x)' <=> OnDisk(files', x) + cleaned'[<<x, Today'>>] = StoredBefore(x)' + SumBytes(Ingested(Everything', x, Today'))
      BY DEF Balance
  <2> QED BY <2>4, <2>5, <2>6, <2>7, Zenon
<1> QED BY <1>1, <1>6 DEF StorageInv, Balance

\* Steps that change neither the files, nor what was ingested, nor the books.
LEMMA StorageKeeps ==
    ASSUME StorageIInv, UNCHANGED <<now, cleaned, stored, misbooked>>,
           \A x \in Signals : OnDisk(files', x) = OnDisk(files, x),
           \A x \in Signals : SumBytes(Ingested(Everything', x, Today)) = SumBytes(Ingested(Everything, x, Today))
    PROVE  StorageInv'
<1>1. StorageInv /\ Today' = Today
    BY DEF StorageIInv, Today
<1>2. ASSUME NEW x \in Signals, <<x, Today>> \notin misbooked PROVE Balance(x)'
  <2>1. StoredBefore(x)' = StoredBefore(x) /\ cleaned'[<<x, Today'>>] = cleaned[<<x, Today>>]
      BY <1>1 DEF StoredBefore
  <2>2. SumBytes(Ingested(Everything', x, Today')) = SumBytes(Ingested(Everything, x, Today))
      BY <1>1
  <2>3. OnDisk(files, x) + cleaned[<<x, Today>>] = StoredBefore(x) + SumBytes(Ingested(Everything, x, Today))
      BY <1>2, BalanceTypes DEF Balance
  <2>4. Balance(x)' <=> OnDisk(files', x) + cleaned'[<<x, Today'>>] = StoredBefore(x)' + SumBytes(Ingested(Everything', x, Today'))
      BY DEF Balance
  <2> QED BY <2>1, <2>2, <2>3, <2>4, Zenon
<1> QED BY <1>1, <1>2 DEF StorageInv, Balance

\* A run of the reclaimer lists files there are; the day it books them for is
\* not in the future.
LEMMA SweepsStep ==
    ASSUME ClockInv, FilesInv, SweepsInv, UsageStep
    PROVE  SweepsInv'
<1> USE DEF SweepsInv
<1>1. Today \in Nat /\ Today' \in Nat /\ Today <= Today'
  <2>1. ClockInv' /\ now' \in {now, now + 1}
      BY ClockStep
  <2>2. Today \in Nat
      BY TodayOK
  <2>3. CASE now' = now
      BY <2>2, <2>3 DEF Today
  <2>4. CASE now' = now + 1
    <3>1. Today' \in {Today, Today + 1}
        BY <2>4, NextDay DEF Today, ClockInv
    <3> QED BY <2>2, <3>1
  <2> QED BY <2>1, <2>3, <2>4
<1>2. ASSUME sweeps' \subseteq sweeps PROVE SweepsInv'
    BY <1>1, <1>2
<1>3. CASE Listing
  <2>1. PICK by : sweeps' = sweeps \cup {[by |-> by, rows |-> Deleted, day |-> Today]}
      BY <1>3 DEF Listing, ListDeleted
  <2>2. Deleted \subseteq files
      BY DEF Deleted
  <2>3. Deleted \subseteq Rows /\ IsFiniteSet(Deleted)
      BY <2>2, FS_Subset DEF FilesInv
  <2> QED BY <1>1, <2>1, <2>3
<1>4. CASE \/ \E s \in Signals, b \in Sizes : WriteFile(s, b) \/ QueryDone(s, b)
           \/ \E f, g \in files : Compact(f, g)
           \/ \E u \in spawned : Record(u)
           \/ Receive \/ Flush \/ Snapshot \/ Tick \/ Marking \/ Sweeping \/ Restart \/ Quiet
  <2>1. sweeps' \subseteq sweeps
      BY <1>4 DEF WriteFile, QueryDone, Compact, Record, Receive, Flush, Snapshot, Tick, Marking, Sweeping, BookAndDelete,
                  Restart, Quiet, storage
  <2> QED BY <1>2, <2>1
<1> QED BY <1>3, <1>4 DEF UsageStep

\* What a run deletes is booked for today, or the signal counts as misbooked.
LEMMA SweptStep ==
    ASSUME StorageIInv, Sweeping
    PROVE  StorageInv'
<1>0. PICK run \in sweeps : \E done \in SUBSET run.rows :
            BookAndDelete(run, done) /\ UNCHANGED <<bound, now, tracker, snapshots, stored>>
    BY DEF Sweeping
<1>1. PICK done \in SUBSET run.rows :
            BookAndDelete(run, done) /\ UNCHANGED <<bound, now, tracker, snapshots, stored>>
    BY <1>0
<1>2. /\ files' = files \ done /\ cleaned' = Cleaned(done, run.day)
      /\ misbooked' = misbooked \cup {<<f.signal, Today>> : f \in {f \in done : run.day # Today \/ f \notin files}}
      /\ UNCHANGED <<now, stored, spawned, channel, worker, events, gone>>
    BY <1>1 DEF BookAndDelete, tracker
<1>3. ClockInv /\ StorageInv /\ FilesInv /\ Today' = Today
    BY <1>2 DEF StorageIInv, UsageIInv, Today
<1>4. Everything' = Everything
    BY <1>2 DEF Everything, Known, Booked
<1>5. Today \in Days /\ Today \in Nat /\ run.day \in 0 .. Today
    BY <1>3, TodayOK DEF StorageIInv, SweepsInv
<1>6. done \in SUBSET Rows /\ IsFiniteSet(done) /\ files \in SUBSET Rows /\ IsFiniteSet(files)
  <2>1. run.rows \subseteq Rows /\ IsFiniteSet(run.rows)
      BY DEF StorageIInv, SweepsInv
  <2> QED BY <1>3, <2>1, FS_Subset DEF FilesInv
<1>7. \A x : OnDisk(done, x) \in Nat
  <2>1. IsFiniteSet({}) /\ {} \in SUBSET Rows /\ done \cap {} = {}
      BY FS_EmptySet
  <2> QED BY <1>6, <2>1, OnDiskUnion
<1>8. cleaned \in [Signals \X Days -> Nat]
    BY <1>3 DEF StorageInv
<1>9. cleaned' \in [Signals \X Days -> Nat]
    BY <1>2, <1>7, <1>8 DEF Cleaned
<1>10. \A x \in Signals :
          /\ cleaned'[<<x, Today>>] = cleaned[<<x, Today>>] + (IF Today = run.day THEN OnDisk(done, x) ELSE 0)
          /\ \A d \in Days : d > Today => cleaned'[<<x, d>>] = cleaned[<<x, d>>] + 0
    BY <1>2, <1>5, <1>8 DEF Cleaned, Days
<1>11. ASSUME NEW x \in Signals, <<x, Today>> \notin misbooked' PROVE Balance(x)'
  <2> DEFINE mine == {f \in done : f.signal = x}
             rest == files \ mine
  <2>1. \A f \in mine : run.day = Today /\ f \in files
      BY <1>2, <1>11
  <2>2. /\ mine \in SUBSET Rows /\ IsFiniteSet(mine) /\ rest \in SUBSET Rows /\ IsFiniteSet(rest)
        /\ rest \cap mine = {} /\ rest \cup mine = files
      BY <1>6, <2>1, FS_Subset
  <2>3. /\ {f \in files' : f.signal = x} = {f \in rest : f.signal = x}
        /\ {f \in done : f.signal = x} = {f \in mine : f.signal = x}
      BY <1>2
  <2>4. OnDisk(files', x) = OnDisk(rest, x) /\ OnDisk(done, x) = OnDisk(mine, x)
      BY <2>3, Zenon DEF OnDisk
  <2>5. mine = {} => OnDisk(mine, x) = 0
    <3>1. ASSUME mine = {} PROVE {f \in mine : f.signal = x} = {}
        BY <3>1
    <3> HIDE DEF mine
    <3> QED BY <3>1, SumBytesNone, Zenon DEF OnDisk
  <2> HIDE DEF mine, rest
  <2>6. /\ OnDisk(rest \cup mine, x) = OnDisk(rest, x) + OnDisk(mine, x)
        /\ OnDisk(rest, x) \in Nat /\ OnDisk(mine, x) \in Nat
      BY <2>2, OnDiskUnion
  <2>7. PICK p \in Nat, q \in Nat, r \in Nat, t \in Nat :
            /\ p = OnDisk(files, x) /\ q = cleaned[<<x, Today>>] /\ r = StoredBefore(x)
            /\ t = SumBytes(Ingested(Everything, x, Today)) /\ p + q = r + t
      BY <1>2, <1>11, BalanceTypes DEF Balance
  <2>8. PICK m \in Nat, n \in Nat : m = OnDisk(rest, x) /\ n = OnDisk(mine, x)
      BY <2>6
  <2>9. p = m + n
      BY <2>2, <2>6, <2>7, <2>8, Zenon
  <2>10. cleaned'[<<x, Today'>>] = q + n
    <3>1. CASE mine = {}
        BY <1>3, <1>10, <2>4, <2>5, <2>7, <2>8, <3>1
    <3>2. CASE mine # {}
        BY <1>3, <1>10, <2>1, <2>4, <2>7, <2>8, <3>2
    <3> QED BY <3>1, <3>2
  <2>11. StoredBefore(x)' = r
      BY <1>2, <1>3, <2>7 DEF StoredBefore
  <2>12. SumBytes(Ingested(Everything', x, Today')) = t
      BY <1>3, <1>4, <2>7
  <2>13. m + (q + n) = r + t
      BY <2>7, <2>9
  <2>14. Balance(x)' <=> OnDisk(files', x) + cleaned'[<<x, Today'>>] = StoredBefore(x)' + SumBytes(Ingested(Everything', x, Today'))
      BY DEF Balance
  <2> QED BY <2>4, <2>8, <2>10, <2>11, <2>12, <2>13, <2>14, Zenon
<1>12. stored' \in [Signals \X Days -> Nat]
    BY <1>2, <1>3 DEF StorageInv
<1>13. \A s \in Signals : \A d \in Days : d > Today => cleaned'[<<s, d>>] = 0
  <2>1. \A s \in Signals : \A d \in Days : d > Today => cleaned[<<s, d>>] = 0
      BY <1>3 DEF StorageInv
  <2>2. 0 + 0 = 0
      OBVIOUS
  <2> QED BY <1>10, <2>1, <2>2
<1> QED BY <1>3, <1>9, <1>11, <1>12, <1>13 DEF StorageInv, Balance

\* At the end of a day its balance is what the next starts from.
LEMMA TickStep ==
    ASSUME StorageIInv, Tick
    PROVE  StorageInv'
<1>1. /\ now' = now + 1 /\ UNCHANGED <<files, cleaned, misbooked, spawned, channel, worker, events, gone>> /\ bound' = bound
      /\ stored' = [k \in Signals \X Days |-> IF k[2] = Today THEN OnDisk(files, k[1]) ELSE stored[k]]
    BY DEF Tick, tracker
<1>2. ClockInv /\ PlaceTypes /\ NumbersInv /\ StorageInv
    BY DEF StorageIInv, UsageIInv
<1>3. Everything' = Everything
    BY <1>1 DEF Everything, Known, Booked
<1>4. Today \in Days /\ Today \in Nat /\ now \in Nat
    BY <1>2, TodayOK DEF ClockInv
<1>5. Today' \in {Today, Today + 1}
    BY <1>1, <1>4, NextDay DEF Today
<1>6. \A x \in Signals : OnDisk(files, x) \in Nat
    BY BalanceTypes
<1>7. stored \in [Signals \X Days -> Nat] /\ cleaned \in [Signals \X Days -> Nat]
    BY <1>2 DEF StorageInv
<1>8. stored' \in [Signals \X Days -> Nat] /\ cleaned' \in [Signals \X Days -> Nat]
    BY <1>1, <1>6, <1>7
<1>9. \A s \in Signals : \A d \in Days : d > Today' => cleaned'[<<s, d>>] = 0
    BY <1>1, <1>2, <1>4, <1>5 DEF StorageInv, Days
<1>10. ASSUME NEW x \in Signals, <<x, Today'>> \notin misbooked PROVE Balance(x)'
  <2>0. Balance(x)' <=> OnDisk(files', x) + cleaned'[<<x, Today'>>] = StoredBefore(x)' + SumBytes(Ingested(Everything', x, Today'))
      BY DEF Balance
  <2>1. CASE Today' = Today
    <3>1. StoredBefore(x)' = StoredBefore(x)
      <4>1. Today # 0 => Today - 1 \in Days /\ Today - 1 # Today
          BY <1>4, DayBefore
      <4> QED BY <1>1, <2>1, <4>1 DEF StoredBefore
    <3>2. OnDisk(files, x) + cleaned[<<x, Today>>] = StoredBefore(x) + SumBytes(Ingested(Everything, x, Today))
        BY <1>10, <2>1, BalanceTypes DEF Balance
    <3> QED BY <1>1, <1>3, <2>0, <2>1, <3>1, <3>2, Zenon
  <2>2. CASE Today' = Today + 1
    <3>0. ClockInv'
        BY <1>2, ClockStep DEF UsageStep
    <3>1. Today + 1 \in Days
      <4>1. now' \in Nat /\ now' <= MaxTime
          BY <3>0, UsageAssumption DEF ClockInv
      <4> QED BY <2>2, <4>1, DayIn DEF Today
    <3>2. cleaned'[<<x, Today'>>] = 0
        BY <1>1, <1>2, <1>4, <2>2, <3>1 DEF StorageInv
    <3>3. StoredBefore(x)' = OnDisk(files, x)
        BY <1>1, <1>4, <2>2 DEF StoredBefore
    <3>4. Ingested(Everything, x, Today + 1) = {}
      <4>1. \A u \in Everything : DayOf(u.at) <= Today /\ DayOf(u.at) \in Days
          BY <1>2, DayOK
      <4> QED BY <1>4, <4>1 DEF Ingested, Days
    <3>5. SumBytes(Ingested(Everything', x, Today')) = 0
        BY <1>3, <2>2, <3>4, SumBytesNone, Zenon
    <3>6. PICK n \in Nat : n = OnDisk(files, x)
        BY <1>6
    <3>7. OnDisk(files', x) = n /\ StoredBefore(x)' = n
        BY <1>1, <3>3, <3>6, Zenon
    <3>8. n + 0 = n + 0
        OBVIOUS
    <3> QED BY <2>0, <3>2, <3>5, <3>7, <3>8, Zenon
  <2> QED BY <1>5, <2>1, <2>2
<1> QED BY <1>1, <1>8, <1>9, <1>10 DEF StorageInv, Balance

\* No step makes files appear or vanish that the books do not show.
LEMMA StorageStep ==
    ASSUME StorageIInv, UsageStep
    PROVE  StorageIInv'
<1>1. ClockInv /\ FilesInv /\ UsageIInv /\ PlaceTypes /\ NumbersInv
    BY DEF StorageIInv, UsageIInv
<1>2. FilesInv'
    BY <1>1, FilesStep
<1>3. UsageIInv'
    BY <1>1, UsageKeeps
<1>4. Sizes \subseteq Nat
    BY UsageAssumption
<1>5. StorageInv'
  <2>1. CASE \E s \in Signals, b \in Sizes : WriteFile(s, b) /\ Adds(Sample("ingest", s, b))
    <3>1. PICK s \in Signals, b \in Sizes : WriteFile(s, b) /\ Adds(Sample("ingest", s, b))
        BY <2>1
    <3>2. files' = files \cup {File(s, b)} /\ UNCHANGED <<now, cleaned, stored, misbooked>> /\ b \in Nat
        BY <1>4, <3>1 DEF WriteFile
    <3>3. File(s, b) \in Rows /\ File(s, b).id = count + 1 /\ File(s, b).signal = s /\ File(s, b).bytes = b
        BY <1>1, <3>2, FileOK
    <3>4. File(s, b) \notin files /\ files \in SUBSET Rows /\ IsFiniteSet(files)
        BY <1>1, <3>3 DEF FilesInv, ClockInv
    <3>5. \A x \in Signals : OnDisk(files', x) = OnDisk(files, x) + (IF s = x THEN b ELSE 0)
      <4> SUFFICES ASSUME NEW x \in Signals
                   PROVE  OnDisk(files', x) = OnDisk(files, x) + (IF s = x THEN b ELSE 0)
          OBVIOUS
      <4>1. PICK f : f = File(s, b)
          OBVIOUS
      <4>2. OnDisk(files \cup {f}, x) = OnDisk(files, x) + (IF f.signal = x THEN f.bytes ELSE 0)
          BY <3>3, <3>4, <4>1, OnDiskAdd
      <4> QED BY <3>2, <3>3, <4>1, <4>2
    <3> QED BY <3>1, <3>2, <3>5, WrittenStep
  <2>2. CASE \E s \in Signals, b \in Sizes : QueryDone(s, b) /\ Adds(Sample("query", s, b))
    <3>1. PICK s \in Signals, b \in Sizes : QueryDone(s, b) /\ Adds(Sample("query", s, b))
        BY <2>2
    <3>2. UNCHANGED <<now, files, cleaned, stored, misbooked>> /\ b \in Nat
        BY <1>4, <3>1 DEF QueryDone, storage
    <3>3. Sample("query", s, b).op = "query"
        BY <1>1, <3>2, SampleOK DEF Ops
    <3>4. \A x \in Signals : Ingested(Everything', x, Today) = Ingested(Everything, x, Today)
        BY <3>1, <3>3 DEF Adds, Ingested
    <3>5. \A x \in Signals : SumBytes(Ingested(Everything', x, Today)) = SumBytes(Ingested(Everything, x, Today))
        BY <3>4, Zenon
    <3> QED BY <3>2, <3>5, StorageKeeps
  <2>3. CASE \E f, g \in files : Compact(f, g) /\ Adds(Sample("ingest", f.signal, f.bytes + g.bytes))
    <3>1. PICK f \in files, g \in files : Compact(f, g) /\ Adds(Sample("ingest", f.signal, f.bytes + g.bytes))
        BY <2>3
    <3>2. UNCHANGED <<now, cleaned, stored, misbooked>>
        BY <3>1 DEF Compact
    <3>3. f.signal \in Signals /\ f.bytes + g.bytes \in Nat
        BY <1>1 DEF FilesInv, Rows
    <3>4. \A x \in Signals : OnDisk(files', x) = OnDisk(files, x) + (IF f.signal = x THEN f.bytes + g.bytes ELSE 0)
        BY <1>1, <3>1, OnDiskCompacted
    <3> QED BY <3>1, <3>2, <3>3, <3>4, WrittenStep
  <2>4. CASE Still /\ Everything' = Everything
    <3>1. \A x \in Signals : SumBytes(Ingested(Everything', x, Today)) = SumBytes(Ingested(Everything, x, Today))
        BY <2>4
    <3>2. ASSUME UNCHANGED <<now, files, cleaned, stored, misbooked>> PROVE StorageInv'
        BY <3>1, <3>2, StorageKeeps
    <3>3. CASE Marking
      <4>1. UNCHANGED <<now, cleaned, stored, misbooked>>
          BY <3>3, MarkingIs
      <4>2. files' = files \/ \E m \in marks : files' = {Mark(m, f) : f \in files}
          BY <3>3, MarkingIs
      <4>3. \A x \in Signals : OnDisk(files', x) = OnDisk(files, x)
          BY <1>1, <4>2, OnDiskMarked
      <4> QED BY <3>1, <4>1, <4>3, StorageKeeps
    <3>4. CASE Sweeping
        BY <3>4, SweptStep
    <3>5. CASE Tick
        BY <3>5, TickStep
    <3>6. CASE Receive \/ Flush \/ Snapshot \/ Restart \/ Quiet \/ Listing \/ \E u \in spawned : Record(u)
        BY <3>2, <3>6 DEF Receive, Flush, Snapshot, Restart, Quiet, Listing, Record, storage
    <3> QED BY <2>4, <3>3, <3>4, <3>5, <3>6 DEF Still
  <2> QED BY <1>1, <2>1, <2>2, <2>3, <2>4, UsageKeeps
<1>6. SweepsInv'
    BY <1>1, SweepsStep DEF StorageIInv
<1> QED BY <1>2, <1>3, <1>5, <1>6 DEF StorageIInv

LEMMA StorageStart == Init => StorageIInv
<1> SUFFICES ASSUME Init PROVE StorageIInv
    OBVIOUS
<1>1. UsageInit
    BY DEF Init
<1>2. UsageIInv
    BY UsageStart
<1>3. FilesInv
    BY <1>1, FS_EmptySet DEF UsageInit, FilesInv
<1>4. Today = 0 /\ Today \in Days
  <2>1. ClockInv
      BY <1>2 DEF UsageIInv
  <2>2. now = 0
      BY <1>1 DEF UsageInit
  <2>3. DayOf(0) = 0
    <3>1. 0 * DayLen <= 0 /\ 0 < 0 * DayLen + DayLen
        BY CalendarOK
    <3>2. 0 \div DayLen = 0
        BY <3>1, CalendarOK, DivUnique
    <3> QED BY <3>2 DEF DayOf
  <2> QED BY <2>1, <2>2, <2>3, TodayOK DEF Today
<1>5. Everything = {}
    BY <1>1, EmptyList DEF UsageInit, Known, Booked, Everything, NoWorker
<1>6. ASSUME NEW x \in Signals PROVE Balance(x)
  <2>1. {f \in files : f.signal = x} = {} /\ Ingested(Everything, x, Today) = {}
      BY <1>1, <1>5 DEF UsageInit, Ingested
  <2>2. OnDisk(files, x) = 0 /\ SumBytes(Ingested(Everything, x, Today)) = 0
      BY <2>1, SumBytesNone, Zenon DEF OnDisk
  <2>3. StoredBefore(x) = 0 /\ cleaned[<<x, Today>>] = 0
      BY <1>1, <1>4 DEF UsageInit, StoredBefore
  <2> QED BY <2>2, <2>3 DEF Balance
<1>7. StorageInv
    BY <1>1, <1>6 DEF UsageInit, StorageInv, Balance
<1>8. SweepsInv
    BY <1>1 DEF UsageInit, SweepsInv
<1> QED BY <1>2, <1>3, <1>7, <1>8 DEF StorageIInv

\* At every moment the bytes of file_list and the bytes booked as cleaned today
\* are those of yesterday's end and those written today, through writes,
\* compactions, cleanups, restarts and runs of the reclaimer that list, wait
\* and commit - but for signals of which a run has booked rows that were gone,
\* or booked them for the day before.
THEOREM StorageInvariant == Spec => []StorageIInv
<1>1. StorageIInv /\ [Next]_vars => StorageIInv'
    BY StepsAre, StorageStep
<1> QED BY <1>1, StorageStart, PTL DEF Spec

\* Events as many as their samples are one for each.
LEMMA OneEach ==
    ASSUME PlaceTypes, Cardinality(events) = Cardinality(Booked)
    PROVE  \A e, d \in events : e.s = d.s => e = d
<1> DEFINE h == [e \in events |-> e.s]
<1>1. h \in Surjection(events, Booked)
    BY DEF Surjection, Booked
<1>2. IsFiniteSet(events)
    BY DEF PlaceTypes
<1>3. h \in Injection(events, Booked)
  <2> HIDE DEF h
  <2> QED BY <1>1, <1>2, FS_Surjection
<1>4. \A e, d \in events : h[e] = h[d] => e = d
    BY <1>3 DEF Injection, IsInjective
<1> QED BY <1>4

\* With complete books the row of today is what was ingested today.
LEMMA CompleteRow ==
    ASSUME UsageIInv, BooksComplete, NEW s \in Signals
    PROVE  Number(daily[<<"ingest", s, Today>>]) = SumBytes(Ingested(Everything, s, Today))
<1> DEFINE k == <<"ingest", s, Today>>
           es == OfDay(events, k)
<1>1. ClockInv /\ PlaceTypes /\ NumbersInv /\ BooksInv
    BY DEF UsageIInv
<1>2. Everything = Booked
    BY DEF BooksComplete, Everything
<1>3. Cardinality(events) = Cardinality(Booked)
    BY <1>1, <1>2, EverythingCounted DEF BooksComplete
<1>4. \A e, d \in events : e.s = d.s => e = d
    BY <1>1, <1>3, OneEach
<1>5. k \in Ops \X Signals \X Days
    BY <1>1, TodayOK DEF Ops
<1>6. Number(daily[k]) = BytesOf(es)
    BY <1>1, <1>5, RowIs
<1>7. es \in SUBSET Events /\ IsFiniteSet(es) /\ es \subseteq events
    BY <1>1, FS_Subset DEF PlaceTypes, OfDay
<1>8. BytesOf(es) = SumBytes({e.s : e \in es})
  <2>1. \A e, d \in es : e.s = d.s => e = d
      BY <1>4, <1>7
  <2> HIDE DEF es
  <2> QED BY <1>7, <2>1, BytesOfSamples
<1>9. {e.s : e \in es} = Ingested(Everything, s, Today)
    BY <1>2 DEF OfDay, DayKey, Ingested, Booked
<1> QED BY <1>6, <1>8, <1>9, Zenon

\* Derived from yesterday's row, the ingested bytes and the cleanup of today,
\* the storage reported for today is that of file_list, and no less than the
\* live files - for every sequence of writes, merges, cleanups, reclaims,
\* snapshots and restarts, whenever the books are complete, yesterday's row was
\* right and no run of the reclaimer overlapped another or the end of a day.
THEOREM StorageAddsUpHolds == Spec => []StorageAddsUp
<1>1. ASSUME StorageIInv PROVE StorageAddsUp
  <2> SUFFICES ASSUME NEW s \in Signals, BooksComplete, Today > 0, <<s, Today>> \notin misbooked,
                      snapshots[<<s, Today - 1>>] = stored[<<s, Today - 1>>],
                      NEW r \in StorageUsageDaily(s, Today, Today)
               PROVE  r.bytes = OnDisk(files, s) /\ \A u \in StorageUsage(s) : u.bytes <= r.bytes
      BY DEF StorageAddsUp
  <2>1. ClockInv /\ UsageIInv /\ StorageInv /\ FilesInv
      BY <1>1 DEF StorageIInv, UsageIInv
  <2>2. Today \in Days /\ Today \in Nat /\ SignalFilter(s) = {s}
      BY <2>1, TodayOK, UsageAssumption DEF SignalFilter
  <2>3. r.bytes = DerivedToday(s)
    <3>1. \A k \in DOMAIN snapshots : ~(k[2] \in Today .. Today /\ k[2] < Today)
        BY <2>2
    <3>2. PICK x \in SignalFilter(s) : r = [signal |-> x, day |-> Today, bytes |-> DerivedToday(x), estimated |-> TRUE]
        BY <3>1 DEF StorageUsageDaily
    <3> QED BY <2>2, <3>2
  <2>4. PICK p \in Nat, q \in Nat, t \in Nat, v \in Nat :
            /\ p = OnDisk(files, s) /\ q = cleaned[<<s, Today>>] /\ v = StoredBefore(s)
            /\ t = SumBytes(Ingested(Everything, s, Today)) /\ p + q = v + t
      BY <1>1, BalanceTypes DEF Balance
  <2>5. snapshots[<<s, Today - 1>>] = v /\ v # Unset
      BY <2>2, <2>4, UsageAssumption DEF StoredBefore
  <2>6. Number(daily[<<"ingest", s, Today>>]) = t
      BY <2>1, <2>4, CompleteRow
  <2>7. DerivedToday(s) = AtLeastZero(v + t - q)
      BY <2>4, <2>5, <2>6 DEF DerivedToday
  <2>8. AtLeastZero(v + t - q) = p
      BY <2>4 DEF AtLeastZero
  <2>9. r.bytes = p
      BY <2>3, <2>7, <2>8, Zenon
  <2>10. StoredBytes(s) <= OnDisk(files, s)
    <3> DEFINE S == {f \in files : f.signal = s}
               L == {f \in files : f.signal = s /\ f.state = "live"}
    <3>1. IsFiniteSet(S) /\ L \in SUBSET S /\ \A f \in S : f.bytes \in Nat
        BY <2>1, FS_Subset DEF FilesInv, Rows
    <3>2. StoredBytes(s) = SumBytes(L) /\ OnDisk(files, s) = SumBytes(S)
        BY DEF StoredBytes, OnDisk
    <3> HIDE DEF S, L
    <3> QED BY <3>1, <3>2, SumBytesOf
  <2>11. ASSUME NEW u \in StorageUsage(s) PROVE u.bytes = StoredBytes(s)
    <3>1. PICK x \in SignalFilter(s) : \E n : u = [signal |-> x, files |-> n, bytes |-> StoredBytes(x)]
        BY Zenon DEF StorageUsage
    <3> QED BY <2>2, <3>1
  <2> QED BY <2>4, <2>9, <2>10, <2>11
<1> QED BY <1>1, StorageInvariant, PTL

-----------------------------------------------------------------------------
(* Quotas.                                                                 *)

\* The enforcer's comparison and the reported status part at the same point.
LEMMA ComparesAlike ==
    ASSUME NEW observed, NEW limit, NEW res
    PROVE  Compare(observed, limit, res) = "block" <=> Status(observed, limit, res.hard) = "blocked"
<1> DEFINE P == limit <= 0 \/ observed * 100 >= limit * res.hard
<1>1. CASE P
  <2>1. Compare(observed, limit, res) = "block"
      BY <1>1 DEF Compare
  <2>2. Status(observed, limit, res.hard) = "blocked"
      BY <1>1 DEF Status
  <2> QED BY <2>1, <2>2
<1>2. CASE ~P
  <2>1. Compare(observed, limit, res) \in {"throttle", "allow_with_grace", "none"}
      BY <1>2 DEF Compare
  <2>2. Status(observed, limit, res.hard) \in {"grace", "critical", "warning", "ok"}
      BY <1>2 DEF Status
  <2> QED BY <2>1, <2>2
<1> QED BY <1>1, <1>2

\* Where the tables hold what this process counted, both add up the same bytes.
LEMMA UsedAlike ==
    ASSUME PlaceTypes, Booked = hot, Cardinality(events) = Cardinality(hot), NEW s, NEW op, NEW q
    PROVE  ReportedUsed(events, s, op, q) = PeriodUsed(hot, s, op, q) /\ PeriodUsed(hot, s, op, q) \in Nat
<1> DEFINE W == {e \in events : /\ e.s \in Matching({e.s}, s, op)
                                /\ e.s.at >= q.start /\ (q.end = Unset \/ e.s.at < q.end)}
           V == {u \in Matching(hot, s, op) : u.at >= q.start /\ (q.end = Unset \/ u.at < q.end)}
<1>1. \A e, d \in events : e.s = d.s => e = d
    BY OneEach
<1>2. W \in SUBSET Events /\ IsFiniteSet(W) /\ \A e, d \in W : e.s = d.s => e = d
    BY <1>1, FS_Subset DEF PlaceTypes
<1>3. {e.s : e \in W} = V
  <2>1. \A u : u \in hot <=> \E e \in events : u = e.s
      BY DEF Booked
  <2>2. \A u : u \in Matching(hot, s, op) <=> u \in hot /\ u \in Matching({u}, s, op)
      BY DEF Matching
  <2>3. ASSUME NEW u \in V PROVE u \in {e.s : e \in W}
      BY <2>1, <2>2
  <2>4. ASSUME NEW e \in W PROVE e.s \in V
      BY <2>1, <2>2
  <2> QED BY <2>3, <2>4
<1> HIDE DEF W, V
<1>4. BytesOf(W) = SumBytes({e.s : e \in W})
    BY <1>2, BytesOfSamples
<1>5. BytesOf(W) = SumBytes(V)
    BY <1>3, <1>4, Zenon
<1>6. BytesOf(W) \in Nat
    BY <1>2, BytesOfUnion
<1> QED BY <1>5, <1>6 DEF ReportedUsed, PeriodUsed, W, V

\* The checks come in an order, so that one is the first with something to say.
LEMMA FirstSpeaks ==
    ASSUME NEW checks, \A c \in checks : c.rank \in 0 .. 6, NEW a \in checks, a.verdict # "none"
    PROVE  \E c \in checks : /\ c.verdict # "none" /\ DecisionOf(checks) = c.verdict
                             /\ \A o \in checks : o.verdict # "none" => c.rank <= o.rank
<1> DEFINE spoke == {c \in checks : c.verdict # "none"}
           First(c) == \A o \in spoke : c.rank <= o.rank
           R == {n \in 0 .. 6 : \E c \in spoke : c.rank = n}
<1>1. IsFiniteSet(R) /\ R \in SUBSET Int /\ R # {}
  <2>1. IsFiniteSet(0 .. 6)
    <3>1. 0 \in Int /\ 6 \in Int
        OBVIOUS
    <3> QED BY <3>1, FS_Interval, Zenon
  <2>2. R \in SUBSET (0 .. 6) /\ 0 .. 6 \in SUBSET Int
      OBVIOUS
  <2>3. R # {}
    <3>1. a.rank \in R
        OBVIOUS
    <3> QED BY <3>1
  <2> HIDE DEF R
  <2> QED BY <2>1, <2>2, <2>3, FS_Subset
<1>2. Min(R) \in R /\ \A n \in R : Min(R) <= n
    BY <1>1, FiniteMin
<1>3. \E c \in spoke : First(c)
  <2>1. PICK c \in spoke : c.rank = Min(R)
      BY <1>2
  <2> QED BY <1>2, <2>1
<1>4. PICK c : c = CHOOSE d \in spoke : First(d)
    OBVIOUS
<1>5. c \in spoke /\ First(c)
    BY <1>3, <1>4
<1>6. DecisionOf(checks) = c.verdict
    BY <1>4, <1>5 DEF DecisionOf
<1> QED BY <1>5, <1>6

\* The checks of an ingest request.
LEMMA IngestChecksAre ==
    ASSUME NEW usage, NEW ctx, NEW cs, NEW s, NEW t, NEW c \in IngestChecks(usage, ctx, Resolve(cs, s, "ingest"), t)
    PROVE  c.rank \in 0 .. 6 /\ (c.kind = "quota" => c \in QuotaChecks(usage, ctx, Resolve(cs, s, "ingest")))
<1> DEFINE res == Resolve(cs, s, "ingest")
<1>1. \A x \in res.quotas : x.rank \in 0 .. 3
  <2>1. \A p : Rank(p) \in 0 .. 3
      BY DEF Rank
  <2>2. \A x \in res.quotas : \E p : x = [limit |-> p.limit, rank |-> Rank(p)]
      BY DEF Resolve
  <2> QED BY <2>1, <2>2
<1> HIDE DEF res
<1>2. c \in RateChecks(usage, ctx, res, t) \cup QuotaChecks(usage, ctx, res) \cup SizeChecks(usage, ctx, res)
    BY DEF IngestChecks, res
<1>3. CASE c \in RateChecks(usage, ctx, res, t)
  <2>1. PICK k, o, l, p : c = Check(0, "rate_records", o, l, res, p) \/ c = Check(1, "rate_bytes", o, l, res, p)
      BY <1>3, Zenon DEF RateChecks
  <2>2. c.rank \in {0, 1} /\ c.kind \in {"rate_records", "rate_bytes"}
      BY <2>1 DEF Check
  <2> QED BY <2>2
<1>4. CASE c \in QuotaChecks(usage, ctx, res)
  <2>1. PICK x \in res.quotas : \E o, l, p : c = Check(2 + x.rank, "quota", o, l, res, p)
      BY <1>4, Zenon DEF QuotaChecks
  <2>2. c.rank = 2 + x.rank
      BY <2>1 DEF Check
  <2> QED BY <1>1, <1>4, <2>2 DEF res
<1>5. CASE c \in SizeChecks(usage, ctx, res)
  <2>1. PICK o, l, p : c = Check(6, "size", o, l, res, p)
      BY <1>5, Zenon DEF SizeChecks
  <2>2. c.rank = 6 /\ c.kind = "size"
      BY <2>1 DEF Check
  <2> QED BY <2>2
<1> QED BY <1>2, <1>3, <1>4, <1>5

\* A status that is reported and the check of the same quota.
LEMMA StatusAndCheck ==
    ASSUME PlaceTypes, Booked = hot, Cardinality(events) = Cardinality(hot), NEW s \in Signals,
           NEW x \in Resolve(cache, s, "ingest").quotas
    PROVE  LET res == Resolve(cache, s, "ingest")
               ctx == [signal |-> s, records |-> 0, bytes |-> 0]
           IN  Compare(PeriodUsed(hot, ctx.signal, "ingest", x.limit) + ctx.bytes, x.limit.max, res) = "block"
                 <=> Status(ReportedUsed(events, s, "ingest", x.limit), x.limit.max, res.hard) = "blocked"
<1> DEFINE res == Resolve(cache, s, "ingest")
           ctx == [signal |-> s, records |-> 0, bytes |-> 0]
<1>1. ctx.signal = s /\ ctx.bytes = 0
    OBVIOUS
<1>2. PICK n \in Nat : n = PeriodUsed(hot, s, "ingest", x.limit) /\ n = ReportedUsed(events, s, "ingest", x.limit)
    BY UsedAlike
<1>3. n + 0 = n
    OBVIOUS
<1>4. PeriodUsed(hot, ctx.signal, "ingest", x.limit) + ctx.bytes = n
    BY <1>1, <1>2, <1>3, Zenon
<1> HIDE DEF res, ctx
<1>5. Compare(n, x.limit.max, res) = "block" <=> Status(n, x.limit.max, res.hard) = "blocked"
    BY ComparesAlike
<1>6. Compare(PeriodUsed(hot, ctx.signal, "ingest", x.limit) + ctx.bytes, x.limit.max, res) = "block"
        <=> Status(ReportedUsed(events, s, "ingest", x.limit), x.limit.max, res.hard) = "blocked"
    BY <1>2, <1>4, <1>5, Zenon
<1> QED BY <1>6, Zenon DEF res, ctx

\* What the API reports of ingest quotas.
QuotaRow(s, op, x) ==
    [operation |-> op, kind |-> "quota", limit |-> x.limit,
     status |-> Status(ReportedUsed(events, s, op, x.limit), x.limit.max, Resolve(cache, s, op).hard)]
LEMMA IngestRows ==
    ASSUME NEW s
    PROVE  /\ \A x \in Resolve(cache, s, "ingest").quotas :
                 QuotaRow(s, "ingest", x) \in QuotaStatuses(cache, events, StoredBytes(s), s)
           /\ \A st \in QuotaStatuses(cache, events, StoredBytes(s), s) :
                 st.operation = "ingest" => \E x \in Resolve(cache, s, "ingest").quotas : st = QuotaRow(s, "ingest", x)
<1> DEFINE Quotas(op) == {QuotaRow(s, op, x) : x \in Resolve(cache, s, op).quotas}
           res == Resolve(cache, s, "store")
           Store == IF res.size = Unset THEN {}
                    ELSE {[operation |-> "store", kind |-> "size", limit |-> res.size,
                           status |-> Status(StoredBytes(s), res.size, res.hard)]}
<1>1. QuotaStatuses(cache, events, StoredBytes(s), s) = (UNION {Quotas(op) : op \in {"ingest", "query"}}) \cup Store
    BY DEF QuotaStatuses, QuotaRow
<1>2. \A st \in Store : st.operation = "store"
    OBVIOUS
<1> HIDE DEF Store
<1>3. \A st \in Quotas("query") : st.operation = "query"
    BY DEF QuotaRow
<1>4. ASSUME NEW st \in QuotaStatuses(cache, events, StoredBytes(s), s), st.operation = "ingest"
      PROVE  st \in Quotas("ingest")
  <2> HIDE DEF Quotas
  <2>1. st \in Quotas("ingest") \/ st \in Quotas("query") \/ st \in Store
      BY <1>1
  <2> QED BY <1>2, <1>3, <1>4, <2>1
<1>5. Quotas("ingest") \subseteq QuotaStatuses(cache, events, StoredBytes(s), s)
  <2> HIDE DEF Quotas
  <2> QED BY <1>1
<1> QED BY <1>4, <1>5

\* What the API reports as blocked the enforcer refuses, and the other way
\* round, whatever the policies, their percentages and the usage.
THEOREM QuotaStatusAgreesHolds == Spec => []QuotaStatusAgrees
<1>1. ASSUME UsageIInv PROVE QuotaStatusAgrees
  <2> SUFFICES ASSUME Booked = hot, Cardinality(events) = Cardinality(hot), NEW s \in Signals
               PROVE  LET ctx    == [signal |-> s, records |-> 0, bytes |-> 0]
                          res    == Resolve(cache, s, "ingest")
                          spoke  == {c \in IngestChecks(hot, ctx, res, now) : c.verdict # "none"}
                          refused == CheckIngest(hot, ctx, res, now) = "block"
                          blocked == {st \in QuotaStatuses(cache, events, StoredBytes(s), s) :
                                         /\ st.operation = "ingest" /\ st.kind = "quota"
                                         /\ st.limit.basis = "compressed" /\ st.status = "blocked"}
                      IN  /\ \A st \in blocked : \E c \in spoke :
                                /\ c.kind = "quota" /\ c.limit = st.limit.max /\ c.verdict = "block"
                                /\ refused \/ \E o \in spoke : o.rank <= c.rank /\ o.verdict # "block"
                          /\ refused /\ (\A c \in spoke : c.kind = "quota") => blocked # {}
      BY Zenon DEF QuotaStatusAgrees
  <2> DEFINE ctx == [signal |-> s, records |-> 0, bytes |-> 0]
             res == Resolve(cache, s, "ingest")
             checks == IngestChecks(hot, ctx, res, now)
             spoke  == {c \in checks : c.verdict # "none"}
             refused == CheckIngest(hot, ctx, res, now) = "block"
             blocked == {st \in QuotaStatuses(cache, events, StoredBytes(s), s) :
                            /\ st.operation = "ingest" /\ st.kind = "quota"
                            /\ st.limit.basis = "compressed" /\ st.status = "blocked"}
             Used(x) == ReportedUsed(events, s, "ingest", x.limit)
             StatusOf(x) == [operation |-> "ingest", kind |-> "quota", limit |-> x.limit,
                             status |-> Status(Used(x), x.limit.max, res.hard)]
             CheckOf(x) == Check(2 + x.rank, "quota", PeriodUsed(hot, ctx.signal, "ingest", x.limit) + ctx.bytes,
                                 x.limit.max, res, x.limit.start)
  <2>1. PlaceTypes
      BY <1>1 DEF UsageIInv
  <2>2. \A c \in checks : c.rank \in 0 .. 6 /\ (c.kind = "quota" => c \in QuotaChecks(hot, ctx, res))
      BY IngestChecksAre
  <2>3. \A x \in res.quotas : x.limit.basis = "compressed" => CheckOf(x) \in checks
      BY DEF IngestChecks, QuotaChecks
  <2>4. \A c \in QuotaChecks(hot, ctx, res) : \E x \in res.quotas : x.limit.basis = "compressed" /\ c = CheckOf(x)
      BY DEF QuotaChecks
  <2>5. \A x \in res.quotas : StatusOf(x) \in QuotaStatuses(cache, events, StoredBytes(s), s)
      BY IngestRows DEF QuotaRow
  <2>6. \A st \in QuotaStatuses(cache, events, StoredBytes(s), s) :
            st.operation = "ingest" => \E x \in res.quotas : st = StatusOf(x)
      BY IngestRows DEF QuotaRow
  <2>7. \A x \in res.quotas : CheckOf(x).verdict = "block" <=> StatusOf(x).status = "blocked"
    <3> SUFFICES ASSUME NEW x \in res.quotas PROVE CheckOf(x).verdict = "block" <=> StatusOf(x).status = "blocked"
        OBVIOUS
    <3>1. CheckOf(x).verdict = Compare(PeriodUsed(hot, ctx.signal, "ingest", x.limit) + ctx.bytes, x.limit.max, res)
        BY DEF Check
    <3>2. StatusOf(x).status = Status(Used(x), x.limit.max, res.hard)
        OBVIOUS
    <3>3. Compare(PeriodUsed(hot, ctx.signal, "ingest", x.limit) + ctx.bytes, x.limit.max, res) = "block"
            <=> Status(Used(x), x.limit.max, res.hard) = "blocked"
        BY <2>1, StatusAndCheck
    <3> HIDE DEF CheckOf, StatusOf, Used, res, ctx
    <3> QED BY <3>1, <3>2, <3>3, Zenon
  <2>8. \A x : /\ CheckOf(x).kind = "quota" /\ CheckOf(x).limit = x.limit.max
               /\ StatusOf(x).operation = "ingest" /\ StatusOf(x).kind = "quota" /\ StatusOf(x).limit = x.limit
      BY DEF Check
  <2>9. refused <=> DecisionOf(checks) = "block"
      BY DEF CheckIngest
  <2> HIDE DEF ctx, res, checks, refused, CheckOf, StatusOf, Used
  <2>10. ASSUME NEW st \in blocked
         PROVE  \E c \in spoke : /\ c.kind = "quota" /\ c.limit = st.limit.max /\ c.verdict = "block"
                                 /\ refused \/ \E o \in spoke : o.rank <= c.rank /\ o.verdict # "block"
    <3>1. PICK x \in res.quotas : st = StatusOf(x)
        BY <2>6
    <3>2. CheckOf(x) \in checks /\ CheckOf(x).verdict = "block" /\ CheckOf(x).kind = "quota"
          /\ CheckOf(x).limit = st.limit.max
        BY <2>3, <2>7, <2>8, <3>1
    <3>3. PICK d \in checks : /\ d.verdict # "none" /\ DecisionOf(checks) = d.verdict
                              /\ \A o \in checks : o.verdict # "none" => d.rank <= o.rank
        BY <2>2, <3>2, FirstSpeaks
    <3>4. d.rank <= CheckOf(x).rank /\ CheckOf(x) \in spoke /\ d \in spoke
        BY <3>2, <3>3
    <3> QED BY <2>9, <3>2, <3>3, <3>4
  <2>11. ASSUME refused, \A c \in spoke : c.kind = "quota" PROVE blocked # {}
    <3>1. spoke # {}
        BY <2>9, <2>11 DEF DecisionOf
    <3>2. PICK d \in checks : d.verdict # "none" /\ DecisionOf(checks) = d.verdict
        BY <2>2, <3>1, FirstSpeaks
    <3>3. d.verdict = "block" /\ d.kind = "quota"
        BY <2>9, <2>11, <3>2
    <3>4. PICK x \in res.quotas : x.limit.basis = "compressed" /\ d = CheckOf(x)
        BY <2>2, <2>4, <3>3
    <3>5. StatusOf(x).status = "blocked"
        BY <2>7, <3>3, <3>4
    <3> QED BY <2>5, <2>8, <3>4, <3>5
  <2> QED BY <2>10, <2>11 DEF ctx, res, checks, refused
<1> QED BY <1>1, UsageInvariant, PTL
=============================================================================
