---------------------------- MODULE ControlInv ----------------------------
(***************************************************************************)
(* The inductive invariants of Control: where samples are and what the     *)
(* tables hold of them (UsageIInv), what the storage books add up to       *)
(* (StorageIInv), and when the retention that is reported is the one that  *)
(* is enforced (RetentionIInv).                                            *)
(***************************************************************************)
EXTENDS Control

Samples == [id : Nat, op : Ops, signal : Signals, bytes : Nat, records : Nat, at : Nat]
Workers == [writes : Seq(Samples), queries : Seq(Samples), wfail : Nat, qfail : Nat, full : BOOLEAN]
Events  == [s : Samples, copy : Nat]
Rows    == [id : Nat, signal : Signals, bytes : Nat, created : Nat, ts : Nat, state : {"live", "merged", "expired"}]

\* Every sample there has been.
Everything == Known \cup Booked \cup gone

ClockInv ==
    /\ bound \in Bounds
    /\ now \in Nat /\ now <= bound.time
    /\ count \in Nat

PlaceTypes ==
    /\ spawned \subseteq Samples /\ hot \subseteq Samples /\ gone \subseteq Samples
    /\ channel \in Seq(Samples)
    /\ worker \in Workers
    /\ events \subseteq Events /\ IsFiniteSet(events)
    /\ hot \subseteq Everything

\* The samples are numbered from 1 to count, none in the future.
NumbersInv ==
    /\ \A u \in Everything : u.id \in 1 .. count /\ u.at <= now
    /\ \A u, v \in Everything : u.id = v.id => u = v
    /\ \A i \in 1 .. count : \E u \in Everything : u.id = i

\* A sample is in one place, and there once.
Once(list) == \A i, j \in DOMAIN list : list[i] = list[j] => i = j
PlacesInv ==
    /\ Once(channel) /\ Once(worker.writes) /\ Once(worker.queries)
    /\ spawned \cap (ToSet(channel) \cup ToSet(worker.writes) \cup ToSet(worker.queries)) = {}
    /\ ToSet(channel) \cap (ToSet(worker.writes) \cup ToSet(worker.queries)) = {}
    /\ ToSet(worker.writes) \cap ToSet(worker.queries) = {}
    /\ Known \cap gone = {}
    /\ ~AmbiguousCommits => /\ Booked \cap (Known \cup gone) = {}
                            /\ \A e, d \in events : e.s = d.s => e = d

BufferInv == Buffered(worker) <= RetryBufferMax

\* Copies of a sample are numbered; the rollups are those of the events.
DayKey(u) == <<u.op, u.signal, DayOf(u.at)>>
MonthKey(u) == <<u.op, u.signal, MonthOf(u.at)>>
OfDay(es, k) == {e \in es : DayKey(e.s) = k}
OfMonth(es, k) == {e \in es : MonthKey(e.s) = k}
CopiesInv == \A e \in events : e.copy \in 1 .. Cardinality({d \in events : d.s = e.s})
BooksInv ==
    /\ daily = [k \in Ops \X Signals \X Days |-> IF OfDay(events, k) = {} THEN Unset ELSE BytesOf(OfDay(events, k))]
    /\ monthly = [k \in Ops \X Signals \X Months |-> BytesOf(OfMonth(events, k))]

UsageIInv == ClockInv /\ PlaceTypes /\ NumbersInv /\ PlacesInv /\ BufferInv /\ CopiesInv /\ BooksInv

\* Files have numbers of their own.
FilesInv ==
    /\ files \subseteq Rows /\ IsFiniteSet(files)
    /\ \A f \in files : f.id \in 1 .. count
    /\ \A f, g \in files : f.id = g.id => f = g

Ingested(us, s, day) == {u \in us : u.op = "ingest" /\ u.signal = s /\ DayOf(u.at) = day}
StoredBefore(s) == IF Today = 0 THEN 0 ELSE stored[<<s, Today - 1>>]

\* The runs of the reclaimer list files and book them for a day that has begun.
SweepsInv == \A r \in sweeps : r.rows \subseteq Rows /\ IsFiniteSet(r.rows) /\ r.day \in 0 .. Today

\* What file_list holds and what was removed from it today is what there was at
\* the end of yesterday and what was written today.
StorageInv ==
    /\ stored \in [Signals \X Days -> Nat] /\ cleaned \in [Signals \X Days -> Nat]
    /\ \A s \in Signals : \A d \in Days : d > Today => cleaned[<<s, d>>] = 0
    /\ \A s \in Signals : <<s, Today>> \notin misbooked =>
          OnDisk(files, s) + cleaned[<<s, Today>>] = StoredBefore(s) + SumBytes(Ingested(Everything, s, Today))

StorageIInv == UsageIInv /\ FilesInv /\ SweepsInv /\ StorageInv

\* The clients that are changing the retention.
Changing(c) == client[c].pc \in {"merge", "apply"}
Agreed == ReportedDays = EffectiveDays(config)
ClientInv ==
    /\ client = [c \in Clients |-> client[c]]
    /\ settings \in WorkspaceSettings \cup {Unset}
    /\ unsettled \in BOOLEAN
    /\ \A c \in Clients : Changing(c) => client[c].req \in Requests /\ client[c].req.name = "set_retention"
    /\ \A c \in Clients : client[c].pc = "merge" => client[c].read \in WorkspaceSettings
\* At most one change has been saved last; without one, and unless something
\* parted the two stores, they agree.
SettledInv ==
    /\ \A c \in pending : c \in Clients /\ client[c].pc = "apply" /\ settings # Unset /\ settings.retention = client[c].req.days
    /\ \A c, d \in pending : c = d
    /\ Settled => Agreed
\* A run that began when they agreed has listed by the retention reported.
MarksInv == \A m \in marks : m.settled => \A f \in m.rows : f.ts <= m.at - m.reported * DayLen

RetentionIInv == FilesInv /\ ClockInv /\ ClientInv /\ SettledInv /\ MarksInv
=============================================================================
