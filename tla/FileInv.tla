------------------------------ MODULE FileInv ------------------------------
(***************************************************************************)
(* The inductive invariant behind VisibleHasBytes and StoredRowsVisible.   *)
(* Each part says what a task may still rely on of the listing it took:    *)
(* rows never come back once retired, so a listed row can only have moved  *)
(* on in visible -> deleted -> gone.                                       *)
(***************************************************************************)
EXTENDS FileLifecycle

Registered(f) == state[f] # "none"
Retired(f)    == state[f] \in {"deleted", "gone"}

\* Rows the retention cutoff has not passed are in a visible file outside S.
CoveredOutside(rows, S) ==
    \A r \in rows : r > horizon => \E g \in Visible \ S : r \in content[g]

\* A task that works on a file has one.
BusyInv ==
    /\ \A t \in Task : wr[t].pc # "idle" => wr[t].file \in Files
    /\ mv.pc \in {"upload", "update"} => mv.file \in Files
    /\ \A p \in Reclaimers : rc[p].pc = "delete" => rc[p].item[1] \in Files

\* A call of write_batch owns its file; the row's max_ts will bound its rows.
WriterInv ==
    \A t \in Task :
        LET f == wr[t].file IN
        /\ wr[t].pc = "idle" => f = NoFile
        /\ wr[t].pc # "idle" =>
              /\ \A u \in Task : wr[u].file = f => u = t
              /\ \A r \in content[f] : r <= wr[t].ts
        /\ wr[t].pc \in {"temp", "renamed"} => state[f] = "none"
        /\ wr[t].pc = "renamed" => f \in disk
        /\ wr[t].pc = "registered" => Registered(f)

\* max_ts bounds the rows of a registered file; the fsync was not skipped.
BytesInv ==
    /\ unsynced = {}
    /\ \A f \in Files : Registered(f) => \A r \in content[f] : r <= max_ts[f]

\* A promoted file's object is in the bucket before its row says so, and the
\* local copy is doomed only after.
MoverInv ==
    /\ \A f \in mv.todo : Registered(f)
    /\ mv.pc \in {"upload", "update"} => Registered(mv.file)
    /\ mv.pc = "update" => mv.file \in s3 \/ Retired(mv.file)
    /\ \A f \in doomed : Registered(f) /\ (location[f] = "s3" \/ Retired(f))

\* The reclaimer's listings, however old, hold retired files only.
ReclaimInv ==
    \A p \in Reclaimers :
        /\ \A x \in rc[p].todo : Retired(x[1])
        /\ rc[p].pc = "delete" => Retired(rc[p].item[1])
        /\ \A f \in rc[p].ids : Retired(f)

\* Retention marks only files whose rows are all past the horizon.
CleanupInv ==
    /\ cutoff <= horizon
    /\ \A f \in cl.ids : Registered(f) /\ max_ts[f] <= horizon

\* A merged file holds the rows of the listed group, and from its registration
\* to the retirement of the group those rows are visible outside the group.
CompactInv ==
    LET f    == wr["compactor"].file
        rows == UNION {content[g] : g \in cmp.ids} IN
    /\ \A g \in cmp.ids : Registered(g)
    /\ cmp.pc = "writing" <=> wr["compactor"].pc # "idle"
    /\ cmp.pc = "writing" => f \notin cmp.ids /\ content[f] = rows
    /\ wr["compactor"].pc = "registered" => CoveredOutside(rows, cmp.ids)
    /\ cmp.pc = "marking" => CoveredOutside(rows, cmp.ids)

\* Rows of acknowledged and of registered writes are visible until they expire.
RowsInv ==
    /\ CoveredOutside(stored, {})
    /\ \A w \in Writers : wr[w].pc = "registered" => CoveredOutside(content[wr[w].file], {})

\* The inductive invariant.  WriterInv and MoverInv carry the order of the
\* steps of one task, ReclaimInv, CleanupInv and CompactInv what may be relied
\* on of a stale listing.
FileIInv ==
    /\ TypeOK
    /\ BusyInv
    /\ VisibleHasBytes
    /\ WriterInv
    /\ BytesInv
    /\ MoverInv
    /\ ReclaimInv
    /\ CleanupInv
    /\ CompactInv
    /\ RowsInv

-----------------------------------------------------------------------------
(* Local storage: without a bucket nothing is promoted.                    *)

\* Every listing, however old, points to the local disk.
LocalInv ==
    /\ mv = MvIdle /\ doomed = {} /\ s3 = {}
    /\ \A f \in Files : location[f] = "local"
    /\ \A p \in Reclaimers : rc[p].item[2] = "local" /\ \A x \in rc[p].todo : x[2] = "local"
    /\ \A q \in Readers : \A x \in rd[q].todo \cup rd[q].found : x[2] = "local"

\* A row leaves the table after its bytes, and neither comes back.
OrphanInv ==
    /\ \A f \in Files : state[f] = "gone" => f \notin disk
    /\ \A p \in Reclaimers : rc[p].ids \cap disk = {}

\* FileLeaseRegistry counts the queries between acquire and drop.
Holders(f) == {q \in Readers : rd[q].pc = "resolve" /\ f \in rd[q].listed}
LeaseInv   == \A f \in Files : leases[f] = Cardinality(Holders(f))

\* A file leased while it was visible stays on disk, no reclaimer has passed
\* its lease check for it, and the query has it in hand.
HeldInv ==
    \A q \in Readers :
        LET r == rd[q] IN
        /\ r.pc = "listed" => r.found = {} /\ {x[1] : x \in r.todo} = r.listed
        /\ r.pc = "resolve" =>
              /\ r.timely \subseteq disk
              /\ r.timely \subseteq {x[1] : x \in r.todo \cup r.found}
              /\ {x[1] : x \in r.todo \cup r.found} \subseteq r.listed
              /\ \A p \in Reclaimers : rc[p].pc = "delete" => rc[p].item[1] \notin r.timely
        /\ r.pc = "done" /\ r.ok /\ r.timely = r.listed => {x[1] : x \in r.found} = r.listed

\* The inductive invariant on local storage: leases count the queries that hold
\* them, FileReclaimer passes no leased file, and bytes go before their row.
LocalIInv == FileIInv /\ LocalInv /\ OrphanInv /\ LeaseInv /\ HeldInv

-----------------------------------------------------------------------------
(* One reclaimer.                                                          *)

\* Cleanup totals with what makes them inductive: a file being written has no
\* row yet, and what the one reclaimer has listed still has (file_reclaimer.rs
\* takes rows with deleted = true, and nobody else removes them).
SoleInv ==
    /\ CleanedOnce
    /\ \A t \in Task : wr[t].pc \in {"temp", "renamed"} =>
          /\ state[wr[t].file] = "none"
          /\ \A u \in Task : wr[u].file = wr[t].file => u = t
    /\ \A p \in Reclaimers :
          /\ \A x \in rc[p].todo : state[x[1]] = "deleted"
          /\ rc[p].pc = "delete" => state[rc[p].item[1]] = "deleted"
          /\ \A f \in rc[p].ids : state[f] = "deleted"

-----------------------------------------------------------------------------
(* Without failures: no row is written twice but by compaction.            *)

Disjoint(f, g) == content[f] \cap content[g] = {}

\* Registered rows have been acknowledged or are about to be, so that no
\* caller hands them over again.
NewRowsInv ==
    /\ \A f \in Files : Registered(f) =>
          \A r \in content[f] :
              r \in stored \/ \E w \in Writers : wr[w].pc = "registered" /\ r \in content[wr[w].file]
    /\ \A w \in Writers : wr[w].pc # "idle" => content[wr[w].file] \cap stored = {}
    /\ \A v, w \in Writers : v # w /\ wr[v].pc # "idle" /\ wr[w].pc # "idle"
                                  => Disjoint(wr[v].file, wr[w].file)

\* The file a merge has registered.
MergedInto(m) ==
    /\ Registered(m)
    /\ m \notin cmp.ids
    /\ content[m] = UNION {content[g] : g \in cmp.ids}

\* Two visible files share no row, those of S aside; nor does an original of
\* the merge under way, retired by now perhaps, with a file that stays.
ApartBut(S) ==
    /\ \A f, g \in Visible \ S : f = g \/ Disjoint(f, g)
    /\ \A g \in cmp.ids : \A f \in Visible \ (S \cup cmp.ids) : Disjoint(f, g)

\* The merged file is set aside from its registration until its originals are retired.
MergeInv ==
    /\ cmp.pc = "idle" => cmp.ids = {}
    /\ wr["compactor"].pc # "registered" /\ cmp.pc # "marking" => ApartBut({})
    /\ wr["compactor"].pc = "registered" => ApartBut({wr["compactor"].file})
    /\ cmp.pc = "marking" => \E m \in Files : MergedInto(m) /\ ApartBut({m})

\* RowsVisibleOnce made inductive: writers hand over new rows only, and
\* compact_group's merged file is the only copy of its originals' rows.
OnceInv == NewRowsInv /\ MergeInv

=============================================================================
