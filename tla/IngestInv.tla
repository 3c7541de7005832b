----------------------------- MODULE IngestInv -----------------------------
(***************************************************************************)
(* The inductive invariant of Ingest: what each record of the WAL and each *)
(* row in Parquet has to do with the export it came from, at every step of *)
(* that export.                                                            *)
(***************************************************************************)
EXTENDS Ingest

\* The fields the argument is about have their types.
ShapeInv ==
    /\ appended \in Nat
    /\ wal \in Seq(Range(wal))
    /\ DOMAIN client = Exporters
    /\ \A e \in Exporters :
          /\ client[e] = [pc |-> client[e].pc, req |-> client[e].req, seen |-> client[e].seen,
                          rows |-> client[e].rows, scores |-> client[e].scores,
                          open |-> client[e].open, answer |-> client[e].answer]
          /\ client[e].open \in Nat
          /\ client[e].pc # "idle" => client[e].req.signal \in {"traces", "metrics", "logs"}

\* Records and rows of exports are numbered by the appends there were, and an
\* exporter that has sent nothing has none.
NumberInv ==
    /\ \A r \in Range(wal) : r.client \in Exporters => r.n \in 1..appended /\ client[r.client].pc # "idle"
    /\ \A p \in parquet : p.client \in Exporters => p.n \in 1..appended /\ client[p.client].pc # "idle"

\* Nothing is answered twice: an export that was accepted is over.
AnswerInv == \A e \in Exporters : client[e].answer \in {"OK", "200"} => client[e].pc = "done"

\* The copies of the rows of an export against the answers that allow them.
Allowed(e) == client[e].open + (IF client[e].pc = "syncing" THEN 1 ELSE 0)
CopiesInv ==
    \A e \in Exporters :
        client[e].pc # "idle" => Cardinality(Copies(e, client[e].req.signal)) <= Allowed(e)

\* A batch is kept: the record with just these rows is in the WAL, or the rows
\* that parse are in Parquet.
IsBatch(r, e, signal, rows) ==
    r.client = e /\ r.signal = signal /\ r.envelope = "batch" /\ r.rows = rows
Kept(e, signal, rows) ==
    \/ \E r \in Range(wal) : IsBatch(r, e, signal, rows)
    \/ \A i \in DOMAIN rows : Parses(signal, rows[i]) =>
          \E p \in parquet : p.client = e /\ p.signal = signal /\ p.i = i

\* Whatever an export has appended so far is kept, flushes that fail and
\* earlier attempts with other settings notwithstanding.
KeptInv ==
    \A e \in Exporters :
        /\ client[e].pc \in {"syncing scores", "scored", "syncing"} \/ client[e].answer \in {"OK", "200"} =>
              Kept(e, "scores", client[e].scores)
        /\ client[e].pc = "syncing" \/ client[e].answer \in {"OK", "200"} =>
              Kept(e, client[e].req.signal, client[e].rows)

IngestIInv == load \in Loads /\ ShapeInv /\ NumberInv /\ AnswerInv /\ CopiesInv /\ KeptInv

-----------------------------------------------------------------------------
(* What the stored rows were made from.                                    *)

\* The batches an export may have become: its scores, and its rows under any
\* setting of the workspace while it was under way.
Conversions(c, signal) ==
    IF signal = "scores" THEN {Scores(c.req)}
    ELSE IF signal = c.req.signal THEN {Rows(c.req, capture) : capture \in c.seen} ELSE {}

\* Steps at which the rows of this attempt are there.
Converted == {"accepted", "syncing scores", "scored", "syncing"}

\* An export under way has seen the settings there are, and what it is about
\* to append is one of its conversions.
SeenInv ==
    /\ settings \in load.settings
    /\ \A e \in Exporters : client[e].pc # "idle" =>
          /\ client[e].req \in load.requests
          /\ client[e].seen \subseteq BOOLEAN
          /\ InFlight(client[e]) => settings.capture \in client[e].seen
          /\ client[e].pc \in Converted =>
                /\ client[e].scores \in Conversions(client[e], "scores")
                /\ client[e].rows \in Conversions(client[e], client[e].req.signal)

\* A record of the WAL is a conversion of the export it came from, and so is
\* the batch a row in Parquet was taken from.
RecordStems(r) ==
    r.client \in Exporters => r.envelope = "batch" /\ r.rows \in Conversions(client[r.client], r.signal)
RowStems(p) ==
    IF p.client \in Exporters
    THEN /\ p.lacks = {}
         /\ \E rows \in Conversions(client[p.client], p.signal) :
               p.i \in DOMAIN rows /\ p.row = Batch(p.signal, rows[p.i])
    ELSE p.lacks \subseteq OptionalCols
StemInv == (\A r \in Range(wal) : RecordStems(r)) /\ (\A p \in parquet : RowStems(p))

ConvertedIInv == IngestIInv /\ SeenInv /\ StemInv

\* No content of a span is stored for a workspace that did not capture content
\* at any time while the export was under way.
ContentNeedsCapture ==
    \A p \in parquet :
        p.client \in Exporters /\ p.signal = "traces" /\ TRUE \notin client[p.client].seen =>
            \A table \in SUBSET Columns : \A f \in ContentFields : ReadSpan(p, table)[f] = ""

\* A stored log, read back and shown, has its own time and severity where it
\* has them, its body as message, and an id only if it had one.
LogsAsSent ==
    \A p \in parquet : p.client \in Exporters /\ p.signal = "logs" =>
        LogAsSent(client[p.client].req.items[p.i], ShowLog(ReadLog(p)))
=============================================================================
