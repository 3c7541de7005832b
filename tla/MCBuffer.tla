------------------------------ MODULE MCBuffer ------------------------------
EXTENDS BufferInv

Row(id, ws, service, ts) == [id |-> id, ws |-> ws, service |-> service, ts |-> ts]

\* Batches that mix workspaces, streams and hours, one with rows of two groups
\* in turn, and that meet in one slot, which two of their rows fill.
MCBatches ==
    {[id |-> 1, signal |-> "traces",
      rows |-> <<Row(1, "w1", "", 1), Row(2, "w1", "api", 1), Row(5, "w1", "default", 2)>>],
     [id |-> 2, signal |-> "traces", rows |-> <<Row(3, "w1", "default", 3), Row(4, "w2", "default", 4)>>]}
=============================================================================
