------------------------------- MODULE RowStore -------------------------------
(***************************************************************************)
(* What a telemetry writer promises for the rows it has accepted: each is  *)
(* stored or given up, once; a row given up is never stored later, and is  *)
(* stored at all only when the write that failed had taken effect; none    *)
(* stays undecided for as long as the process lives.                       *)
(***************************************************************************)
EXTENDS FiniteSets

CONSTANT Rows

VARIABLES
    accepted,   \* rows whose insert took them
    stored,     \* rows in files
    lost,       \* rows given up
    alive
rowVars == <<accepted, stored, lost, alive>>

Init == accepted = {} /\ stored = {} /\ lost = {} /\ alive = TRUE

Accept(S) ==
    /\ alive
    /\ accepted' = accepted \cup S
    /\ UNCHANGED <<stored, lost, alive>>

\* A direct write accepts rows by storing them.
StoreAtOnce(S) ==
    /\ alive
    /\ S \cap lost = {}
    /\ accepted' = accepted \cup S
    /\ stored' = stored \cup S
    /\ UNCHANGED <<lost, alive>>

Store(S) ==
    /\ alive
    /\ S \subseteq accepted \ (stored \cup lost)
    /\ stored' = stored \cup S
    /\ UNCHANGED <<accepted, lost, alive>>

\* A write fails, before or after it took effect.
Lose(S) ==
    /\ alive
    /\ S \subseteq accepted \ (stored \cup lost)
    /\ lost' = lost \cup S
    /\ stored' = stored \/ stored' = stored \cup S
    /\ UNCHANGED <<accepted, alive>>

\* The process ends with the rows it had only in memory.
End ==
    /\ alive
    /\ alive' = FALSE
    /\ lost' = lost \cup (accepted \ stored)
    /\ UNCHANGED <<accepted, stored>>

Next ==
    \/ \E S \in SUBSET Rows : Accept(S) \/ StoreAtOnce(S) \/ Store(S) \/ Lose(S)
    \/ End

Safety == Init /\ [][Next]_rowVars

Settled == \A r \in Rows : (r \in accepted) ~> (r \in stored \cup lost)

Spec == Safety /\ Settled
=============================================================================
