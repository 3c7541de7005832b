----------------------------- MODULE MCControl -----------------------------
EXTENDS ControlInv

Policy(signal, operation, limit, until) ==
    [id |-> 0, signal |-> signal, operation |-> operation, limit |-> limit,
     grace |-> 100, hard |-> 100, from |-> 0, until |-> until, rev |-> 0]
Quota == [kind |-> "quota", max |-> 2, start |-> 0, end |-> Unset, basis |-> "compressed"]
Rate  == [kind |-> "rate", records |-> 1, bytes |-> Unset]
Size  == [kind |-> "size", max |-> 4, basis |-> "compressed"]

Settings(days) == [retention |-> days, blocked |-> FALSE, rate |-> 0]

MCDefaults == Settings(2)
MCRequests ==
    {[name |-> "update_settings", settings |-> Settings(d)] : d \in {-1, 1}}
    \cup {[name |-> "get_settings"]}
    \cup {[name |-> "set_retention", days |-> d] : d \in {1, 2}}
    \cup {[name |-> "run_cleanup", days |-> d] : d \in {1, Unset}}
    \cup {[name |-> "upsert_policies", policy |-> p] :
             p \in {Policy("traces", "ingest", Quota, Unset), Policy("all", "all", Size, 1)}}
    \cup {[name |-> "delete_policy", id |-> 1]}
MCBounds ==
    {[samples |-> 2, faults |-> 2, requests |-> 0, time |-> 2],
     [samples |-> 2, faults |-> 0, requests |-> 0, time |-> 3],
     [samples |-> 3, faults |-> 0, requests |-> 0, time |-> 1],
     [samples |-> 1, faults |-> 1, requests |-> 1, time |-> 2],
     [samples |-> 1, faults |-> 0, requests |-> 2, time |-> 1],
     [samples |-> 0, faults |-> 1, requests |-> 2, time |-> 1],
     [samples |-> 0, faults |-> 0, requests |-> 3, time |-> 1]}
MCContexts ==
    {[op |-> "ingest", signal |-> "traces", records |-> 1, bytes |-> 1],
     [op |-> "query", signal |-> "traces", records |-> 0, bytes |-> 1, start |-> -1, end |-> 1]}
=============================================================================
