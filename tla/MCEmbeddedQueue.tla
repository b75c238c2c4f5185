--------------------------- MODULE MCEmbeddedQueue ---------------------------
(***************************************************************************)
(* Instances of EmbeddedQueue for TLC: the queue and its sweeper each on   *)
(* its own, since they meet only in the stream and the settings.           *)
(***************************************************************************)
EXTENDS EmbeddedQueue

With(state, budget, window) == [state |-> state, doc |-> [budget |-> budget, window |-> window]]
Rejected == [state |-> "rejected", doc |-> None]
Gone == [state |-> "gone", doc |-> None]

\* The pair of streams found on disk: none, whole, at another budget, with a
\* stale duplicate window, split, or one parked rows keep from shrinking.
Found(cap, current, dlq, held) ==
    [ingest |-> TRUE, cap |-> cap, current |-> current, dlq |-> dlq, held |-> held]
Fresh == [ingest |-> FALSE, cap |-> 0, current |-> TRUE, dlq |-> 0, held |-> 0]
Pairs == {Fresh, Found(10, TRUE, 1, 0), Found(20, TRUE, 1, 0), Found(10, FALSE, 1, 0),
          Found(10, TRUE, 0, 0), Found(10, TRUE, 2, 2)}

\* A tenant is served at two budgets in turn, or goes; ...
Budgets == [tenant |-> With("served", 10, 0), disks |-> Pairs,
            settings |-> {With("served", 10, 0), With("served", 20, 0), Gone}, reloads |-> 2,
            live |-> {"queue"}, rows |-> 0, clock |-> 0]

\* ... five rows are swept; ...
Rows == [tenant |-> With("served", 10, 0), disks |-> {Fresh}, settings |-> {}, reloads |-> 0,
         live |-> {"sweep"}, rows |-> 5, clock |-> 1]

\* ... a folder that had not validated at boot is, and the window changes.
Windows == [tenant |-> Rejected, disks |-> {Fresh},
            settings |-> {With("served", 10, 1), With("served", 10, 2), Rejected, Gone}, reloads |-> 2,
            live |-> {"sweep"}, rows |-> 2, clock |-> 2]

MCScenes == [s \in {"budgets", "rows", "windows"} |->
    CASE s = "budgets" -> Budgets [] s = "rows" -> Rows [] s = "windows" -> Windows]
=============================================================================
