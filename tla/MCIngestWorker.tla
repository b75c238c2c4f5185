--------------------------- MODULE MCIngestWorker ---------------------------
(***************************************************************************)
(* Instances of IngestWorker for TLC.                                      *)
(***************************************************************************)
EXTENDS IngestWorker, TLC

CONSTANTS g1, g2, g3, b1, p1, t1, t2

MCKind(m) == IF m = b1 THEN "bad" ELSE IF m = p1 THEN "poison" ELSE "good"

\* All of one table; two tables.
MCOneTable == [m \in Msgs |-> t1]
MCTwoTables == [m \in Msgs |-> IF m = g1 THEN t1 ELSE t2]

OneList == [m \in Msgs |-> "x"]
TwoLists == [m \in Msgs |-> IF m = g1 THEN "x" ELSE "y"]

\* g1 has a scope of its own, the rest none.
MCScope == [m \in Msgs |-> IF m = g1 THEN "s" ELSE ""]

MCKinds == [m \in Msgs |-> MCKind(m)]

\* A batch of two column lists, one of them refused in part, while the
\* process, an ack, a DLQ publish or a deadline may fail once; ...
Groups == [msgs |-> {g1, g2, b1}, cols |-> TwoLists, prefetch |-> 2,
           faults |-> {"crash", "ack", "dlq", "slow"}, maxFaults |-> 1]

\* ... a refused row, or a poison message, while the settings change.
Reloads(ms) == [msgs |-> ms, cols |-> OneList, prefetch |-> 1,
                faults |-> {"reload", "ack", "dlq"}, maxFaults |-> 2]

MCScenes == [s \in {"groups", "refused", "poison"} |->
    CASE s = "groups" -> Groups [] s = "refused" -> Reloads({g1, b1}) [] s = "poison" -> Reloads({g1, p1})]

\* A stop, asked for or forced by the queue: of two tables; ...
Stopped == [msgs |-> {g1, b1}, cols |-> OneList, prefetch |-> 1, faults |-> {"ack", "end"}, maxFaults |-> 1]

\* ... and of three rows of one table, when the handler waits for room in
\* msgChan, and route for room in the table's channel.
Crowded == [msgs |-> {g2, g3, b1}, cols |-> OneList, prefetch |-> 1, faults |-> {}, maxFaults |-> 0]

MCStop == [s \in {"stopped", "crowded"} |-> CASE s = "stopped" -> Stopped [] s = "crowded" -> Crowded]
=============================================================================
