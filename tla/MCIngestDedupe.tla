--------------------------- MODULE MCIngestDedupe ---------------------------
(***************************************************************************)
(* Scenes of IngestDedupe for TLC.                                         *)
(***************************************************************************)
EXTENDS IngestDedupe, TLC

CONSTANTS c1, c2, a, b

Scene(windows, retentions, legacy, faults, obedient, time, submits, events) ==
    [windows |-> windows, retentions |-> retentions, legacy |-> legacy, faults |-> faults,
     obedient |-> obedient, time |-> time, budget |-> [submit |-> submits, event |-> events]]

\* One id, alone and repeated in a window; two ids met in opposite orders.
MCOneId == {<<a>>, <<a, a>>}
MCTwoIds == {<<a, b>>, <<b, a>>}
MCWindows == MCOneId \cup MCTwoIds

\* A takeover of a lapsed claim and a third caller after it, and the same
\* with a retention that passes the last instant; ...
Takeover == Scene(MCOneId, {2}, {a}, {"commit"}, FALSE, 3, 3, 1)
Overflow == Scene({<<a>>}, {6}, {}, {"commit"}, FALSE, 2, 2, 1)

\* ... two windows at once, with a switch off and on, or a failure and a
\* switch, around them; ...
Switched == Scene(MCTwoIds, {1}, {}, {"full", "read", "open"}, FALSE, 0, 2, 2)

\* ... obedient clients with one failure, or with one after another.  Their
\* retries meet the first request's claim halfway through its lease of two
\* ticks, and wait another lease.
Obedience(events) == Scene({<<a>>}, {0}, {}, {}, TRUE, 6, 4, events)

MCScenes == {Takeover, Overflow, Switched, Obedience(1)}
MCOutage == {Obedience(2)}

Symmetry == Permutations({c1, c2})
=============================================================================
