--------------------------- MODULE MCResultCache ---------------------------
(* The result cache on a small instance: one query over one table. *)
EXTENDS ResultCache, TLC

MCAsks == {[sql |-> "q", table |-> "t", deps |-> {<<"t", "">>}]}

\* The in-process cache; and the shared one, through an outage and a lost
\* reply while whole tables are written, or a lost reply while scopes are and
\* the tenant moves.
On(kind, inserts, moves, outage, loss) ==
    [backend |-> kind, inserts |-> inserts, moves |-> moves, faults |-> [outage |-> outage, loss |-> loss]]
MCScenes == [s \in {"local", "shared", "scoped"} |->
    CASE s = "local" -> On("local", {"", "s"}, 2, 0, 0)
      [] s = "shared" -> On("redis", {""}, 0, 1, 1)
      [] s = "scoped" -> On("redis", {"", "s"}, 2, 0, 1)]

\* The requests are interchangeable.
Alike == Permutations(Reqs)
=============================================================================
