--------------------------- MODULE MCControlPlane ---------------------------
(***************************************************************************)
(* Instances of ControlPlane for TLC: one world for each consumer, since   *)
(* they meet only in the registry and the pools.                           *)
(***************************************************************************)
EXTENDS ControlPlane

Doc(at, user, open, wait, ins) ==
    [place |-> at, user |-> user, open |-> open, wait |-> wait, insert |-> ins]

\* Two sizes at p, two at q, another user's pool at p; and limits that fit
\* an ack wait of 4, do not, or would if their sum wrapped.
MCDocs ==
    [p1 |-> Doc("p", "u", 1, 1, 1), p3 |-> Doc("p", "u", 3, 1, 1),
     q1 |-> Doc("q", "u", 1, 1, 1), q2 |-> Doc("q", "u", 2, 2, 1),
     v2 |-> Doc("p", "v", 2, 1, 1),
     long |-> Doc("p", "u", 1, 2, 2), vast |-> Doc("p", "u", 1, 6, 6)]

Folders(f) ==
    [listed |-> TRUE, files |-> Absent, folders |-> f, loose |-> FALSE, stray |-> FALSE]

Flat(doc) ==
    [listed |-> TRUE, files |-> doc, folders |-> ("0" :> Absent), loose |-> FALSE, stray |-> FALSE]

World(ids, nested, boot, disks, n, live, ceiling, certs) ==
    [ids |-> ids, nested |-> nested, boot |-> boot, disks |-> disks, edits |-> n, live |-> live,
     ceiling |-> ceiling, unreadable |-> certs, ackWait |-> 4]

Both(x, y) == Folders([a |-> x, b |-> y])
Two(da, db) == {Both(x, y) : x \in da, y \in db}
Three(da, db, dc) == {Folders([a |-> x, b |-> y, c |-> z]) : x \in da, y \in db, z \in dc}

Instances == [
    \* Three tenants over three pools and a ceiling of 4.
    pools |-> World(<<"a", "b", "c">>, TRUE, Folders([a |-> "p1", b |-> "p1", c |-> Absent]),
        Three({"p1", "p3", "q2"}, {"p1", "p3", "q2", Absent}, {"q2", "v2", Absent}),
        2, {"reload"}, 4, {}),
    \* Folders that do not validate, roots that are refused, certificates
    \* that cannot be read.
    folders |-> World(<<"a", "b">>, TRUE, Both("p1", Bad),
        Two({"p1", "q1", Absent}, {"p1", Bad, Absent})
          \cup {[Both("p1", "q1") EXCEPT !.loose = TRUE], [Both("q1", Absent) EXCEPT !.stray = TRUE],
                [Both("p1", "p1") EXCEPT !.listed = FALSE], [Both(Absent, Absent) EXCEPT !.files = "p1"]},
        2, {"reload", "one"}, 0, {<<"q", "u">>}),
    discover |-> World(<<"a", "b">>, TRUE, Both("p1", Absent),
        Two({"p1", "q1", Absent}, {"p1", Absent}), 2, {"reload", "one", "discover"}, 0, {}),
    query |-> World(<<"a", "b">>, TRUE, Both("p1", "p1"),
        Two({"p1", "q1", Absent}, {"p1"}), 2, {"reload", "query", "insert"}, 0, {}),
    limits |-> World(<<"a", "b">>, TRUE, Both("p1", Absent),
        Two({"p1", "long", "vast", Absent}, {"q2", "long", Absent}), 2, {"reload", "limits"}, 0, {}),
    flat |-> World(<<"0">>, FALSE, Flat("p1"),
        {Flat("p1"), Flat("q1"), Flat(Bad), [Flat(Absent) EXCEPT !.listed = FALSE]},
        3, {"reload", "one"}, 0, {})]

MCWorlds == [w \in DOMAIN Instances |-> Instances[w]]
=============================================================================
