-------------------------------- MODULE Pools --------------------------------
(***************************************************************************)
(* The ClickHouse pools of internal/chconn: one pool per identity (the     *)
(* address and database, and the credentials they are opened with), shared *)
(* by the tenants whose documents name it and sized to their largest ask,  *)
(* under a ceiling on the sizes together.                                  *)
(*                                                                         *)
(* A document is a name; Docs gives its clickhouse block and ingest        *)
(* limits.  "place" is the address and the database, "user" the rest of    *)
(* the identity (user, password, tls block), "open" is max_open_conns: the *)
(* idle size is left out, since no refusal depends on it.                  *)
(*                                                                         *)
(* A snapshot of the pools is [on, size]: the document applied for each    *)
(* tenant on a pool (None for a tenant on none), and the size of each open *)
(* pool.                                                                   *)
(***************************************************************************)
EXTENDS Naturals, FiniteSets, Sequences, SequencesExt, FiniteSetsExt

CONSTANT Docs   \* document name -> [place, user, open, wait, insert]

None == "none"

ASSUME DocsAssumption ==
    /\ None \notin DOMAIN Docs
    /\ \A doc \in DOMAIN Docs : Docs[doc].open \in Nat

Identity(doc) == <<Docs[doc].place, Docs[doc].user>>

\* The tenants of a snapshot, or of the walk below, on identity id, and what
\* they ask of it together.
members(w, id) == {t \in DOMAIN w.on : w.on[t] # None /\ Identity(w.on[t]) = id}

sizes(w, id) == Max({0} \cup {Docs[w.on[t]].open : t \in members(w, id)})

-----------------------------------------------------------------------------
(* One reconcile's walk: the snapshot being built, with the size each of   *)
(* its pools is planned to have.  A pool this walk emptied stays open      *)
(* until the walk is applied.  ok is whether the last placement was made,  *)
(* errs whether one was refused and stands to be reported.                 *)

\* Without the pools of the other identities.
fitsBug(w, id, s) == w.ceiling = 0 \/ s <= w.ceiling

fits(w, id, s) ==
    LET others == {o \in DOMAIN w.planned \ {id} : members(w, o) # {}}
    IN w.ceiling = 0 \/ s + SumFunctionOnSet(w.planned, others) <= w.ceiling

\* A pool is planned no larger than the tenants left on it ask.
shrink(w, id, s) == [w EXCEPT !.planned[id] = IF s <= @ THEN s ELSE @]

shrunk(w, id) == shrink(w, id, sizes(w, id))

leave(w, t) ==
    IF w.on[t] = None THEN w ELSE shrunk([w EXCEPT !.on[t] = None], Identity(w.on[t]))

refuse(w) == [w EXCEPT !.ok = FALSE, !.errs = TRUE]

opened(planned, id, s) == [i \in DOMAIN planned \cup {id} |-> IF i = id THEN s ELSE planned[i]]

\* A new pool is opened at the tenant's ask, which reads its certificate
\* files; an open one takes a tenant it is large enough for and grows for
\* another.
openPool(w, t, doc, id, s) ==
    IF fits(w, id, s) /\ id \notin w.unreadable
    THEN [w EXCEPT !.on[t] = doc, !.planned = opened(@, id, s), !.ok = TRUE]
    ELSE refuse(w)

sharePool(w, t, doc, id, s) ==
    IF s <= w.planned[id] \/ fits(w, id, s)
    THEN [w EXCEPT !.on[t] = doc, !.planned[id] = Max({@, s}), !.ok = TRUE]
    ELSE refuse(w)

join(w, t, doc) ==
    IF Identity(doc) \in DOMAIN w.planned
    THEN sharePool(w, t, doc, Identity(doc), Docs[doc].open)
    ELSE openPool(w, t, doc, Identity(doc), Docs[doc].open)

\* A refused growth that is not reported.
growToBug(w, id, s) ==
    IF s <= w.planned[id] \/ fits(w, id, s)
    THEN [w EXCEPT !.planned[id] = s, !.ok = TRUE]
    ELSE [w EXCEPT !.ok = TRUE]

growTo(w, id, s) ==
    IF s <= w.planned[id] \/ fits(w, id, s)
    THEN [w EXCEPT !.planned[id] = s, !.ok = TRUE]
    ELSE refuse(w)

grow(w, id) == growTo(w, id, sizes(w, id))

\* A tenant already on the pool has its document replaced there, even when
\* the pool cannot grow for it; a refused move leaves the walk as it was.
moved(w, j) == IF j.ok THEN j ELSE refuse(w)

place(w, t, doc) ==
    IF w.on[t] # None /\ Identity(w.on[t]) = Identity(doc)
    THEN grow([w EXCEPT !.on[t] = doc], Identity(doc))
    ELSE moved(w, join(leave(w, t), t, doc))

\* Places the tenants of want, a sequence of [tenant, doc], in turn, and
\* collects the refused ones.
collect(acc, m, v) ==
    [w |-> v, refused |-> IF v.ok THEN acc.refused ELSE Append(acc.refused, m)]

placeOne(acc, m) == collect(acc, m, place(acc.w, m.tenant, m.doc))

placeAll(w, want) == FoldLeft(placeOne, [w |-> w, refused |-> <<>>], want)

\* What was refused is placed once more; only what is refused then is
\* reported.
retry(first) == placeAll([first.w EXCEPT !.errs = FALSE], first.refused).w

leaveAll(w, ts) == FoldLeft(leave, w, SetToSeq(ts))

-----------------------------------------------------------------------------
NoPools(tenants) == [on |-> [t \in tenants |-> None], size |-> <<>>]

\* The tenants whose cached answers and schema are of other tables now.
staleOf(before, on) ==
    {t \in DOMAIN before : on[t] # None
        /\ (before[t] = None \/ Docs[before[t]].place # Docs[on[t]].place)}

\* The plan is applied: pools with no tenant are released, the others
\* resized.
apply(cur, w) ==
    [pools |-> [on |-> [t \in DOMAIN cur.on |-> w.on[t]],
                size |-> [id \in {i \in DOMAIN w.planned : members(w, i) # {}} |-> w.planned[id]]],
     stale |-> staleOf(cur.on, w.on),
     errs |-> w.errs]

walk(cur, ceiling, unreadable) ==
    [on |-> cur.on, planned |-> cur.size, ceiling |-> ceiling,
     unreadable |-> unreadable, ok |-> TRUE, errs |-> FALSE]

\* The tenants no longer wanted leave first, then the wanted ones are placed.
Reconcile(cur, want, ceiling, unreadable) ==
    apply(cur, retry(placeAll(leaveAll(walk(cur, ceiling, unreadable),
                                       DOMAIN cur.on \ {m.tenant : m \in ToSet(want)}),
                              want)))

\* The tables tenant t reads and writes: its pool's address and database.
Target(pools, t) == IF pools.on[t] = None THEN None ELSE Docs[pools.on[t]].place

SharingTables(pools, t) ==
    {u \in DOMAIN pools.on : Target(pools, t) # None /\ Target(pools, u) = Target(pools, t)}
=============================================================================
