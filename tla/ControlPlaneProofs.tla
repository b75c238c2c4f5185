------------------------- MODULE ControlPlaneProofs -------------------------
(***************************************************************************)
(* Proofs about the control plane, for any tenants, documents, directories *)
(* and reloads: what is answered and described is of the database a tenant *)
(* is on, what the worker applies fits the queue's ack wait, /livez tells  *)
(* the truth, the open pools fit the ceiling, and a reload recorded as     *)
(* adopted left every served tenant with the pool and limits it asks for.  *)
(*                                                                         *)
(* The first three hold whatever Reconcile decides: of it they use only    *)
(* that it reports a tenant stale whenever the tenant comes to a place it  *)
(* was not at.  The last two follow Reconcile through: WalkInv holds after *)
(* every tenant it places, so each of its folds is shown, over every       *)
(* prefix of what it folds, to keep WalkInv and what was placed before.    *)
(* AdoptInv then carries what Reconcile promised from the pools' hook to   *)
(* the end of the reload.                                                  *)
(***************************************************************************)
EXTENDS ControlPlane, FiniteSetTheorems, WellFoundedInduction, TLAPS

(***************************************************************************)
(* The shape of the state: the fields the steps write.                     *)
(***************************************************************************)
ReloadPcs == {"idle", "adopt", "pools", "drop", "orphan", "discover", "limits", "record"}
Loops == {"none", "idle", "reading", "reporting", "announcing"}

ReloadShape(r) ==
    /\ r = [pc |-> r.pc, trigger |-> r.trigger, whole |-> r.whole, docs |-> r.docs, errs |-> r.errs,
            todo |-> r.todo, stale |-> r.stale, failed |-> r.failed]
    /\ r.pc \in ReloadPcs

DiscShape(d) == d = [loop |-> d.loop, from |-> d.from, loaded |-> d.loaded] /\ d.loop \in Loops

QueryShape(q) == q = [pc |-> q.pc, fresh |-> q.fresh, at |-> q.at]

Over(f) == f = [t \in Tenants |-> f[t]]

Shape ==
    /\ world \in DOMAIN Worlds
    /\ ReloadShape(reload)
    /\ Over(pools.on)
    /\ Over(disc) /\ \A t \in Tenants : DiscShape(disc[t])
    /\ Over(answer)
    /\ Over(query) /\ \A t \in Tenants : QueryShape(query[t])

(***************************************************************************)
(* Stale tenants: a reload knows of some only from the pools' hook until   *)
(* each has been orphaned.                                                 *)
(***************************************************************************)
StaleInv == reload.pc \notin {"drop", "orphan"} => reload.stale = {}

(***************************************************************************)
(* A registry's schema, and the one a refresh under way will publish, are  *)
(* of the place its tenant is on; a stale tenant's may not be, until its   *)
(* registry is dropped.                                                    *)
(***************************************************************************)
Settled(t) == pools.on[t] # None /\ ~(reload.pc = "drop" /\ t \in reload.stale)

SchemaInv ==
    \A t \in Tenants : Settled(t) =>
        /\ disc[t].loaded # None => disc[t].loaded = Target(pools, t)
        /\ disc[t].loop = "reading" => disc[t].from = Target(pools, t)

(***************************************************************************)
(* An answer in reach, and one a query will store, were read at the place  *)
(* the tenant is on; a stale tenant's may not be, until it is orphaned.    *)
(***************************************************************************)
AnswerInv ==
    \A t \in Tenants \ reload.stale : pools.on[t] # None =>
        /\ answer[t] # None => answer[t] = Target(pools, t)
        /\ query[t].pc = "ran" /\ query[t].fresh => query[t].at = Target(pools, t)

PlaceInv == Shape /\ StaleInv /\ SchemaInv /\ AnswerInv

(***************************************************************************)
(* Documents: whatever a reload took of the directory, a store holds a     *)
(* document or nothing, and the limits in force are of one that passed.    *)
(***************************************************************************)
Adoptable == DOMAIN Docs \cup {Bad}

DocsInv ==
    /\ disk \in W.disks \cup {W.boot}
    /\ Over(store) /\ \A t \in Tenants : store[t] \in DOMAIN Docs \cup {None}
    /\ \A t \in reload.todo : t \in Tenants /\ reload.docs[t] \in Adoptable

LimitsInv ==
    \A t \in Tenants : limits[t] \in {None, Absent} \/ (limits[t] \in DOMAIN Docs /\ checkIngestLimits(limits[t]))

FitInv == PlaceInv /\ DocsInv /\ LimitsInv

(***************************************************************************)
(* /livez.  From the swap of the tenants until its hook has run, it may    *)
(* name a tenant that is gone.                                             *)
(***************************************************************************)
Swapped == {"pools", "drop", "orphan", "discover"}

LivezInv ==
    /\ livez \in Tenants /\ reload.pc \notin Swapped => Served(livez)
    /\ \A t \in Tenants : disc[t].loaded # None /\ disc[t].loop # "announcing" => livez = "ok"

LiveInv == PlaceInv /\ LivezInv

\* The world never changes, so neither do its tenants.
LEMMA SameWorld == ASSUME world' = world PROVE W' = W /\ Tenants' = Tenants
BY DEF W, Tenants, Ids

-----------------------------------------------------------------------------
(* Places: schemas and answers.                                            *)

\* A step of the settings or of the reload that leaves the pools, the
\* registries and the answers alone.
LEMMA PlaceStays ==
    ASSUME PlaceInv, UNCHANGED <<world, pools, disc, answer, query>>, ReloadShape(reload'),
           reload'.stale = reload.stale,
           reload.pc = "drop" => reload'.pc = "drop",
           reload'.pc \notin {"drop", "orphan"} => reload.stale = {}
    PROVE  PlaceInv'
<1>1. Tenants' = Tenants /\ Shape'
    BY SameWorld DEF PlaceInv, Shape, Over, DiscShape, QueryShape
<1>2. StaleInv'  BY DEF StaleInv
<1>3. SchemaInv'
    <2>1. \A t \in Tenants : Settled(t)' => Settled(t)  BY DEF Settled, PlaceInv, StaleInv
    <2> QED  BY <1>1, <2>1 DEF PlaceInv, SchemaInv, Target
<1>4. AnswerInv'  BY <1>1 DEF PlaceInv, AnswerInv, Target
<1> QED  BY <1>1, <1>2, <1>3, <1>4 DEF PlaceInv

\* A reload that is not at its hooks has no stale tenant.
LEMMA Fresh == ASSUME PlaceInv, reload.pc \notin {"drop", "orphan"} PROVE reload.stale = {}
BY DEF PlaceInv, StaleInv

\* A reload begins, or is rejected.
LEMMA BeginPlace ==
    ASSUME PlaceInv, reload.pc = "idle", UNCHANGED <<world, pools, disc, answer, query>>,
           \/ UNCHANGED reload
           \/ /\ ReloadShape(reload') /\ reload'.pc = "adopt" /\ reload'.stale = {}
    PROVE  PlaceInv'
<1>1. ReloadShape(reload) /\ reload.stale = {}  BY Fresh DEF PlaceInv, Shape
<1>2. CASE UNCHANGED reload  BY <1>1, <1>2, PlaceStays
<1>3. CASE ReloadShape(reload') /\ reload'.pc = "adopt" /\ reload'.stale = {}
    BY <1>1, <1>3, PlaceStays
<1> QED  BY <1>2, <1>3

\* What Begin makes of the reload.
LEMMA BeginShape ==
    ASSUME NEW trigger, NEW tree, Begin(trigger, tree)
    PROVE  \/ UNCHANGED reload
           \/ /\ ReloadShape(reload') /\ reload'.pc = "adopt" /\ reload'.stale = {}
              /\ reload'.docs = tree.docs /\ reload'.todo \subseteq Tenants
              /\ reload'.todo \subseteq DOMAIN tree.docs /\ tree.ok
BY DEF Begin, NoReload, ReloadShape, ReloadPcs

\* The settings' own steps leave every place alone.
LEMMA SettingsPlace ==
    ASSUME PlaceInv, UNCHANGED <<pools, disc, answer, query>>,
           \/ Edit
           \/ \E g \in Triggers : Reload(g)
           \/ \E t \in Tenants : ReloadTenant(t)
           \/ AdoptDoc \/ Swap \/ Record
           \/ Watching
    PROVE  PlaceInv'
<1>0. ReloadShape(reload) /\ reload.pc \in ReloadPcs  BY DEF PlaceInv, Shape, ReloadShape
<1>1. CASE Edit  BY <1>0, <1>1, PlaceStays, Fresh DEF Edit
<1>2. CASE Watching
    BY <1>0, <1>2, PlaceStays, Fresh DEF Watching, WatchDir, WatchParent, TakeEvent, TimerFires
<1>3. ASSUME NEW g \in Triggers, Reload(g)  PROVE PlaceInv'
    <2>1. reload.pc = "idle" /\ world' = world /\ Begin(g, treeOf(disk))  BY <1>3 DEF Reload
    <2> HIDE <1>3
    <2> QED  BY <2>1, BeginShape, BeginPlace
<1>4. ASSUME NEW t \in Tenants, ReloadTenant(t)  PROVE PlaceInv'
    <2>1. reload.pc = "idle" /\ world' = world  BY <1>4 DEF ReloadTenant
    <2>2. CASE ~W.nested
        <3>1. Begin("sighup", treeOf(disk))  BY <1>4, <2>2 DEF ReloadTenant
        <3> QED  BY <2>1, <3>1, BeginShape, BeginPlace
    <2>3. CASE W.nested
        <3>1. ReloadShape(reload') /\ reload'.pc = "adopt" /\ reload'.stale = {}
            BY <1>4, <2>3 DEF ReloadTenant, NoReload, ReloadShape, ReloadPcs
        <3> QED  BY <2>1, <3>1, BeginPlace
    <2> QED  BY <2>2, <2>3
<1>5. CASE AdoptDoc
    <2>1. PICK t \in reload.todo : reload' = [reload EXCEPT !.todo = @ \ {t}]  BY <1>5 DEF AdoptDoc
    <2>2. ReloadShape(reload') /\ reload'.stale = reload.stale /\ reload'.pc = reload.pc
        BY <1>0, <2>1 DEF ReloadShape
    <2> QED  BY <1>0, <1>5, <2>2, PlaceStays, Fresh DEF AdoptDoc
<1>6. CASE Swap
    <2>1. ReloadShape(reload') /\ reload'.stale = reload.stale /\ reload'.pc = "pools"
        BY <1>0, <1>6 DEF Swap, ReloadShape, ReloadPcs
    <2> QED  BY <1>0, <1>6, <2>1, PlaceStays, Fresh DEF Swap
<1>7. CASE Record
    <2>1. ReloadShape(reload') /\ reload'.stale = {} /\ reload'.pc = "idle"
        BY <1>7 DEF Record, NoReload, ReloadShape, ReloadPcs
    <2> QED  BY <1>0, <1>7, <2>1, PlaceStays, Fresh DEF Record
<1> QED  BY <1>1, <1>2, <1>3, <1>4, <1>5, <1>6, <1>7

\* A step of the registries or of the answers, with the pools and the reload
\* as they were.
LEMMA ConsumerPlace ==
    ASSUME PlaceInv, UNCHANGED <<world, pools, reload>>, Shape',
           \A t \in Tenants : Settled(t) =>
               /\ disc'[t].loaded # None => disc'[t].loaded = Target(pools, t)
               /\ disc'[t].loop = "reading" => disc'[t].from = Target(pools, t),
           \A t \in Tenants \ reload.stale : pools.on[t] # None =>
               /\ answer'[t] # None => answer'[t] = Target(pools, t)
               /\ query'[t].pc = "ran" /\ query'[t].fresh => query'[t].at = Target(pools, t)
    PROVE  PlaceInv'
<1>1. Tenants' = Tenants  BY SameWorld
<1>2. \A t : Target(pools', t) = Target(pools, t) /\ (Settled(t)' <=> Settled(t))
    BY DEF Target, Settled
<1>3. StaleInv' BY DEF PlaceInv, StaleInv
<1>4. SchemaInv'  BY <1>1, <1>2 DEF SchemaInv
<1>5. AnswerInv'  BY <1>1, <1>2 DEF AnswerInv
<1> QED  BY <1>3, <1>4, <1>5 DEF PlaceInv

\* A registry changes for one tenant.
LEMMA DiscPlace ==
    ASSUME PlaceInv, UNCHANGED <<world, pools, reload, answer, query>>,
           NEW t \in Tenants, NEW d, disc' = [disc EXCEPT ![t] = d], DiscShape(d),
           Settled(t) =>
               /\ d.loaded # None => d.loaded = Target(pools, t)
               /\ d.loop = "reading" => d.from = Target(pools, t)
    PROVE  PlaceInv'
<1>1. Over(disc) /\ \A u \in Tenants : DiscShape(disc[u])  BY DEF PlaceInv, Shape
<1>2. disc'[t] = d /\ \A u \in Tenants \ {t} : disc'[u] = disc[u]  BY <1>1 DEF Over
<1>3. Over(disc)'
    <2>1. DOMAIN disc = Tenants  BY <1>1 DEF Over
    <2>2. disc' = [u \in Tenants |-> disc'[u]]  BY <2>1
    <2> QED  BY <2>2, SameWorld DEF Over
<1>4. Shape'
    <2>1. \A u \in Tenants : DiscShape(disc[u])'  BY <1>1, <1>2 DEF DiscShape
    <2> QED  BY <1>3, <2>1, SameWorld DEF PlaceInv, Shape, Over, QueryShape
<1>5. \A u \in Tenants : Settled(u) =>
          /\ disc'[u].loaded # None => disc'[u].loaded = Target(pools, u)
          /\ disc'[u].loop = "reading" => disc'[u].from = Target(pools, u)
    BY <1>2 DEF PlaceInv, SchemaInv
<1> QED  BY <1>4, <1>5, ConsumerPlace DEF PlaceInv, AnswerInv

\* One field of a registry's record replaced.
LEMMA WithLoop ==
    ASSUME NEW d, d = [loop |-> d.loop, from |-> d.from, loaded |-> d.loaded], NEW x
    PROVE  [d EXCEPT !.loop = x] = [loop |-> x, from |-> d.from, loaded |-> d.loaded]
OBVIOUS

LEMMA WithFrom ==
    ASSUME NEW d, d = [loop |-> d.loop, from |-> d.from, loaded |-> d.loaded], NEW x
    PROVE  [d EXCEPT !.from = x] = [loop |-> d.loop, from |-> x, loaded |-> d.loaded]
OBVIOUS

\* A refresh takes the place of the pool, publishes what it read there, or
\* reports.
LEMMA RefreshPlace ==
    ASSUME PlaceInv, NEW t \in Tenants, RefreshStart(t) \/ RefreshEnd(t) \/ Report(t)
    PROVE  PlaceInv'
<1>0. disc[t] = [loop |-> disc[t].loop, from |-> disc[t].from, loaded |-> disc[t].loaded]
      /\ disc[t].loop \in Loops /\ DOMAIN disc = Tenants
    BY DEF PlaceInv, Shape, DiscShape, Over
<1>1. UNCHANGED <<world, pools, reload, answer, query>>
    BY DEF RefreshStart, RefreshEnd, Report, settings, caching
<1>2. Settled(t) => /\ disc[t].loaded # None => disc[t].loaded = Target(pools, t)
                    /\ disc[t].loop = "reading" => disc[t].from = Target(pools, t)
    BY DEF PlaceInv, SchemaInv
<1>3. CASE RefreshStart(t)
    <2> DEFINE from == Target(pools, t)
               d == [loop |-> IF from # None THEN "reading"
                              ELSE IF disc[t].loaded = None THEN "reporting" ELSE "idle",
                     from |-> from, loaded |-> disc[t].loaded]
    <2> DEFINE loop == IF from # None THEN "reading" ELSE IF disc[t].loaded = None THEN "reporting" ELSE "idle"
    <2>a. disc' = [disc EXCEPT ![t].from = from, ![t].loop = loop]  BY <1>3 DEF RefreshStart
    <2> HIDE DEF from, loop
    <2>0. disc' = [disc EXCEPT ![t] = [[disc[t] EXCEPT !.from = from] EXCEPT !.loop = loop]]
        <3> DEFINE e == [disc[t] EXCEPT !.from = from]
                   g == [disc EXCEPT ![t] = e]
        <3>1. disc' = [g EXCEPT ![t].loop = loop]  BY <2>a
        <3>2. g[t] = e /\ DOMAIN g = Tenants  BY <1>0
        <3>3. \A x : [g EXCEPT ![t] = x] = [disc EXCEPT ![t] = x]  BY <1>0
        <3> HIDE DEF e, g
        <3>4. disc' = [g EXCEPT ![t] = [g[t] EXCEPT !.loop = loop]]  BY <3>1
        <3> QED  BY <3>2, <3>3, <3>4 DEF e
    <2>1. disc' = [disc EXCEPT ![t] = d]
        <3> DEFINE e == [disc[t] EXCEPT !.from = from]
        <3>1. e = [loop |-> disc[t].loop, from |-> from, loaded |-> disc[t].loaded]
            BY <1>0, WithFrom
        <3> HIDE DEF e
        <3>2. [e EXCEPT !.loop = loop] = [loop |-> loop, from |-> from, loaded |-> disc[t].loaded]
            BY <3>1
        <3>3. d = [loop |-> loop, from |-> from, loaded |-> disc[t].loaded]  BY DEF loop
        <3> HIDE DEF d
        <3> QED  BY <2>0, <3>2, <3>3 DEF e
    <2>2. DiscShape(d) /\ d.loaded = disc[t].loaded /\ d.from = Target(pools, t)
        BY DEF DiscShape, Loops, from
    <2> HIDE DEF d
    <2> QED  BY <1>1, <1>2, <2>1, <2>2, DiscPlace
<1>4. CASE RefreshEnd(t)
    <2>1. disc[t].loop = "reading"  BY <1>4 DEF RefreshEnd
    <2> DEFINE d == [loop |-> IF disc[t].loaded = None THEN "announcing" ELSE "idle",
                     from |-> None, loaded |-> disc[t].from]
               e == [loop |-> IF disc[t].loaded = None THEN "reporting" ELSE "idle",
                     from |-> None, loaded |-> disc[t].loaded]
    <2>2. disc' = [disc EXCEPT ![t] = d] \/ disc' = [disc EXCEPT ![t] = e]
        BY <1>0, <1>4 DEF RefreshEnd
    <2>3. /\ DiscShape(d) /\ d.loaded = disc[t].from /\ d.loop # "reading"
          /\ DiscShape(e) /\ e.loaded = disc[t].loaded /\ e.loop # "reading"
        BY DEF DiscShape, Loops
    <2> HIDE DEF d, e
    <2> QED  BY <1>1, <1>2, <2>1, <2>2, <2>3, DiscPlace
<1>5. CASE Report(t)
    <2> DEFINE d == [loop |-> "idle", from |-> disc[t].from, loaded |-> disc[t].loaded]
    <2>0. disc' = [disc EXCEPT ![t] = [disc[t] EXCEPT !.loop = "idle"]]  BY <1>0, <1>5 DEF Report
    <2>1. disc' = [disc EXCEPT ![t] = d]  BY <1>0, <2>0, WithLoop
    <2>2. DiscShape(d) /\ d.loaded = disc[t].loaded /\ d.loop # "reading"  BY DEF DiscShape, Loops
    <2> HIDE DEF d
    <2> QED  BY <1>1, <1>2, <2>1, <2>2, DiscPlace
<1> QED  BY <1>3, <1>4, <1>5

\* Registries are dropped or made anew.
LEMMA RegistriesPlace ==
    ASSUME PlaceInv, UNCHANGED <<world, pools, answer, query>>, ReloadShape(reload'),
           reload'.stale = reload.stale,
           reload.pc \in {"drop", "discover"}, reload'.pc \in {"orphan", "limits"},
           reload.pc = "discover" => reload'.pc = "limits",
           reload.pc = "drop" => reload'.pc = "orphan",
           NEW new, new = [t \in Tenants |-> new[t]], disc' = new,
           \A t \in Tenants : new[t] \in {disc[t], NoRegistry, NewRegistry},
           reload.pc = "drop" => \A t \in Tenants \cap reload.stale : new[t] = NoRegistry
    PROVE  PlaceInv'
<1>1. Tenants' = Tenants  BY SameWorld
<1>2. DiscShape(NoRegistry) /\ DiscShape(NewRegistry)
      /\ \A d \in {NoRegistry, NewRegistry} : d.loaded = None /\ d.loop # "reading"
    BY DEF NoRegistry, NewRegistry, DiscShape, Loops
<1>3. \A t \in Tenants : DiscShape(disc[t])  BY DEF PlaceInv, Shape
<1>4. \A t \in Tenants : DiscShape(disc'[t])  BY <1>2, <1>3
<1>5. Shape'
    <2>1. Over(disc)'  BY <1>1 DEF Over
    <2>2. \A t \in Tenants : DiscShape(disc[t])'  BY <1>4 DEF DiscShape
    <2> QED  BY <1>1, <2>1, <2>2 DEF PlaceInv, Shape, Over, QueryShape
<1>6. StaleInv'
    BY Fresh DEF StaleInv
<1>7. SchemaInv'
    <2> SUFFICES ASSUME NEW t \in Tenants, pools.on[t] # None
                 PROVE  /\ disc'[t].loaded # None => disc'[t].loaded = Target(pools, t)
                        /\ disc'[t].loop = "reading" => disc'[t].from = Target(pools, t)
        BY <1>1 DEF SchemaInv, Settled, Target
    <2>1. CASE disc'[t] = disc[t] /\ Settled(t)  BY <2>1 DEF PlaceInv, SchemaInv
    <2>2. CASE disc'[t] \in {NoRegistry, NewRegistry}
        BY <1>2, <2>2
    <2>3. ~Settled(t) => disc'[t] = NoRegistry  BY DEF Settled
    <2> QED  BY <2>1, <2>2, <2>3
<1>8. AnswerInv'  BY <1>1 DEF PlaceInv, AnswerInv, Target
<1> QED  BY <1>5, <1>6, <1>7, <1>8 DEF PlaceInv

\* The moved tenants' registries are dropped before anything else follows;
\* the tenants no longer served lose theirs, new ones get one.
LEMMA HookRegistriesPlace == ASSUME PlaceInv, HookDrop \/ HookDiscover PROVE PlaceInv'
<1>0. ReloadShape(reload)  BY DEF PlaceInv, Shape
<1>1. CASE HookDrop
    <2> DEFINE new == [t \in Tenants |-> IF t \in reload.stale THEN NoRegistry ELSE disc[t]]
    <2>1. disc' = new /\ reload.pc = "drop" /\ UNCHANGED <<world, pools, answer, query>>
        BY <1>1 DEF HookDrop, caching
    <2>2. ReloadShape(reload') /\ reload'.pc = "orphan" /\ reload'.stale = reload.stale
        BY <1>0, <1>1 DEF HookDrop, ReloadShape, ReloadPcs
    <2>3. \A t \in Tenants : new[t] \in {disc[t], NoRegistry, NewRegistry}  OBVIOUS
    <2>4. \A t \in Tenants \cap reload.stale : new[t] = NoRegistry  OBVIOUS
    <2>5. new = [t \in Tenants |-> new[t]]  OBVIOUS
    <2> HIDE DEF new
    <2> QED  BY <2>1, <2>2, <2>3, <2>4, <2>5, RegistriesPlace
<1>2. CASE HookDiscover
    <2> DEFINE new == [t \in Tenants |-> IF ~Served(t) THEN NoRegistry
                                         ELSE IF disc[t] = NoRegistry THEN NewRegistry ELSE disc[t]]
    <2>1. disc' = new /\ reload.pc = "discover" /\ UNCHANGED <<world, pools, answer, query>>
        BY <1>2 DEF HookDiscover, caching
    <2>2. ReloadShape(reload') /\ reload'.pc = "limits" /\ reload'.stale = reload.stale
        BY <1>0, <1>2 DEF HookDiscover, ReloadShape, ReloadPcs
    <2>3. \A t \in Tenants : new[t] \in {disc[t], NoRegistry, NewRegistry}  OBVIOUS
    <2>4. new = [t \in Tenants |-> new[t]]  OBVIOUS
    <2> HIDE DEF new
    <2> QED  BY <2>1, <2>2, <2>3, <2>4, RegistriesPlace
<1> QED  BY <1>1, <1>2

\* A step of the answers and queries alone, tenant by tenant.
LEMMA CachePlace ==
    ASSUME PlaceInv, UNCHANGED <<world, pools, reload, disc>>,
           answer' = [t \in Tenants |-> answer'[t]], query' = [t \in Tenants |-> query'[t]],
           \A t \in Tenants :
               /\ QueryShape(query'[t])
               /\ \/ answer'[t] \in {None, answer[t]}
                  \/ query[t].pc = "ran" /\ query[t].fresh /\ answer'[t] = query[t].at
               /\ query'[t].pc = "ran" /\ query'[t].fresh =>
                     \/ query[t].pc = "ran" /\ query[t].fresh /\ query'[t].at = query[t].at
                     \/ query'[t].at = Target(pools, t)
    PROVE  PlaceInv'
<1>1. Tenants' = Tenants  BY SameWorld
<1>2. Shape'
    <2>1. \A t \in Tenants : QueryShape(query[t])'
        BY DEF QueryShape
    <2>2. Over(answer)' /\ Over(query)'  BY <1>1 DEF Over
    <2> QED  BY <1>1, <2>1, <2>2 DEF PlaceInv, Shape, Over, DiscShape
<1>3. \A t \in Tenants : Settled(t) =>
          /\ disc'[t].loaded # None => disc'[t].loaded = Target(pools, t)
          /\ disc'[t].loop = "reading" => disc'[t].from = Target(pools, t)
    BY DEF PlaceInv, SchemaInv
<1>4. ASSUME NEW t \in Tenants \ reload.stale, pools.on[t] # None
      PROVE  /\ answer'[t] # None => answer'[t] = Target(pools, t)
             /\ query'[t].pc = "ran" /\ query'[t].fresh => query'[t].at = Target(pools, t)
    <2>1. /\ answer[t] # None => answer[t] = Target(pools, t)
          /\ query[t].pc = "ran" /\ query[t].fresh => query[t].at = Target(pools, t)
        BY <1>4 DEF PlaceInv, AnswerInv
    <2> QED  BY <2>1
<1> QED  BY <1>2, <1>3, <1>4, ConsumerPlace

\* What the shape says of one tenant's answer and query.
LEMMA CacheShape ==
    ASSUME PlaceInv
    PROVE  /\ DOMAIN answer = Tenants /\ DOMAIN query = Tenants
           /\ answer = [t \in Tenants |-> answer[t]] /\ query = [t \in Tenants |-> query[t]]
           /\ \A t \in Tenants : QueryShape(query[t])
           /\ QueryShape(NoQuery)
BY DEF PlaceInv, Shape, Over, NoQuery, QueryShape

\* One field of a query or an answer replaced.
LEMMA QueryRecord ==
    ASSUME NEW q, q = [pc |-> q.pc, fresh |-> q.fresh, at |-> q.at], NEW x
    PROVE  /\ [q EXCEPT !.pc = x] = [pc |-> x, fresh |-> q.fresh, at |-> q.at]
           /\ [q EXCEPT !.fresh = x] = [pc |-> q.pc, fresh |-> x, at |-> q.at]
           /\ [q EXCEPT !.at = x] = [pc |-> q.pc, fresh |-> q.fresh, at |-> x]
OBVIOUS

LEMMA QueryWith ==
    ASSUME NEW q, QueryShape(q), NEW at
    PROVE  /\ LET r == [q EXCEPT !.pc = "ran", !.at = at] IN QueryShape(r) /\ r.at = at
           /\ LET r == [q EXCEPT !.pc = "pool", !.fresh = TRUE] IN QueryShape(r) /\ r.pc = "pool"
           /\ LET r == [q EXCEPT !.fresh = FALSE] IN QueryShape(r) /\ ~r.fresh
<1>1. q = [pc |-> q.pc, fresh |-> q.fresh, at |-> q.at]  BY DEF QueryShape
<1> DEFINE r1 == [q EXCEPT !.pc = "ran"]
           ran == [r1 EXCEPT !.at = at]
           r2 == [q EXCEPT !.pc = "pool"]
           new == [r2 EXCEPT !.fresh = TRUE]
           aged == [q EXCEPT !.fresh = FALSE]
<1>2. /\ r1 = [pc |-> "ran", fresh |-> q.fresh, at |-> q.at]
      /\ r2 = [pc |-> "pool", fresh |-> q.fresh, at |-> q.at]
      /\ aged = [pc |-> q.pc, fresh |-> FALSE, at |-> q.at]
    BY <1>1, QueryRecord
<1> SUFFICES /\ QueryShape(ran) /\ ran.at = at
             /\ QueryShape(new) /\ new.pc = "pool"
             /\ QueryShape(aged) /\ ~aged.fresh
    OBVIOUS
<1> HIDE DEF r1, r2
<1>3. QueryShape(r1) /\ QueryShape(r2)  BY <1>2 DEF QueryShape
<1>4. /\ ran = [pc |-> r1.pc, fresh |-> r1.fresh, at |-> at]
      /\ new = [pc |-> r2.pc, fresh |-> TRUE, at |-> r2.at]
    BY <1>3, QueryRecord DEF QueryShape
<1> HIDE DEF ran, new, aged
<1> QED  BY <1>2, <1>4 DEF QueryShape

\* One tenant's query moves, and may leave its answer.
LEMMA QueryMoves ==
    ASSUME PlaceInv, UNCHANGED <<world, pools, reload, disc>>, NEW t \in Tenants, NEW q, NEW a,
           query' = [query EXCEPT ![t] = q], QueryShape(q),
           answer' = [answer EXCEPT ![t] = a],
           a = answer[t] \/ (query[t].pc = "ran" /\ query[t].fresh /\ a = query[t].at),
           q.pc # "ran" \/ q.at = Target(pools, t)
    PROVE  PlaceInv'
<1>1. /\ query'[t] = q /\ answer'[t] = a /\ DOMAIN answer' = Tenants /\ DOMAIN query' = Tenants
      /\ \A u \in Tenants \ {t} : query'[u] = query[u] /\ answer'[u] = answer[u]
    BY CacheShape
<1>2. answer' = [u \in Tenants |-> answer'[u]] /\ query' = [u \in Tenants |-> query'[u]]  BY <1>1, CacheShape
<1>3. ASSUME NEW u \in Tenants
      PROVE  /\ QueryShape(query'[u])
             /\ \/ answer'[u] \in {None, answer[u]}
                \/ query[u].pc = "ran" /\ query[u].fresh /\ answer'[u] = query[u].at
             /\ query'[u].pc = "ran" /\ query'[u].fresh =>
                   \/ query[u].pc = "ran" /\ query[u].fresh /\ query'[u].at = query[u].at
                   \/ query'[u].at = Target(pools, u)
    <2>1. CASE u = t  BY <1>1, <2>1
    <2>2. CASE u # t  BY <1>1, <2>2, CacheShape
    <2> QED  BY <2>1, <2>2
<1> QED  BY <1>2, <1>3, CachePlace

\* A query begins, takes its pool, and stores what it read there.
LEMMA QueryPlace ==
    ASSUME PlaceInv, NEW t \in Tenants, QueryBegin(t) \/ QueryRun(t) \/ QueryStore(t)
    PROVE  PlaceInv'
<1>0. /\ UNCHANGED <<world, pools, reload, disc>>
      /\ answer = [answer EXCEPT ![t] = answer[t]]
      /\ query[t] = [pc |-> query[t].pc, fresh |-> query[t].fresh, at |-> query[t].at]
    BY CacheShape DEF QueryBegin, QueryRun, QueryStore, settings, discovery, QueryShape
<1>1. CASE QueryBegin(t)
    <2> DEFINE q == [NoQuery EXCEPT !.pc = "pool", !.fresh = TRUE]
    <2>1. query' = [query EXCEPT ![t] = q] /\ answer' = answer  BY <1>1 DEF QueryBegin
    <2>2. QueryShape(q) /\ q.pc = "pool"  BY CacheShape, QueryWith
    <2> HIDE DEF q
    <2> QED  BY <1>0, <2>1, <2>2, QueryMoves
<1>2. CASE QueryRun(t)
    <2>1. answer' = answer  BY <1>2 DEF QueryRun
    <2> DEFINE at == Target(pools, t)
               e == [query[t] EXCEPT !.pc = "ran", !.at = at]
               q == IF at = None THEN NoQuery ELSE e
    <2>2. query' = [query EXCEPT ![t] = q]  BY <1>2, CacheShape DEF QueryRun
    <2> HIDE DEF at
    <2>3. QueryShape(e) /\ e.at = at
        <3>1. QueryShape(query[t])  BY CacheShape
        <3>2. \A x, y : QueryShape(x) => /\ QueryShape([x EXCEPT !.pc = "ran", !.at = y])
                                        /\ [x EXCEPT !.pc = "ran", !.at = y].at = y
            BY QueryWith
        <3> QED  BY <3>1, <3>2, Zenon
    <2>4. QueryShape(q) /\ (q.pc # "ran" \/ q.at = Target(pools, t))
        BY <2>3, CacheShape DEF NoQuery, at
    <2> HIDE DEF q
    <2> QED  BY <1>0, <2>1, <2>2, <2>4, QueryMoves
<1>3. CASE QueryStore(t)
    <2>1. query' = [query EXCEPT ![t] = NoQuery] /\ query[t].pc = "ran" /\ NoQuery.pc # "ran"
        BY <1>3 DEF QueryStore, NoQuery
    <2> DEFINE a == query[t].at
    <2>2. a = query[t].at  OBVIOUS
    <2>3. \/ query[t].fresh /\ answer' = [answer EXCEPT ![t] = a]
          \/ ~query[t].fresh /\ answer' = answer
        BY <1>3 DEF QueryStore
    <2> HIDE DEF a
    <2> QED  BY <1>0, <2>1, <2>2, <2>3, QueryMoves, CacheShape
<1> QED  BY <1>1, <1>2, <1>3

\* What a bump leaves of answers and queries.
LEMMA Bumped ==
    ASSUME PlaceInv, NEW ts, Bump(ts)
    PROVE  /\ answer' = [t \in Tenants |-> answer'[t]] /\ query' = [t \in Tenants |-> query'[t]]
           /\ \A t \in Tenants :
                 /\ QueryShape(query'[t])
                 /\ t \in ts => answer'[t] = None /\ ~query'[t].fresh
                 /\ t \notin ts => answer'[t] = answer[t] /\ query'[t] = query[t]
<1>1. answer' = [t \in Tenants |-> answer'[t]] /\ query' = [t \in Tenants |-> query'[t]]  BY DEF Bump
<1>2. ASSUME NEW t \in Tenants
      PROVE  /\ QueryShape(query'[t])
             /\ t \in ts => answer'[t] = None /\ ~query'[t].fresh
             /\ t \notin ts => answer'[t] = answer[t] /\ query'[t] = query[t]
    <2>1. /\ answer'[t] = IF t \in ts THEN None ELSE answer[t]
          /\ query'[t] = IF t \in ts THEN [query[t] EXCEPT !.fresh = FALSE] ELSE query[t]
        BY DEF Bump
    <2>2. QueryShape([query[t] EXCEPT !.fresh = FALSE]) /\ ~[query[t] EXCEPT !.fresh = FALSE].fresh
        BY CacheShape, QueryWith
    <2> QED  BY <2>1, <2>2, CacheShape
<1> QED  BY <1>1, <1>2

\* An insert leaves answers alone, its invalidation forgets them.
LEMMA InsertPlace == ASSUME PlaceInv, NEW t \in Tenants, Insert(t) \/ Invalidate(t) PROVE PlaceInv'
<1>0. UNCHANGED <<world, pools, reload, disc>>  BY DEF Insert, Invalidate, settings, discovery
<1>1. CASE Insert(t)
    <2>1. answer' = answer /\ query' = query  BY <1>1 DEF Insert
    <2>2. answer' = [u \in Tenants |-> answer'[u]] /\ query' = [u \in Tenants |-> query'[u]]
        BY <2>1, CacheShape
    <2>3. \A u \in Tenants :
               /\ QueryShape(query'[u])
               /\ \/ answer'[u] \in {None, answer[u]}
                  \/ query[u].pc = "ran" /\ query[u].fresh /\ answer'[u] = query[u].at
               /\ query'[u].pc = "ran" /\ query'[u].fresh =>
                     \/ query[u].pc = "ran" /\ query[u].fresh /\ query'[u].at = query[u].at
                     \/ query'[u].at = Target(pools, u)
        BY <2>1, CacheShape
    <2> QED  BY <1>0, <2>2, <2>3, CachePlace
<1>2. CASE Invalidate(t)
    <2>1. PICK ts : Bump(ts)  BY <1>2 DEF Invalidate
    <2>2. \A u \in Tenants :
               /\ QueryShape(query'[u])
               /\ \/ answer'[u] \in {None, answer[u]}
                  \/ query[u].pc = "ran" /\ query[u].fresh /\ answer'[u] = query[u].at
               /\ query'[u].pc = "ran" /\ query'[u].fresh =>
                     \/ query[u].pc = "ran" /\ query[u].fresh /\ query'[u].at = query[u].at
                     \/ query'[u].at = Target(pools, u)
        BY <2>1, Bumped
    <2>3. answer' = [u \in Tenants |-> answer'[u]] /\ query' = [u \in Tenants |-> query'[u]]  BY <2>1, Bumped
    <2> QED  BY <1>0, <2>2, <2>3, CachePlace
<1> QED  BY <1>1, <1>2

\* The hooks move the reload's pc, its stale tenants and its failure.
LEMMA ReloadWith ==
    ASSUME NEW r, ReloadShape(r), NEW x, NEW y, NEW pc \in ReloadPcs
    PROVE  /\ ReloadShape([r EXCEPT !.stale = x]) /\ [r EXCEPT !.stale = x].stale = x
           /\ [r EXCEPT !.stale = x].pc = r.pc
           /\ ReloadShape([r EXCEPT !.failed = y]) /\ [r EXCEPT !.failed = y].pc = r.pc
           /\ [r EXCEPT !.failed = y].stale = r.stale
           /\ ReloadShape([r EXCEPT !.pc = pc]) /\ [r EXCEPT !.pc = pc].pc = pc
           /\ [r EXCEPT !.pc = pc].stale = r.stale
BY DEF ReloadShape

LEMMA StaleWith ==
    \A r, x : ReloadShape(r) => /\ ReloadShape([r EXCEPT !.stale = x]) /\ [r EXCEPT !.stale = x].stale = x
                               /\ [r EXCEPT !.stale = x].pc = r.pc
<1> SUFFICES ASSUME NEW r, NEW x, ReloadShape(r)
             PROVE  /\ ReloadShape([r EXCEPT !.stale = x]) /\ [r EXCEPT !.stale = x].stale = x
                    /\ [r EXCEPT !.stale = x].pc = r.pc
    BY Zenon
<1> QED  BY DEF ReloadShape

\* What a reconcile reports: who was placed, and who is elsewhere now.
LEMMA ReconcilePlace ==
    ASSUME NEW cur, NEW want, NEW ceiling, NEW unread, NEW r, r = Reconcile(cur, want, ceiling, unread)
    PROVE  /\ r.pools.on = [t \in DOMAIN cur.on |-> r.pools.on[t]]
           /\ \A t \in DOMAIN cur.on \ r.stale : r.pools.on[t] # None =>
                 cur.on[t] # None /\ Docs[r.pools.on[t]].place = Docs[cur.on[t]].place
<1> DEFINE w == retry(placeAll(leaveAll(walk(cur, ceiling, unread),
                                        DOMAIN cur.on \ {m.tenant : m \in ToSet(want)}), want))
<1>1. r = apply(cur, w)  BY DEF Reconcile
<1> HIDE DEF w
<1>2. r.pools.on = [t \in DOMAIN cur.on |-> w.on[t]] /\ r.stale = staleOf(cur.on, w.on)
    BY <1>1 DEF apply
<1> QED  BY <1>2 DEF staleOf

\* The pools' hook: a tenant it does not report is where it was.
LEMMA HookPoolsPlace == ASSUME PlaceInv, HookPools PROVE PlaceInv'
<1>1. PICK r : /\ r = Reconcile(pools, Members, W.ceiling, unreadable)
               /\ pools' = r.pools
               /\ reload' = [reload EXCEPT !.pc = "drop", !.stale = r.stale, !.failed = r.errs]
    BY DEF HookPools
<1>2. /\ pools'.on = [t \in DOMAIN pools.on |-> pools'.on[t]]
      /\ \A t \in DOMAIN pools.on \ r.stale : pools'.on[t] # None =>
            pools.on[t] # None /\ Docs[pools'.on[t]].place = Docs[pools.on[t]].place
    BY <1>1, ReconcilePlace
<1>3. DOMAIN pools.on = Tenants /\ ReloadShape(reload)  BY DEF PlaceInv, Shape, Over
<1>4. reload.pc = "pools" /\ reload.stale = {} /\ UNCHANGED <<world, disc, answer, query>>
    BY Fresh DEF HookPools, discovery, caching
<1>5. Tenants' = Tenants  BY <1>4, SameWorld
<1>6. ReloadShape(reload') /\ reload'.pc = "drop" /\ reload'.stale = r.stale
    <2> DEFINE a == [reload EXCEPT !.pc = "drop"]
               b == [a EXCEPT !.stale = r.stale]
    <2>1. "drop" \in ReloadPcs  BY DEF ReloadPcs
    <2>2. ReloadShape(a) /\ a.pc = "drop"  BY <1>3, <2>1, ReloadWith
    <2>3. reload' = [b EXCEPT !.failed = r.errs]  BY <1>1
    <2> HIDE DEF a
    <2>4. ReloadShape(b) /\ b.pc = "drop" /\ b.stale = r.stale  BY <2>2, StaleWith, Zenon
    <2> HIDE DEF b
    <2> QED  BY <2>1, <2>3, <2>4, ReloadWith
<1>7. Shape'
    BY <1>2, <1>3, <1>4, <1>5, <1>6 DEF PlaceInv, Shape, Over, DiscShape, QueryShape
<1>8. StaleInv'  BY <1>6 DEF StaleInv
<1>9. ASSUME NEW t \in Tenants \ r.stale, pools'.on[t] # None
      PROVE  pools.on[t] # None /\ Target(pools', t) = Target(pools, t)
    BY <1>2, <1>3, <1>9 DEF Target
<1>10. SchemaInv'
    <2> SUFFICES ASSUME NEW t \in Tenants \ r.stale, pools'.on[t] # None
                 PROVE  /\ disc[t].loaded # None => disc[t].loaded = Target(pools', t)
                        /\ disc[t].loop = "reading" => disc[t].from = Target(pools', t)
        BY <1>4, <1>5, <1>6 DEF SchemaInv, Settled, Target
    <2>1. Settled(t)  BY <1>4, <1>9 DEF Settled
    <2> QED  BY <1>9, <2>1 DEF PlaceInv, SchemaInv
<1>11. AnswerInv'
    <2> SUFFICES ASSUME NEW t \in Tenants \ r.stale, pools'.on[t] # None
                 PROVE  /\ answer[t] # None => answer[t] = Target(pools', t)
                        /\ query[t].pc = "ran" /\ query[t].fresh => query[t].at = Target(pools', t)
        BY <1>4, <1>5, <1>6 DEF AnswerInv, Target
    <2> QED  BY <1>4, <1>9 DEF PlaceInv, AnswerInv
<1> QED  BY <1>7, <1>8, <1>10, <1>11 DEF PlaceInv

\* A stale tenant is orphaned: its answers are out of reach.
LEMMA HookOrphanPlace == ASSUME PlaceInv, HookOrphan PROVE PlaceInv'
<1>0. /\ ReloadShape(reload) /\ reload.pc = "orphan" /\ UNCHANGED <<world, pools, disc>>
    BY DEF HookOrphan, PlaceInv, Shape, discovery
<1>1. CASE \E t \in reload.stale : Bump({t}) /\ reload' = [reload EXCEPT !.stale = @ \ {t}]
    <2>1. PICK t \in reload.stale : Bump({t}) /\ reload' = [reload EXCEPT !.stale = @ \ {t}]  BY <1>1
    <2>2. Tenants' = Tenants  BY <1>0, SameWorld
    <2>3. ReloadShape(reload') /\ reload'.pc = "orphan" /\ reload'.stale = reload.stale \ {t}
        <3> DEFINE x == reload.stale \ {t}
        <3>1. reload' = [reload EXCEPT !.stale = x]  BY <2>1
        <3> HIDE DEF x
        <3>2. ReloadShape(reload') /\ reload'.stale = x /\ reload'.pc = reload.pc
            BY <1>0, <3>1, StaleWith, Zenon
        <3> QED  BY <1>0, <3>2 DEF x
    <2>4. /\ answer' = [u \in Tenants |-> answer'[u]] /\ query' = [u \in Tenants |-> query'[u]]
          /\ \A u \in Tenants :
                /\ QueryShape(query'[u])
                /\ u = t => answer'[u] = None /\ ~query'[u].fresh
                /\ u # t => answer'[u] = answer[u] /\ query'[u] = query[u]
        BY <2>1, Bumped
    <2>5. Shape'
        <3>1. \A u \in Tenants : QueryShape(query[u])'
            BY <2>4 DEF QueryShape
        <3>2. Over(answer)' /\ Over(query)'  BY <2>2, <2>4 DEF Over
        <3> QED  BY <1>0, <2>2, <2>3, <3>1, <3>2 DEF PlaceInv, Shape, Over, DiscShape
    <2>6. StaleInv'  BY <2>3 DEF StaleInv
    <2>7. SchemaInv'  BY <1>0, <2>2, <2>3 DEF PlaceInv, SchemaInv, Settled, Target
    <2>8. AnswerInv'
        <3> SUFFICES ASSUME NEW u \in Tenants, u \notin reload.stale \ {t}, pools.on[u] # None
                     PROVE  /\ answer'[u] # None => answer'[u] = Target(pools, u)
                            /\ query'[u].pc = "ran" /\ query'[u].fresh => query'[u].at = Target(pools, u)
            BY <1>0, <2>2, <2>3 DEF AnswerInv, Target
        <3>1. CASE u = t  BY <2>4, <3>1
        <3>2. CASE u # t  BY <2>4, <3>2 DEF PlaceInv, AnswerInv
        <3> QED  BY <3>1, <3>2
    <2> QED  BY <2>5, <2>6, <2>7, <2>8 DEF PlaceInv
<1>2. CASE reload.stale = {} /\ reload' = [reload EXCEPT !.pc = "discover"] /\ UNCHANGED <<answer, query>>
    <2>1. ReloadShape(reload') /\ reload'.pc = "discover" /\ reload'.stale = reload.stale
        BY <1>0, <1>2 DEF ReloadShape, ReloadPcs
    <2> QED  BY <1>0, <1>2, <2>1, PlaceStays
<1> QED  BY <1>0, <1>1, <1>2 DEF HookOrphan

\* The rest leave every place alone.
LEMMA OthersPlace ==
    ASSUME PlaceInv, \/ HookLimits \/ Certificates \/ RetiredEnds \/ \E t \in Tenants : LimitsFor(t)
                     \/ UNCHANGED vars
    PROVE  PlaceInv'
<1>0. ReloadShape(reload)  BY DEF PlaceInv, Shape
<1>1. CASE HookLimits
    <2>1. reload.pc = "limits" /\ reload.stale = {} /\ UNCHANGED <<world, pools, disc, answer, query>>
        BY <1>1, Fresh DEF HookLimits, discovery, caching
    <2>2. ReloadShape(reload') /\ reload'.stale = reload.stale /\ reload'.pc = "record"
        <3> DEFINE a == [reload EXCEPT !.pc = "record"]
        <3>1. PICK y : reload' = [a EXCEPT !.failed = y]  BY <1>1 DEF HookLimits
        <3>2. "record" \in ReloadPcs  BY DEF ReloadPcs
        <3>3. ReloadShape(a) /\ a.pc = "record" /\ a.stale = reload.stale  BY <1>0, <3>2, ReloadWith
        <3> HIDE DEF a
        <3> QED  BY <3>1, <3>2, <3>3, ReloadWith
    <2> QED  BY <2>1, <2>2, PlaceStays
<1>2. CASE Certificates \/ RetiredEnds \/ (\E t \in Tenants : LimitsFor(t)) \/ UNCHANGED vars
    <2>1. UNCHANGED <<world, pools, disc, answer, query, reload>>
        BY <1>2 DEF Certificates, RetiredEnds, LimitsFor, vars, settings, discovery, caching
    <2> QED  BY <1>0, <2>1, PlaceStays, Fresh
<1> QED  BY <1>1, <1>2

\* The directory's first reconcile puts every tenant where it was not, with a
\* schema, if any, of that place, and no answer.
LEMMA PlaceInit == ASSUME Init PROVE PlaceInv
<1>1. PICK r : r = Reconcile(NoPools(Tenants), Members, W.ceiling, W.unreadable) /\ pools = r.pools
    BY DEF Init
<1>2. DOMAIN NoPools(Tenants).on = Tenants  BY DEF NoPools
<1>3. Over(pools.on)  BY <1>1, <1>2, ReconcilePlace DEF Over
<1>4. ReloadShape(reload) /\ reload.stale = {} /\ reload.pc = "idle"
    BY DEF Init, NoReload, ReloadShape, ReloadPcs
<1>5. /\ Over(disc)
      /\ \A t \in Tenants : /\ DiscShape(disc[t]) /\ disc[t].loop # "reading"
                            /\ disc[t].loaded \in {None, Target(pools, t)}
    <2>1. CASE disc = [t \in Tenants |-> IF Served(t) THEN NewRegistry ELSE NoRegistry]
        BY <2>1 DEF Over, DiscShape, NewRegistry, NoRegistry, Loops
    <2>2. CASE disc = [t \in Tenants |-> [NewRegistry EXCEPT !.loaded = Target(pools, t)]]
        BY <2>2 DEF Over, DiscShape, NewRegistry, Loops
    <2> QED  BY <2>1, <2>2 DEF Init
<1>6. /\ Over(answer) /\ \A t \in Tenants : answer[t] = None
      /\ Over(query) /\ \A t \in Tenants : QueryShape(query[t]) /\ query[t].pc # "ran"
    BY DEF Init, Over, QueryShape, NoQuery
<1>7. Shape  BY <1>3, <1>4, <1>5, <1>6 DEF Shape, Init
<1>8. StaleInv  BY <1>4 DEF StaleInv
<1>9. SchemaInv  BY <1>5 DEF SchemaInv
<1>10. AnswerInv  BY <1>6 DEF AnswerInv
<1> QED  BY <1>7, <1>8, <1>9, <1>10 DEF PlaceInv

\* Every step keeps the places.
LEMMA PlaceNext == PlaceInv /\ [Next]_vars => PlaceInv'
<1> SUFFICES ASSUME PlaceInv, [Next]_vars  PROVE PlaceInv'  OBVIOUS
<1>1. CASE UNCHANGED vars  BY <1>1, OthersPlace
<1>2. CASE UNCHANGED consumers /\ (\/ Edit \/ (\E g \in Triggers : Reload(g))
                                  \/ (\E t \in Tenants : ReloadTenant(t)) \/ AdoptDoc \/ Swap \/ Record)
    <2>1. UNCHANGED <<pools, disc, answer, query>>  BY <1>2 DEF consumers, discovery, caching
    <2> QED  BY <1>2, <2>1, SettingsPlace
<1>3. CASE Watching /\ UNCHANGED <<pools, disc, answer, query>>  BY <1>3, SettingsPlace
<1>4. CASE Hooks
    BY <1>4, HookPoolsPlace, HookRegistriesPlace, HookOrphanPlace, OthersPlace DEF Hooks
<1>5. ASSUME NEW t \in Tenants,
             \/ RefreshStart(t) \/ RefreshEnd(t) \/ Report(t) \/ LimitsFor(t)
             \/ QueryBegin(t) \/ QueryRun(t) \/ QueryStore(t) \/ Insert(t) \/ Invalidate(t)
      PROVE  PlaceInv'
    BY <1>5, RefreshPlace, QueryPlace, InsertPlace, OthersPlace
<1>6. CASE Certificates \/ RetiredEnds  BY <1>6, OthersPlace
<1>7. CASE WatchReload
    <2>1. Reload("watch") /\ UNCHANGED consumers /\ "watch" \in Triggers  BY <1>7 DEF WatchReload, Triggers
    <2> QED  BY <1>2, <2>1
<1>8. CASE Reloading  BY <1>2, <1>4, <1>8 DEF Reloading
<1>9. CASE Watching
    BY <1>3, <1>9 DEF Watching, consumers, discovery, caching
<1> QED
    BY <1>1, <1>2, <1>5, <1>6, <1>7, <1>8, <1>9 DEF Next

\* PlaceInv is an invariant of the specification.
LEMMA PlaceHolds == Spec => []PlaceInv
<1>1. Init => PlaceInv  BY PlaceInit
<1> QED  BY <1>1, PlaceNext, PTL DEF Spec

\* A tenant's schema is of the database its queries and inserts run against,
\* also when a refresh of the old one was in flight when the tenant moved
\* (discoveries.drop).
THEOREM SchemaFollows == Spec => []SchemaOfThePool
<1>1. PlaceInv => SchemaOfThePool  BY DEF PlaceInv, SchemaInv, SchemaOfThePool, Settled
<1> QED  BY <1>1, PlaceHolds, PTL

\* No answer in reach was read from a database its tenant has left, however
\* the reload's hooks meet a query under way (wireClickHouse's hook order).
THEOREM AnswersFollow == Spec => []AnswersOfThePool
<1>1. PlaceInv => AnswersOfThePool  BY DEF PlaceInv, AnswerInv, AnswersOfThePool
<1> QED  BY <1>1, PlaceHolds, PTL

-----------------------------------------------------------------------------
(* Limits.                                                                 *)

\* What a folder holds can be adopted, or is an error or absent.
LEMMA DiskContents ==
    ASSUME Shape, DocsInv
    PROVE  disk.files \in Contents /\ disk.folders \in [Tenants -> Contents]
BY WorldsAssumption DEF Shape, DocsInv, W, Tenants, Ids

\* A pass over the directory finds, for each folder, a document or an error.
LEMMA TreeDocs ==
    ASSUME Shape, DocsInv, treeOf(disk).ok, NEW t \in DOMAIN treeOf(disk).docs
    PROVE  treeOf(disk).docs[t] \in Adoptable
<1>1. disk.files \in Contents /\ disk.folders \in [Tenants -> Contents]  BY DiskContents
<1>2. CASE W.nested /\ emptyRoot(disk)  BY <1>2 DEF treeOf
<1>3. CASE ~(W.nested /\ emptyRoot(disk))
    <2>1. treeOf(disk) = Validate(disk) \/ treeOf(disk) = NoTree  BY <1>3 DEF treeOf
    <2>2. treeOf(disk) # NoTree  BY DEF NoTree
    <2>3. treeOf(disk) = Validate(disk)  BY <2>1, <2>2
    <2>4. CASE ~disk.listed  BY <2>2, <2>3, <2>4 DEF Validate
    <2>5. CASE disk.listed /\ (disk.files # Absent \/ (folders(disk) = {} /\ ~disk.stray))
        <3>1. PICK doc \in {Bad, disk.files} : /\ Validate(disk).docs = [u \in {Default} |-> doc]
                                               /\ disk.files = Absent => doc = Bad
            BY <2>5 DEF Validate
        <3>2. doc \in Adoptable  BY <1>1, <3>1 DEF Adoptable, Contents
        <3> QED  BY <2>3, <3>1, <3>2
    <2>6. CASE disk.listed /\ ~(disk.files # Absent \/ (folders(disk) = {} /\ ~disk.stray))
        <3>1. Validate(disk).docs = [u \in folders(disk) |-> disk.folders[u]]  BY <2>6 DEF Validate
        <3>2. \A u \in folders(disk) : disk.folders[u] \in Adoptable  BY <1>1 DEF folders, Adoptable, Contents
        <3> QED  BY <2>3, <3>1, <3>2
    <2> QED  BY <2>4, <2>5, <2>6
<1> QED  BY <1>2, <1>3

\* The limits reconciled for a tenant passed the check, or are kept.
LEMMA ReconciledFit ==
    ASSUME DocsInv, LimitsInv, NEW t \in Tenants
    PROVE  \/ reconciledLimits[t] \in {None, Absent}
           \/ reconciledLimits[t] \in DOMAIN Docs /\ checkIngestLimits(reconciledLimits[t])
<1>1. store[t] \in DOMAIN Docs \cup {None}  BY DEF DocsInv
<1>2. limits[t] \in {None, Absent} \/ (limits[t] \in DOMAIN Docs /\ checkIngestLimits(limits[t]))
    BY DEF LimitsInv
<1> DEFINE n == IF ~Served(t) THEN Absent
                ELSE IF checkIngestLimits(store[t]) THEN store[t]
                ELSE IF limits[t] = Absent THEN None ELSE limits[t]
<1>3. reconciledLimits[t] = n  BY DEF reconciledLimits
<1>4. \/ n \in {None, Absent} \/ (n \in DOMAIN Docs /\ checkIngestLimits(n))
    <2>1. CASE ~Served(t)  BY <2>1
    <2>2. CASE Served(t) /\ checkIngestLimits(store[t])
        <3>1. n = store[t]  BY <2>2
        <3> HIDE DEF n
        <3> QED  BY <1>1, <2>2, <3>1
    <2>3. CASE Served(t) /\ ~checkIngestLimits(store[t])
        <3>1. n = None \/ n = limits[t]  BY <2>3
        <3> HIDE DEF n
        <3> QED  BY <1>2, <3>1
    <2> QED  BY <2>1, <2>2, <2>3
<1> HIDE DEF n
<1> QED  BY <1>3, <1>4

\* A step that leaves the limits, or reconciles them.
LEMMA LimitsKept ==
    ASSUME DocsInv, LimitsInv, world' = world, limits' = limits \/ limits' = reconciledLimits
    PROVE  LimitsInv'
<1>1. \A doc : checkIngestLimits(doc)' <=> checkIngestLimits(doc)  BY SameWorld DEF checkIngestLimits
<1>2. Tenants' = Tenants  BY SameWorld
<1>3. CASE limits' = limits  BY <1>1, <1>2, <1>3 DEF LimitsInv
<1>4. CASE limits' = reconciledLimits
    <2>1. \A t \in Tenants : \/ reconciledLimits[t] \in {None, Absent}
                             \/ reconciledLimits[t] \in DOMAIN Docs /\ checkIngestLimits(reconciledLimits[t])
        BY ReconciledFit
    <2>2. \A t \in Tenants : limits'[t] \in {None, Absent} \/ (limits'[t] \in DOMAIN Docs /\ checkIngestLimits(limits'[t]))
        BY <1>4, <2>1
    <2> QED  BY <1>1, <1>2, <2>2 DEF LimitsInv
<1> QED  BY <1>3, <1>4

\* The directory's content, the stores and what a reload took.
DocVars == <<world, disk, store, reload>>

\* A step that changes none of them.
LEMMA DocsStay == ASSUME DocsInv, UNCHANGED DocVars PROVE DocsInv'
BY SameWorld DEF DocsInv, DocVars, Over, Adoptable

\* A reload that begins took documents and errors, for tenants there are.
LEMMA BeginDocs ==
    ASSUME Shape, DocsInv, NEW trigger, Begin(trigger, treeOf(disk)), UNCHANGED <<world, disk, store>>
    PROVE  DocsInv'
<1>1. CASE UNCHANGED reload  BY <1>1, DocsStay DEF DocVars
<1>2. CASE /\ reload'.docs = treeOf(disk).docs /\ reload'.todo \subseteq Tenants
           /\ reload'.todo \subseteq DOMAIN treeOf(disk).docs /\ treeOf(disk).ok
    <2>1. \A t \in reload'.todo : t \in Tenants /\ reload'.docs[t] \in Adoptable  BY <1>2, TreeDocs
    <2> QED  BY <2>1, SameWorld DEF DocsInv, Over, Adoptable
<1> QED  BY <1>1, <1>2, BeginShape

\* The settings' steps put a document in a store, or nothing.
LEMMA DocsKept ==
    ASSUME Shape, DocsInv, DOMAIN Docs \cap {None, Absent, Bad} = {},
           \/ Edit
           \/ \E g \in Triggers : Reload(g)
           \/ \E t \in Tenants : ReloadTenant(t)
           \/ AdoptDoc \/ Swap \/ Record
    PROVE  DocsInv'
<1>1. CASE Edit
    <2>1. disk' \in W.disks /\ UNCHANGED <<world, store, reload>>  BY <1>1 DEF Edit
    <2> QED  BY <2>1, SameWorld DEF DocsInv, Over, Adoptable
<1>2. ASSUME NEW g \in Triggers, Reload(g)  PROVE DocsInv'
    <2>1. Begin(g, treeOf(disk)) /\ UNCHANGED <<world, disk, store>>  BY <1>2 DEF Reload
    <2> QED  BY <2>1, BeginDocs
<1>3. ASSUME NEW t \in Tenants, ReloadTenant(t)  PROVE DocsInv'
    <2>1. UNCHANGED <<world, disk, store>>  BY <1>3 DEF ReloadTenant
    <2>2. CASE ~W.nested
        <3>1. Begin("sighup", treeOf(disk))  BY <1>3, <2>2 DEF ReloadTenant
        <3> QED  BY <2>1, <3>1, BeginDocs
    <2>3. CASE W.nested
        <3>1. disk.folders[t] \in Contents  BY DiskContents
        <3> DEFINE doc == IF disk.listed /\ disk.folders[t] # Absent THEN disk.folders[t] ELSE Bad
        <3>2. doc \in Adoptable  BY <3>1 DEF Adoptable, Contents
        <3>3. reload' = [NoReload EXCEPT !.pc = "adopt", !.trigger = "sighup", !.whole = FALSE,
                             !.docs = [u \in {t} |-> doc], !.errs = (doc = Bad), !.todo = {t}]
            BY <1>3, <2>3 DEF ReloadTenant
        <3> HIDE DEF doc
        <3>4. reload'.todo = {t} /\ reload'.docs[t] = doc  BY <3>3 DEF NoReload
        <3> QED  BY <2>1, <3>2, <3>4, SameWorld DEF DocsInv, Over, Adoptable
    <2> QED  BY <2>2, <2>3
<1>4. CASE AdoptDoc
    <2>1. PICK t \in reload.todo : /\ store' = IF reload.docs[t] = Bad THEN store ELSE [store EXCEPT ![t] = reload.docs[t]]
                                   /\ reload' = [reload EXCEPT !.todo = @ \ {t}]
        BY <1>4 DEF AdoptDoc
    <2>2. t \in Tenants /\ reload.docs[t] \in Adoptable  BY DEF DocsInv
    <2>3. Over(store)' /\ \A u \in Tenants : store'[u] \in DOMAIN Docs \cup {None}
        <3>1. UNCHANGED <<world, disk>>  BY <1>4 DEF AdoptDoc
        <3>2. Over(store) /\ \A u \in Tenants : store[u] \in DOMAIN Docs \cup {None}  BY DEF DocsInv
        <3>3. CASE store' = store  BY <3>1, <3>2, <3>3, SameWorld DEF Over
        <3>4. CASE store' = [store EXCEPT ![t] = reload.docs[t]] /\ reload.docs[t] \in DOMAIN Docs
            <4>1. DOMAIN store = Tenants  BY <3>2 DEF Over
            <4>2. DOMAIN store' = Tenants /\ store' = [u \in Tenants |-> store'[u]]  BY <3>4, <4>1
            <4>3. \A u \in Tenants : store'[u] = IF u = t THEN reload.docs[t] ELSE store[u]  BY <3>4, <4>1
            <4> QED  BY <3>1, <3>2, <3>4, <4>2, <4>3, SameWorld DEF Over
        <3> QED  BY <2>1, <2>2, <3>3, <3>4 DEF Adoptable
    <2>4. ReloadShape(reload)  BY DEF Shape
    <2>5. reload'.todo \subseteq reload.todo /\ reload'.docs = reload.docs  BY <2>1, <2>4 DEF ReloadShape
    <2>6. UNCHANGED <<world, disk>>  BY <1>4 DEF AdoptDoc
    <2> QED  BY <2>3, <2>5, <2>6, SameWorld DEF DocsInv, Adoptable
<1>5. CASE Swap
    <2>1. /\ store' = [t \in Tenants |-> IF tenants'[t] = "unknown" THEN None ELSE store[t]]
          /\ reload' = [reload EXCEPT !.pc = "pools"] /\ UNCHANGED <<world, disk>>
        BY <1>5 DEF Swap
    <2>2. ReloadShape(reload)  BY DEF Shape
    <2>3. reload'.todo = reload.todo /\ reload'.docs = reload.docs  BY <2>1, <2>2 DEF ReloadShape
    <2>4. Over(store)' /\ \A t \in Tenants : store'[t] \in DOMAIN Docs \cup {None}
        BY <2>1, SameWorld DEF DocsInv, Over
    <2> QED  BY <2>1, <2>3, <2>4, SameWorld DEF DocsInv, Adoptable
<1>6. CASE Record
    <2>1. reload'.todo = {} /\ UNCHANGED <<world, disk, store>>  BY <1>6 DEF Record, NoReload
    <2> QED  BY <2>1, SameWorld DEF DocsInv, Over
<1> QED  BY <1>1, <1>2, <1>3, <1>4, <1>5, <1>6

\* The hooks adopt nothing.
LEMMA HookDocs ==
    ASSUME Shape, DocsInv, Hooks
    PROVE  DocsInv'
<1>1. UNCHANGED <<world, disk, store>>
    BY DEF Hooks, HookPools, HookDrop, HookOrphan, HookDiscover, HookLimits
<1>2. reload = [pc |-> reload.pc, trigger |-> reload.trigger, whole |-> reload.whole, docs |-> reload.docs,
                errs |-> reload.errs, todo |-> reload.todo, stale |-> reload.stale, failed |-> reload.failed]
    BY DEF Shape, ReloadShape
<1>3. reload'.todo = reload.todo /\ reload'.docs = reload.docs
    <2>1. CASE HookPools
        <3>1. PICK x, y : reload' = [reload EXCEPT !.pc = "drop", !.stale = x, !.failed = y]
            BY <2>1 DEF HookPools
        <3> QED  BY <1>2, <3>1
    <2>2. CASE HookDrop  BY <1>2, <2>2 DEF HookDrop
    <2>3. CASE HookOrphan
        <3>1. reload' = [reload EXCEPT !.pc = "discover"] \/ \E x : reload' = [reload EXCEPT !.stale = x]
            BY <2>3 DEF HookOrphan
        <3> QED  BY <1>2, <3>1
    <2>4. CASE HookDiscover  BY <1>2, <2>4 DEF HookDiscover
    <2>5. CASE HookLimits
        <3>1. PICK x : reload' = [reload EXCEPT !.pc = "record", !.failed = x]  BY <2>5 DEF HookLimits
        <3> QED  BY <1>2, <3>1
    <2> QED  BY <2>1, <2>2, <2>3, <2>4, <2>5 DEF Hooks
<1> QED  BY <1>1, <1>3, SameWorld DEF DocsInv, Over, Adoptable

\* Every step keeps the documents' types.
LEMMA DocsNext == ASSUME Shape, DocsInv, [Next]_vars PROVE DocsInv'
<1>0. DOMAIN Docs \cap {None, Absent, Bad} = {}  BY WorldsAssumption
<1>1. CASE \/ Edit \/ (\E g \in Triggers : Reload(g)) \/ (\E t \in Tenants : ReloadTenant(t))
           \/ AdoptDoc \/ Swap \/ Record
    BY <1>0, <1>1, DocsKept
<1>2. CASE Hooks  BY <1>2, HookDocs
<1>3. CASE UNCHANGED DocVars  BY <1>3, DocsStay
<1>4. ASSUME NEW t \in Tenants,
             \/ RefreshStart(t) \/ RefreshEnd(t) \/ Report(t) \/ LimitsFor(t)
             \/ QueryBegin(t) \/ QueryRun(t) \/ QueryStore(t) \/ Insert(t) \/ Invalidate(t)
      PROVE  DocsInv'
    <2>1. UNCHANGED settings
        BY <1>4 DEF RefreshStart, RefreshEnd, Report, LimitsFor, QueryBegin, QueryRun, QueryStore, Insert, Invalidate
    <2> QED  BY <1>3, <2>1 DEF DocVars, settings
<1>5. CASE UNCHANGED vars \/ Certificates \/ RetiredEnds
    <2>1. UNCHANGED settings  BY <1>5 DEF vars, Certificates, RetiredEnds
    <2> QED  BY <1>3, <2>1 DEF DocVars, settings
<1>6. CASE Watching
    BY <1>3, <1>6 DEF Watching, WatchDir, WatchParent, TakeEvent, TimerFires, DocVars
<1>7. CASE WatchReload  BY <1>1, <1>7 DEF WatchReload, Triggers
<1>8. CASE Reloading  BY <1>1, <1>2, <1>8 DEF Reloading
<1> QED  BY <1>1, <1>4, <1>5, <1>6, <1>7, <1>8 DEF Next

\* No step changes the limits but to reconcile them.
LEMMA LimitsNext == ASSUME DocsInv, LimitsInv, [Next]_vars PROVE LimitsInv'
<1> SUFFICES world' = world /\ (limits' = limits \/ limits' = reconciledLimits)  BY LimitsKept
<1>1. ASSUME NEW t \in Tenants,
             \/ RefreshStart(t) \/ RefreshEnd(t) \/ Report(t) \/ LimitsFor(t)
             \/ QueryBegin(t) \/ QueryRun(t) \/ QueryStore(t) \/ Insert(t) \/ Invalidate(t)
      PROVE  world' = world /\ (limits' = limits \/ limits' = reconciledLimits)
    BY <1>1 DEF RefreshStart, RefreshEnd, Report, LimitsFor, QueryBegin, QueryRun, QueryStore, Insert, Invalidate,
                settings
<1>2. CASE UNCHANGED vars \/ Certificates \/ RetiredEnds
    BY <1>2 DEF vars, Certificates, RetiredEnds, settings
<1>3. CASE UNCHANGED consumers
           /\ (\/ Edit \/ (\E g \in Triggers : Reload(g)) \/ (\E t \in Tenants : ReloadTenant(t))
               \/ AdoptDoc \/ Swap \/ Record \/ WatchDir \/ WatchParent \/ TakeEvent \/ TimerFires)
    BY <1>3 DEF consumers, Edit, Reload, ReloadTenant, AdoptDoc, Swap, Record,
                WatchDir, WatchParent, TakeEvent, TimerFires
<1>4. CASE Hooks  BY <1>4 DEF Hooks, HookPools, HookDrop, HookOrphan, HookDiscover, HookLimits
<1>5. CASE Watching \/ WatchReload \/ Reloading
    BY <1>3, <1>4, <1>5 DEF Watching, WatchReload, Reloading, Triggers
<1> QED  BY <1>1, <1>2, <1>3, <1>4, <1>5 DEF Next

\* The directory booted from holds documents, or errors.
LEMMA BootDocs ==
    ASSUME Init PROVE \A t \in DOMAIN Validate(W.boot).docs : Validate(W.boot).docs[t] \in Adoptable
<1>1. W.boot.files \in Contents /\ W.boot.folders \in [Tenants -> Contents]
    BY PlaceInit, WorldsAssumption DEF PlaceInv, Shape, W, Tenants, Ids
<1> DEFINE d == W.boot
<1>2. d.files \in Contents /\ d.folders \in [Tenants -> Contents]  BY <1>1
<1> HIDE DEF d
<1>3. \A t \in DOMAIN Validate(d).docs : Validate(d).docs[t] \in Adoptable
    <2>1. CASE ~d.listed  BY <2>1 DEF Validate, NoTree
    <2>2. CASE d.listed /\ (d.files # Absent \/ (folders(d) = {} /\ ~d.stray))
        <3>1. PICK doc \in {Bad, d.files} : /\ Validate(d).docs = [u \in {Default} |-> doc]
                                            /\ d.files = Absent => doc = Bad
            BY <2>2 DEF Validate
        <3>2. doc \in Adoptable  BY <1>2, <3>1 DEF Adoptable, Contents
        <3> QED  BY <3>1, <3>2
    <2>3. CASE d.listed /\ ~(d.files # Absent \/ (folders(d) = {} /\ ~d.stray))
        <3>1. Validate(d).docs = [u \in folders(d) |-> d.folders[u]]  BY <2>3 DEF Validate
        <3>2. \A u \in folders(d) : d.folders[u] \in Adoptable  BY <1>2 DEF folders, Adoptable, Contents
        <3> QED  BY <3>1, <3>2
    <2> QED  BY <2>1, <2>2, <2>3
<1> QED  BY <1>3 DEF d

\* Its limits were checked.
LEMMA FitInit == ASSUME Init PROVE DocsInv /\ LimitsInv
<1>1. Shape /\ disk = W.boot /\ reload.todo = {}  BY PlaceInit DEF PlaceInv, Init, NoReload
<1>2. \A t \in DOMAIN Validate(W.boot).docs : Validate(W.boot).docs[t] \in Adoptable  BY BootDocs
<1>3. /\ tenants = [t \in Tenants |-> IF t \notin DOMAIN Validate(W.boot).docs THEN "unknown"
                                      ELSE IF Validate(W.boot).docs[t] = Bad THEN "rejected" ELSE "served"]
      /\ store = [t \in Tenants |-> IF Served(t) THEN Validate(W.boot).docs[t] ELSE None]
    BY DEF Init
<1>4. ASSUME NEW t \in Tenants  PROVE store[t] \in DOMAIN Docs \cup {None}
    <2>1. Served(t) => t \in DOMAIN Validate(W.boot).docs /\ Validate(W.boot).docs[t] # Bad
        BY <1>3 DEF Served
    <2> QED  BY <1>2, <1>3, <2>1 DEF Adoptable
<1>5. Over(store)  BY <1>3 DEF Over
<1>6. DocsInv  BY <1>1, <1>4, <1>5 DEF DocsInv
<1>7. limits = [t \in Tenants |-> IF ~Served(t) THEN Absent
                                  ELSE IF checkIngestLimits(store[t]) THEN store[t] ELSE None]
    BY DEF Init
<1>8. ASSUME NEW t \in Tenants
      PROVE  limits[t] \in {None, Absent} \/ (limits[t] \in DOMAIN Docs /\ checkIngestLimits(limits[t]))
    <2>1. \/ limits[t] \in {None, Absent} \/ (limits[t] = store[t] /\ checkIngestLimits(store[t]))
        BY <1>7
    <2> QED  BY <1>4, <2>1
<1>9. LimitsInv  BY <1>8 DEF LimitsInv
<1> QED  BY <1>6, <1>9

\* What the worker applies leaves a batch time to be flushed and inserted
\* before the queue redelivers it, whatever the documents' limits, with no sum
\* taken that could wrap (checkIngestLimits).
THEOREM LimitsFit == Spec => []LimitsWithinAckWait
<1>1. Init => FitInv  BY PlaceInit, FitInit DEF FitInv
<1>2. FitInv /\ [Next]_vars => FitInv'
    BY PlaceNext, DocsNext, LimitsNext DEF FitInv, PlaceInv
<1>3. FitInv => LimitsWithinAckWait
    <2> SUFFICES ASSUME FitInv, NEW t \in Tenants, limits[t] \notin {None, Absent}
                 PROVE  LET d == Docs[limits[t]] IN d.wait > 0 /\ d.insert > 0 /\ d.wait + d.insert < W.ackWait
        BY DEF LimitsWithinAckWait
    <2>1. limits[t] \in DOMAIN Docs /\ checkIngestLimits(limits[t])  BY DEF FitInv, LimitsInv
    <2>2. Docs[limits[t]].wait \in Int /\ Docs[limits[t]].insert \in Int  BY <2>1, WorldsAssumption
    <2>3. W.ackWait \in Int  BY WorldsAssumption DEF W, FitInv, PlaceInv, Shape
    <2> QED  BY <2>1, <2>2, <2>3 DEF checkIngestLimits
<1> QED  BY <1>1, <1>2, <1>3, PTL DEF Spec

-----------------------------------------------------------------------------
(* /livez.                                                                 *)

\* A step that leaves the tenants, and who is being reported, as they were.
LEMMA LivezStays ==
    ASSUME LivezInv, world' = world, tenants' = tenants, disc' = disc, livez' = livez,
           reload'.pc \notin Swapped => reload.pc \notin Swapped
    PROVE  LivezInv'
BY SameWorld DEF LivezInv, Served

\* Neither of the words /livez says without naming a tenant is a tenant.
LEMMA NoTenant == ASSUME Shape PROVE "ok" \notin Tenants /\ "none yet" \notin Tenants
BY WorldsAssumption DEF Shape, Tenants, Ids, W

\* A loop's step, running or retired: livez stays, is "ok", or names a served
\* tenant.
LEMMA LivezLoop ==
    ASSUME Shape, LivezInv, UNCHANGED <<world, tenants, reload>>,
           \/ livez' \in {livez, "ok"}
           \/ livez # "ok" /\ Served(livez'),
           \A t \in Tenants : disc'[t].loaded # None /\ disc'[t].loop # "announcing" =>
               \/ disc[t].loaded # None /\ disc[t].loop # "announcing"
               \/ livez' = "ok"
    PROVE  LivezInv'
<1>1. Tenants' = Tenants /\ \A t : Served(t)' <=> Served(t)  BY SameWorld DEF Served
<1>2. livez' \in Tenants /\ reload.pc \notin Swapped => Served(livez')
    BY NoTenant DEF LivezInv
<1>3. \A t \in Tenants : disc'[t].loaded # None /\ disc'[t].loop # "announcing" => livez' = "ok"
    BY DEF LivezInv
<1> QED  BY <1>1, <1>2, <1>3 DEF LivezInv, Served

\* The diagnostic an attempt leaves.
LEMMA Attempt ==
    ASSUME NEW t, onAttempt(t) \/ onLoaded
    PROVE  livez' \in {livez, "ok"} \/ (livez # "ok" /\ Served(livez'))
BY DEF onAttempt, onLoaded

\* A registry's loop: its schema is announced as loaded before it is "idle".
LEMMA RefreshLivez ==
    ASSUME Shape, LivezInv, NEW t \in Tenants, RefreshStart(t) \/ RefreshEnd(t) \/ Report(t)
    PROVE  LivezInv'
<1>0. DOMAIN disc = Tenants /\ disc[t] = [loop |-> disc[t].loop, from |-> disc[t].from, loaded |-> disc[t].loaded]
    BY DEF Shape, DiscShape, Over
<1>1. UNCHANGED <<world, tenants, reload>>
    BY DEF RefreshStart, RefreshEnd, Report, settings
<1>2. CASE RefreshStart(t)
    <2>1. PICK x, y : disc' = [disc EXCEPT ![t].from = x, ![t].loop = y]  BY <1>2 DEF RefreshStart
    <2>2. disc'[t].loaded = disc[t].loaded /\ \A u \in Tenants \ {t} : disc'[u] = disc[u]
        BY <1>0, <2>1
    <2>3. disc[t].loop = "idle" /\ livez' = livez  BY <1>2 DEF RefreshStart
    <2>4. \A u \in Tenants : disc'[u].loaded # None /\ disc'[u].loop # "announcing" =>
              \/ disc[u].loaded # None /\ disc[u].loop # "announcing"
              \/ livez' = "ok"
        BY <2>2, <2>3
    <2> QED  BY <1>1, <2>3, <2>4, LivezLoop
<1>3. CASE RefreshEnd(t)
    <2>1. disc[t].loop = "reading" /\ livez' = livez  BY <1>3 DEF RefreshEnd
    <2>2. /\ \A u \in Tenants \ {t} : disc'[u] = disc[u]
          /\ \/ disc[t].loaded = None /\ disc'[t].loop = "announcing"
             \/ disc[t].loaded # None
             \/ disc'[t].loaded = disc[t].loaded
        BY <1>0, <1>3 DEF RefreshEnd
    <2>3. \A u \in Tenants : disc'[u].loaded # None /\ disc'[u].loop # "announcing" =>
              \/ disc[u].loaded # None /\ disc[u].loop # "announcing"
              \/ livez' = "ok"
        BY <2>1, <2>2
    <2> QED  BY <1>1, <2>1, <2>3, LivezLoop
<1>4. CASE Report(t)
    <2>1. disc' = [disc EXCEPT ![t].loop = "idle"]  BY <1>4 DEF Report
    <2>2. disc'[t].loaded = disc[t].loaded /\ \A u \in Tenants \ {t} : disc'[u] = disc[u]
        BY <1>0, <2>1
    <2>3. \/ disc[t].loop = "reporting" /\ onAttempt(t)
          \/ disc[t].loop = "announcing" /\ livez' = "ok"
        BY <1>4 DEF Report, onLoaded
    <2>4. \A u \in Tenants : disc'[u].loaded # None /\ disc'[u].loop # "announcing" =>
              \/ disc[u].loaded # None /\ disc[u].loop # "announcing"
              \/ livez' = "ok"
        BY <2>2, <2>3
    <2>5. livez' \in {livez, "ok"} \/ (livez # "ok" /\ Served(livez'))  BY <2>3, Attempt
    <2> QED  BY <1>1, <2>4, <2>5, LivezLoop
<1> QED  BY <1>2, <1>3, <1>4

\* A retired loop reports once more, for a tenant that is still served.
LEMMA RetiredLivez == ASSUME Shape, LivezInv, RetiredEnds PROVE LivezInv'
<1>1. UNCHANGED <<world, tenants, reload, disc>>  BY DEF RetiredEnds, settings
<1>2. PICK r \in retired : CASE r.loop = "reporting" -> onAttempt(r.tenant)
                             [] r.loop = "announcing" -> onLoaded
                             [] OTHER -> onLoaded \/ UNCHANGED livez
    BY DEF RetiredEnds
<1>3. onAttempt(r.tenant) \/ onLoaded \/ livez' = livez  BY <1>2
<1>4. livez' \in {livez, "ok"} \/ (livez # "ok" /\ Served(livez'))  BY <1>3, Attempt
<1> QED  BY <1>1, <1>4, LivezLoop

\* The hooks that drop and make registries; the second forgets the diagnostic
\* of a tenant that is gone.
LEMMA HookLivez == ASSUME Shape, LivezInv, HookDrop \/ HookDiscover PROVE LivezInv'
<1>0. NoRegistry.loaded = None /\ NewRegistry.loaded = None /\ ReloadShape(reload)
    BY DEF NoRegistry, NewRegistry, Shape
<1>1. UNCHANGED <<world, tenants>> /\ Tenants' = Tenants /\ \A t : Served(t)' <=> Served(t)
    BY SameWorld DEF HookDrop, HookDiscover, Served
<1>2. \A t \in Tenants : disc'[t] \in {disc[t], NoRegistry, NewRegistry}
    BY DEF HookDrop, HookDiscover
<1>3. \A t \in Tenants : disc'[t].loaded # None /\ disc'[t].loop # "announcing" => livez = "ok"
    BY <1>0, <1>2 DEF LivezInv
<1>4. CASE HookDrop
    <2>1. livez' = livez /\ reload'.pc = "orphan"  BY <1>0, <1>4 DEF HookDrop, ReloadShape
    <2> QED  BY <1>1, <1>3, <2>1 DEF LivezInv, Swapped
<1>5. CASE HookDiscover
    <2>1. livez' = IF livez \in Tenants /\ ~Served(livez) THEN "none yet" ELSE livez
        BY <1>5 DEF HookDiscover
    <2>2. livez' \in Tenants => Served(livez')  BY <2>1, NoTenant
    <2>3. livez = "ok" => livez' = "ok"  BY <2>1, NoTenant
    <2> QED  BY <1>1, <1>3, <2>2, <2>3 DEF LivezInv
<1> QED  BY <1>4, <1>5

\* The other hooks.
LEMMA OtherHookLivez ==
    ASSUME Shape, LivezInv, HookPools \/ HookOrphan \/ HookLimits PROVE LivezInv'
<1>0. ReloadShape(reload)  BY DEF Shape
<1>1. UNCHANGED <<world, tenants, disc, livez>>  BY DEF HookPools, HookOrphan, HookLimits, discovery
<1>2. reload'.pc \notin Swapped => reload.pc \notin Swapped
    <2>1. CASE HookPools
        <3>1. PICK x, y : reload' = [reload EXCEPT !.pc = "drop", !.stale = x, !.failed = y]
            BY <2>1 DEF HookPools
        <3> QED  BY <1>0, <3>1 DEF ReloadShape, Swapped
    <2>2. CASE HookOrphan
        <3>1. reload' = [reload EXCEPT !.pc = "discover"] \/ \E x : reload' = [reload EXCEPT !.stale = x]
            BY <2>2 DEF HookOrphan
        <3> QED  BY <1>0, <3>1 DEF ReloadShape, Swapped
    <2>3. CASE HookLimits  BY <2>3 DEF HookLimits, Swapped
    <2> QED  BY <2>1, <2>2, <2>3
<1> QED  BY <1>1, <1>2, LivezStays

\* The settings' steps: from the swap on, the hooks have yet to run.
LEMMA SettingsLivez ==
    ASSUME Shape, LivezInv, UNCHANGED <<disc, livez>>,
           \/ Edit
           \/ \E g \in Triggers : Reload(g)
           \/ \E t \in Tenants : ReloadTenant(t)
           \/ AdoptDoc \/ Swap \/ Record
           \/ Watching
    PROVE  LivezInv'
<1>0. ReloadShape(reload)  BY DEF Shape
<1>1. CASE Swap
    <2>1. reload'.pc = "pools" /\ world' = world  BY <1>0, <1>1 DEF Swap, ReloadShape
    <2> QED  BY <2>1, SameWorld DEF LivezInv, Swapped
<1>2. CASE Edit \/ Watching
    BY <1>2, LivezStays DEF Edit, Watching, WatchDir, WatchParent, TakeEvent, TimerFires
<1>3. CASE (\E g \in Triggers : Reload(g)) \/ (\E t \in Tenants : ReloadTenant(t))
    <2>1. reload.pc = "idle" /\ UNCHANGED <<world, tenants>>  BY <1>3 DEF Reload, ReloadTenant
    <2> QED  BY <2>1, LivezStays DEF Swapped
<1>4. CASE AdoptDoc
    <2>1. reload.pc = "adopt" /\ UNCHANGED <<world, tenants>>  BY <1>4 DEF AdoptDoc
    <2> QED  BY <2>1, LivezStays DEF Swapped
<1>5. CASE Record
    <2>1. reload.pc = "record" /\ UNCHANGED <<world, tenants>>  BY <1>5 DEF Record
    <2> QED  BY <2>1, LivezStays DEF Swapped
<1> QED  BY <1>1, <1>2, <1>3, <1>4, <1>5

\* Every step keeps the diagnostic true.
LEMMA LivezNext == ASSUME Shape, LivezInv, [Next]_vars PROVE LivezInv'
<1>1. CASE UNCHANGED <<disc, livez>>
           /\ (\/ Edit \/ (\E g \in Triggers : Reload(g)) \/ (\E t \in Tenants : ReloadTenant(t))
               \/ AdoptDoc \/ Swap \/ Record \/ Watching)
    BY <1>1, SettingsLivez
<1>2. CASE Hooks  BY <1>2, HookLivez, OtherHookLivez DEF Hooks
<1>3. ASSUME NEW t \in Tenants, RefreshStart(t) \/ RefreshEnd(t) \/ Report(t)
      PROVE  LivezInv'
    BY <1>3, RefreshLivez
<1>4. ASSUME UNCHANGED <<settings, disc, livez>>  PROVE LivezInv'
    BY <1>4, LivezStays DEF settings
<1>5. ASSUME NEW t \in Tenants,
             LimitsFor(t) \/ QueryBegin(t) \/ QueryRun(t) \/ QueryStore(t) \/ Insert(t) \/ Invalidate(t)
      PROVE  LivezInv'
    BY <1>4, <1>5 DEF LimitsFor, QueryBegin, QueryRun, QueryStore, Insert, Invalidate, discovery
<1>6. CASE UNCHANGED vars \/ Certificates  BY <1>4, <1>6 DEF vars, Certificates, discovery
<1>7. CASE RetiredEnds  BY <1>7, RetiredLivez
<1>8. CASE WatchReload  BY <1>1, <1>8 DEF WatchReload, Triggers, consumers, discovery
<1>9. CASE Reloading  BY <1>1, <1>2, <1>9 DEF Reloading, consumers, discovery
<1>10. CASE Watching  BY <1>1, <1>10 DEF Watching, consumers, discovery
<1>11. CASE (Edit \/ (\E g \in Triggers : Reload(g)) \/ (\E t \in Tenants : ReloadTenant(t))) /\ UNCHANGED consumers
    BY <1>1, <1>11 DEF consumers, discovery
<1> QED  BY <1>3, <1>5, <1>6, <1>7, <1>8, <1>9, <1>10, <1>11 DEF Next

\* A flat directory that boots serves its default tenant.
LEMMA LivezInit == ASSUME Init, Shape PROVE LivezInv
<1>1. NoRegistry.loaded = None /\ NewRegistry.loaded = None  BY DEF NoRegistry, NewRegistry
<1>2. tenants = [t \in Tenants |-> IF t \notin DOMAIN Validate(W.boot).docs THEN "unknown"
                                   ELSE IF Validate(W.boot).docs[t] = Bad THEN "rejected" ELSE "served"]
    BY DEF Init
<1>3. Validate(W.boot).nested = W.nested /\ served0 # {}  BY DEF Init, Boots
<1>4. PICK t \in Tenants : t \in DOMAIN Validate(W.boot).docs /\ Validate(W.boot).docs[t] # Bad
    BY <1>3 DEF served0
<1>5. ~W.nested => DOMAIN Validate(W.boot).docs \subseteq {Default}
    <2> DEFINE d == W.boot
    <2> HIDE DEF d
    <2>1. Validate(d).nested \/ DOMAIN Validate(d).docs \subseteq {Default}  BY DEF Validate, NoTree
    <2>2. Validate(d).nested = W.nested  BY <1>3 DEF d
    <2> QED  BY <2>1, <2>2 DEF d
<1>6. ~W.nested => Served(Default)  BY <1>2, <1>4, <1>5 DEF Served
<1>7. CASE livez = "ok"  BY <1>7, NoTenant DEF LivezInv
<1>8. CASE /\ livez = IF W.nested THEN "none yet" ELSE Default
           /\ disc = [u \in Tenants |-> IF Served(u) THEN NewRegistry ELSE NoRegistry]
    <2>1. \A u \in Tenants : disc[u].loaded = None  BY <1>1, <1>8
    <2>2. livez \in Tenants => Served(livez)  BY <1>6, <1>8, NoTenant
    <2> QED  BY <2>1, <2>2 DEF LivezInv
<1> QED  BY <1>7, <1>8 DEF Init

\* Between reloads /livez names no tenant that is gone, though loops a reload
\* stopped report late, and once a served tenant's schema was announced it is
\* 200 for good (wireDiscovery).
THEOREM LivezTrue == Spec => []LivezTruthful
<1>1. Init => LiveInv  BY PlaceInit, LivezInit DEF LiveInv, PlaceInv
<1>2. LiveInv /\ [Next]_vars => LiveInv'  BY PlaceNext, LivezNext DEF LiveInv, PlaceInv
<1>3. LiveInv => LivezTruthful  BY DEF LiveInv, LivezInv, LivezTruthful, Swapped
<1> QED  BY <1>1, <1>2, <1>3, PTL DEF Spec

-----------------------------------------------------------------------------
(* Induction.  A set of naturals that holds zero, and with each number the *)
(* next, holds all: the induction hypothesis is a set, not an operator.    *)

LEMMA NatSet ==
    ASSUME NEW S, S \subseteq Nat, 0 \in S, \A n \in S : n + 1 \in S
    PROVE  S = Nat
<1> SUFFICES ASSUME NEW a \in Nat \ S PROVE FALSE
  OBVIOUS
<1> DEFINE R == StrictSubsetOrdering(Nat)
           T == {0..n : n \in Nat \ S}
<1>1. T \subseteq FiniteSubsetsOf(Nat)
  <2>1. ASSUME NEW n \in Nat PROVE IsFiniteSet(0..n) /\ 0..n \subseteq Nat
    BY FS_Interval
  <2> QED BY <2>1 DEF FiniteSubsetsOf
<1>2. 0..a \in T
  OBVIOUS
<1>3. PICK X \in T : \A Y \in T : <<Y, X>> \notin R
  <2> HIDE DEF T, R
  <2>1. IsWellFoundedOn(R, FiniteSubsetsOf(Nat))
    BY FS_StrictSubsetOrderingWellFounded DEF R
  <2> QED BY <2>1, <1>1, <1>2, WFMin
<1>4. PICK x \in Nat \ S : X = 0..x
  OBVIOUS
<1>5. x # 0 /\ x - 1 \in Nat \ S
  <2>1. x # 0 /\ x - 1 \in Nat
    OBVIOUS
  <2>2. CASE x - 1 \in S
    <3>1. (x - 1) + 1 \in S
      BY <2>2
    <3> QED BY <3>1
  <2> QED BY <2>1, <2>2
<1>6. 0..(x-1) \in T /\ 0..(x-1) \subseteq 0..x /\ 0..(x-1) # 0..x
  <2>1. x \in 0..x /\ x \notin 0..(x-1)
    OBVIOUS
  <2> QED BY <1>5, <2>1
<1>7. <<0..(x-1), 0..x>> \in R
  <2>1. 0..(x-1) \in SUBSET Nat /\ 0..x \in SUBSET Nat
    BY <1>5
  <2> QED BY <2>1, <1>6 DEF StrictSubsetOrdering
<1> QED BY <1>3, <1>4, <1>6, <1>7

\* A finite set of numbers that is not empty has a largest.
LEMMA LargestIsThere ==
    ASSUME NEW S, S \subseteq Nat, IsFiniteSet(S), S # {}
    PROVE  Max(S) \in S /\ \A y \in S : Max(S) >= y
<1> DEFINE R == StrictSubsetOrdering(S)
           above(x) == {y \in S : y > x}
           T == {above(x) : x \in S}
<1>1. T \subseteq FiniteSubsetsOf(S) /\ T # {}
  <2>1. \A x \in S : above(x) \in SUBSET S
    OBVIOUS
  <2>2. FiniteSubsetsOf(S) = SUBSET S
    BY FS_FiniteSubsetsOfFinite
  <2>3. PICK x : x \in S
    OBVIOUS
  <2>4. above(x) \in T
    BY <2>3
  <2>5. T \subseteq SUBSET S
    <3> SUFFICES ASSUME NEW y \in T PROVE y \in SUBSET S
      OBVIOUS
    <3>1. PICK z \in S : y = above(z)
      OBVIOUS
    <3> QED BY <2>1, <3>1
  <2> HIDE DEF T
  <2> QED BY <2>5, <2>2, <2>4
<1>2. PICK X \in T : \A Y \in T : <<Y, X>> \notin R
  <2> HIDE DEF T, R
  <2>1. IsWellFoundedOn(R, FiniteSubsetsOf(S))
    BY FS_StrictSubsetOrderingWellFounded DEF R
  <2> QED BY <1>1, <2>1, WFMin
<1>3. PICK x \in S : X = above(x)
  OBVIOUS
<1>4. ASSUME NEW y \in S, y > x PROVE FALSE
  <2>0. /\ y \in Nat /\ x \in Nat
        /\ \A z \in S : z \in Nat
    OBVIOUS
  <2>1. \A z \in above(y) : z \in S /\ z > x
    BY <2>0, <1>4
  <2>2. y \in above(x) /\ y \notin above(y)
    BY <2>0, <1>4
  <2>3. above(y) \in T /\ above(y) \subseteq above(x) /\ above(y) # above(x)
    BY <2>1, <2>2
  <2>4. above(y) \in SUBSET S /\ above(x) \in SUBSET S
    OBVIOUS
  <2>5. <<above(y), above(x)>> \in R
    BY <2>3, <2>4 DEF StrictSubsetOrdering
  <2> QED BY <2>3, <2>5, <1>2, <1>3
<1>5. \A y \in S : x >= y
  BY <1>4
<1> QED BY <1>5 DEF Max

\* The prefix of a sequence of indices.
LEMMA LargestOfPrefix == \A n \in Nat : n # 0 => Max(1..n) = n /\ (1..n) \ {n} = 1..(n - 1) /\ 1..n # {}
<1> SUFFICES ASSUME NEW n \in Nat, n # 0 PROVE Max(1..n) = n /\ (1..n) \ {n} = 1..(n - 1) /\ 1..n # {}
  OBVIOUS
<1>1. n \in 1..n /\ \A y \in 1..n : n >= y
  OBVIOUS
<1>2. \A m \in 1..n : (\A y \in 1..n : m >= y) => m = n
  BY <1>1
<1> QED BY <1>1, <1>2 DEF Max

-----------------------------------------------------------------------------
(* Sums.                                                                   *)

Total(f, S) == SumFunctionOnSet(f, S)

\* The equation a sum satisfies on the subsets of S.
pick(s) == CHOOSE x \in s : TRUE
Sums(g, f, S) == g = [s \in SUBSET S |-> IF s = {} THEN 0 ELSE f[pick(s)] + g[s \ {pick(s)}]]

LEMMA SumIs == ASSUME NEW f, NEW S PROVE Total(f, S) = (CHOOSE g : Sums(g, f, S))[S]
BY DEF Total, SumFunctionOnSet, FoldFunctionOnSet, MapThenFoldSet, Sums, pick

LEMMA PickIn == ASSUME NEW s, s # {} PROVE pick(s) \in s
BY DEF pick

Natural(f, S) == \A x \in S : f[x] \in Nat

\* A fold over the elements of a finite set, c saying which one a set loses,
\* has a table: up to each size, of the values it takes on the smaller subsets.
Table(g, S, V, b, c, G) ==
    /\ g \in [SUBSET S -> V]
    /\ \A s \in SUBSET S : g[s] = IF s = {} THEN b ELSE G[<<g[s \ {c[s]}], c[s]>>]

LEMMA TableExists ==
    ASSUME NEW S, IsFiniteSet(S), NEW V, NEW b \in V, NEW c, NEW G \in [V \X S -> V],
           \A s \in SUBSET S : s # {} => c[s] \in s
    PROVE  \E g : Table(g, S, V, b, c, G)
<1> DEFINE step(g, s) == IF s = {} THEN b ELSE G[<<g[s \ {c[s]}], c[s]>>]
           Good(g, n) == \A s \in SUBSET S : Cardinality(s) <= n => g[s] = step(g, s)
           N == {n \in Nat : \E g \in [SUBSET S -> V] : Good(g, n)}
<1>0. ASSUME NEW s \in SUBSET S
      PROVE  /\ Cardinality(s) \in Nat /\ Cardinality(s) <= Cardinality(S)
             /\ Cardinality(s) = 0 => s = {}
             /\ s # {} => s \ {c[s]} \in SUBSET S /\ Cardinality(s \ {c[s]}) = Cardinality(s) - 1
  <2>1. IsFiniteSet(s) /\ Cardinality(s) <= Cardinality(S)
    BY FS_Subset
  <2>2. Cardinality(s) \in Nat /\ (Cardinality(s) = 0 => s = {})
    BY <2>1, FS_CardinalityType, FS_EmptySet
  <2>3. ASSUME s # {} PROVE Cardinality(s \ {c[s]}) = Cardinality(s) - 1
    BY <2>1, <2>3, FS_RemoveElement
  <2> QED BY <2>1, <2>2, <2>3
<1>9. ASSUME NEW g \in [SUBSET S -> V], NEW s \in SUBSET S PROVE step(g, s) \in V
  <2>1. CASE s = {}
    BY <2>1
  <2>2. CASE s # {}
    <3>1. g[s \ {c[s]}] \in V /\ c[s] \in S
      BY <2>2
    <3> QED BY <2>2, <3>1
  <2> QED BY <2>1, <2>2
<1>1. 0 \in N
  <2> DEFINE g == [s \in SUBSET S |-> b]
  <2>1. g \in [SUBSET S -> V]
    OBVIOUS
  <2>2. ASSUME NEW s \in SUBSET S, Cardinality(s) <= 0 PROVE g[s] = step(g, s)
    <3>1. s = {}
      <4> HIDE DEF step
      <4>0. Cardinality(s) \in Nat
        BY <1>0
      <4>1. Cardinality(s) = 0
        BY <4>0, <2>2
      <4> QED BY <1>0, <4>1
    <3> QED BY <3>1
  <2>3. Good(g, 0)
    <3> HIDE DEF g, step
    <3> QED BY <2>2
  <2> HIDE DEF g, Good
  <2> QED BY <2>1, <2>3
<1>2. ASSUME NEW n \in N PROVE n + 1 \in N
  <2>1. PICK g \in [SUBSET S -> V] : Good(g, n)
    OBVIOUS
  <2> DEFINE h == [s \in SUBSET S |-> step(g, s)]
  <2>2. ASSUME NEW s \in SUBSET S, Cardinality(s) <= n + 1 PROVE h[s] = step(h, s)
    <3>1. CASE s = {}
      BY <3>1
    <3>2. CASE s # {}
      <4> DEFINE r == s \ {c[s]}
      <4>1. r \in SUBSET S /\ Cardinality(r) <= n
        BY <1>0, <2>2, <3>2
      <4>2. g[r] = step(g, r)
        BY <2>1, <4>1
      <4>3. h[r] = g[r]
        BY <4>1, <4>2
      <4>4. h[s] = G[<<g[r], c[s]>>]
        BY <3>2
      <4>5. step(h, s) = G[<<h[r], c[s]>>]
        BY <3>2
      <4> QED BY <4>3, <4>4, <4>5
    <3> QED BY <3>1, <3>2
  <2>4. h \in [SUBSET S -> V]
    <3> HIDE DEF step
    <3> QED BY <1>9
  <2>3. Good(h, n + 1)
    <3> HIDE DEF h, step
    <3> QED BY <2>2
  <2> HIDE DEF h, Good
  <2> QED BY <2>3, <2>4
<1>3. N = Nat
  <2> HIDE DEF Good
  <2>1. N \subseteq Nat
    OBVIOUS
  <2> HIDE DEF N
  <2> QED BY <1>1, <1>2, <2>1, NatSet
<1>4. Cardinality(S) \in Nat
  BY FS_CardinalityType
<1>5. PICK g \in [SUBSET S -> V] : Good(g, Cardinality(S))
  <2> HIDE DEF Good
  <2> QED BY <1>3, <1>4
<1>6. \A s \in SUBSET S : g[s] = step(g, s)
  <2> HIDE DEF step
  <2> QED BY <1>0, <1>5
<1> QED BY <1>6 DEF Table

LEMMA SumsExist == ASSUME NEW f, NEW S, IsFiniteSet(S), Natural(f, S) PROVE \E g : Sums(g, f, S)
<1> DEFINE c == [s \in SUBSET S |-> pick(s)]
           G == [p \in Nat \X S |-> f[p[2]] + p[1]]
<1>1. \A s \in SUBSET S : s # {} => c[s] \in s
  BY PickIn
<1>2. G \in [Nat \X S -> Nat]
  BY DEF Natural
<1>3. PICK g : Table(g, S, Nat, 0, c, G)
  <2>1. 0 \in Nat
    OBVIOUS
  <2> HIDE DEF c, G
  <2> QED BY <1>1, <1>2, <2>1, TableExists
<1>6. \A s \in SUBSET S : g[s] = IF s = {} THEN 0 ELSE G[<<g[s \ {c[s]}], c[s]>>]
  <2> HIDE DEF c, G
  <2> QED BY <1>3 DEF Table
<1>7. g \in [SUBSET S -> Nat]
  <2> HIDE DEF c, G
  <2> QED BY <1>3 DEF Table
<1>4. ASSUME NEW s \in SUBSET S PROVE g[s] = IF s = {} THEN 0 ELSE f[pick(s)] + g[s \ {pick(s)}]
  <2>1. CASE s = {}
    BY <1>6, <2>1
  <2>2. CASE s # {}
    <3>1. pick(s) \in S /\ g[s \ {pick(s)}] \in Nat
      BY <1>1, <1>7, <2>2
    <3>2. g[s] = G[<<g[s \ {pick(s)}], pick(s)>>]
      BY <1>6, <2>2
    <3> QED BY <2>2, <3>1, <3>2
  <2> QED BY <2>1, <2>2
<1>5. g = [s \in SUBSET S |-> g[s]]
  BY <1>7
<1> HIDE DEF c, G
<1> QED BY <1>4, <1>5 DEF Sums

\* Induction over the subsets of a finite set.
LEMMA SubsetInduction ==
    ASSUME NEW U, IsFiniteSet(U), NEW P, P \subseteq SUBSET U, {} \in P,
           \A s \in SUBSET U : s # {} /\ (\A x \in s : s \ {x} \in P) => s \in P
    PROVE  P = SUBSET U
<1> DEFINE R == StrictSubsetOrdering(U)
           T == (SUBSET U) \ P
<1>1. SUFFICES ASSUME T # {} PROVE FALSE
  OBVIOUS
<1>2. PICK X \in T : \A Y \in T : <<Y, X>> \notin R
  <2>1. IsWellFoundedOn(R, FiniteSubsetsOf(U))
    BY FS_StrictSubsetOrderingWellFounded
  <2>2. FiniteSubsetsOf(U) = SUBSET U
    BY FS_FiniteSubsetsOfFinite
  <2>3. T \subseteq SUBSET U
    OBVIOUS
  <2> HIDE DEF T, R
  <2> QED BY <1>1, <2>1, <2>2, <2>3, WFMin
<1>3. PICK x \in X : X \ {x} \notin P
  OBVIOUS
<1>4. X \ {x} \in T /\ X \in SUBSET U /\ X \ {x} # X
  BY <1>3
<1>5. <<X \ {x}, X>> \in R
  BY <1>4 DEF StrictSubsetOrdering
<1> QED BY <1>2, <1>4, <1>5

\* The table of the sums of a smaller set agrees with that of a larger one.
LEMMA SumsAgree ==
    ASSUME NEW f, NEW S, IsFiniteSet(S), NEW T \in SUBSET S, NEW g, NEW h, Sums(g, f, S), Sums(h, f, T)
    PROVE  g[T] = h[T]
<1> DEFINE P == {s \in SUBSET T : g[s] = h[s]}
<1>1. {} \in P
  BY DEF Sums
<1>2. ASSUME NEW s \in SUBSET T, s # {}, \A x \in s : s \ {x} \in P PROVE s \in P
  <2>1. pick(s) \in s
    BY <1>2, PickIn
  <2>2. g[s \ {pick(s)}] = h[s \ {pick(s)}]
    BY <1>2, <2>1
  <2>3. s \in SUBSET S
    OBVIOUS
  <2>4. g[s] = f[pick(s)] + g[s \ {pick(s)}]
    BY <1>2, <2>3 DEF Sums
  <2>5. h[s] = f[pick(s)] + h[s \ {pick(s)}]
    BY <1>2 DEF Sums
  <2> QED BY <2>2, <2>4, <2>5
<1>3. IsFiniteSet(T)
  BY FS_Subset
<1>4. P \subseteq SUBSET T
  OBVIOUS
<1> HIDE DEF P
<1>5. P = SUBSET T
  BY <1>1, <1>2, <1>3, <1>4, SubsetInduction
<1> QED BY <1>5 DEF P

\* A sum is its picked element's and the rest's.
LEMMA SumStep ==
    ASSUME NEW f, NEW S, IsFiniteSet(S), Natural(f, S)
    PROVE  Total(f, S) = IF S = {} THEN 0 ELSE f[pick(S)] + Total(f, S \ {pick(S)})
<1> DEFINE g == CHOOSE u : Sums(u, f, S)
           r == S \ {pick(S)}
           h == CHOOSE u : Sums(u, f, r)
<1>1. Sums(g, f, S)
  BY SumsExist
<1>2. Total(f, S) = g[S]
  BY SumIs
<1>3. CASE S = {}
  <2> HIDE DEF g
  <2> QED BY <1>1, <1>2, <1>3 DEF Sums
<1>4. CASE S # {}
  <2>1. IsFiniteSet(r) /\ r \in SUBSET S /\ Natural(f, r)
    BY FS_Subset DEF Natural
  <2>2. Sums(h, f, r)
    BY <2>1, SumsExist
  <2>3. Total(f, r) = h[r]
    BY SumIs
  <2> HIDE DEF g, h
  <2>4. g[r] = h[r]
    BY <1>1, <2>1, <2>2, SumsAgree
  <2>5. g[S] = f[pick(S)] + g[r]
    BY <1>1, <1>4 DEF Sums
  <2> QED BY <1>2, <1>4, <2>3, <2>4, <2>5
<1> QED BY <1>3, <1>4

LEMMA SumEmpty == ASSUME NEW f PROVE Total(f, {}) = 0
BY FS_EmptySet, SumStep DEF Natural

\* A sum of naturals is one.
LEMMA SumType == ASSUME NEW f, NEW S, IsFiniteSet(S), Natural(f, S) PROVE Total(f, S) \in Nat
<1> DEFINE P == {s \in SUBSET S : Total(f, s) \in Nat}
<1>0. \A s \in SUBSET S : IsFiniteSet(s) /\ Natural(f, s)
  BY FS_Subset DEF Natural
<1>1. {} \in P
  BY SumEmpty
<1>2. ASSUME NEW s \in SUBSET S, s # {}, \A x \in s : s \ {x} \in P PROVE s \in P
  <2>1. pick(s) \in s /\ f[pick(s)] \in Nat
    BY <1>2, PickIn DEF Natural
  <2>2. Total(f, s) = f[pick(s)] + Total(f, s \ {pick(s)})
    BY <1>0, <1>2, SumStep
  <2>3. Total(f, s \ {pick(s)}) \in Nat
    BY <1>2, <2>1
  <2> QED BY <2>1, <2>2, <2>3
<1>3. P \subseteq SUBSET S
  OBVIOUS
<1> HIDE DEF P
<1>4. P = SUBSET S
  BY <1>1, <1>2, <1>3, SubsetInduction
<1> QED BY <1>4 DEF P

\* Whichever element is taken out.
LEMMA SumRemove ==
    ASSUME NEW f, NEW S, IsFiniteSet(S), Natural(f, S), NEW y \in S
    PROVE  Total(f, S) = f[y] + Total(f, S \ {y})
<1> DEFINE P == {s \in SUBSET S : \A x \in s : Total(f, s) = f[x] + Total(f, s \ {x})}
<1>0. \A s \in SUBSET S : IsFiniteSet(s) /\ Natural(f, s) /\ Total(f, s) \in Nat
  BY FS_Subset, SumType DEF Natural
<1>1. {} \in P
  OBVIOUS
<1>2. ASSUME NEW s \in SUBSET S, s # {}, \A x \in s : s \ {x} \in P PROVE s \in P
  <2> SUFFICES ASSUME NEW x \in s PROVE Total(f, s) = f[x] + Total(f, s \ {x})
    OBVIOUS
  <2>1. pick(s) \in s
    BY <1>2, PickIn
  <2>2. Total(f, s) = f[pick(s)] + Total(f, s \ {pick(s)})
    BY <1>0, <1>2, SumStep
  <2>3. CASE x = pick(s)
    BY <2>2, <2>3
  <2>4. CASE x # pick(s)
    <3> DEFINE p == pick(s)
               m == s \ {p}
               n == s \ {x}
               k == (s \ {p}) \ {x}
    <3> HIDE DEF p
    <3>1. m \in P /\ n \in P /\ x \in m /\ p \in n /\ n \ {p} = k /\ m \ {x} = k
      BY <1>2, <2>1, <2>4 DEF p
    <3>2. Total(f, m) = f[x] + Total(f, m \ {x}) /\ Total(f, n) = f[p] + Total(f, n \ {p})
      <4> HIDE DEF m, n, k
      <4> QED BY <3>1
    <3>3. f[x] \in Nat /\ f[p] \in Nat /\ Total(f, k) \in Nat
      BY <1>0, <2>1 DEF Natural, p
    <3>4. Total(f, s) = f[p] + Total(f, m)
      BY <2>2 DEF p
    <3> QED BY <3>1, <3>2, <3>3, <3>4
  <2> QED BY <2>3, <2>4
<1>3. P \subseteq SUBSET S
  OBVIOUS
<1>4. P = SUBSET S
  <2> HIDE DEF P
  <2> QED BY <1>1, <1>2, <1>3, SubsetInduction
<1> QED BY <1>4

\* Of less, a sum is no more.
LEMMA SumMono ==
    ASSUME NEW f, NEW g, NEW S, IsFiniteSet(S), NEW T \in SUBSET S, Natural(f, T), Natural(g, S),
           \A x \in T : f[x] <= g[x]
    PROVE  Total(f, T) <= Total(g, S)
<1> DEFINE P == {s \in SUBSET S : \A t \in SUBSET s : t \subseteq T => Total(f, t) <= Total(g, s)}
<1>0. \A s \in SUBSET S : IsFiniteSet(s) /\ Natural(g, s) /\ Total(g, s) \in Nat
  BY FS_Subset, SumType DEF Natural
<1>9. \A s \in SUBSET T : IsFiniteSet(s) /\ Natural(f, s) /\ Total(f, s) \in Nat
  <2>1. \A s \in SUBSET T : Natural(f, s) /\ s \in SUBSET S
    BY DEF Natural
  <2> QED BY <1>0, <2>1, SumType
<1>1. {} \in P
  <2> SUFFICES ASSUME NEW t \in SUBSET {} PROVE Total(f, t) <= Total(g, {})
    OBVIOUS
  <2>1. t = {}
    OBVIOUS
  <2> QED BY <2>1, SumEmpty
<1>2. ASSUME NEW s \in SUBSET S, s # {}, \A x \in s : s \ {x} \in P PROVE s \in P
  <2> SUFFICES ASSUME NEW t \in SUBSET s, t \subseteq T PROVE Total(f, t) <= Total(g, s)
    OBVIOUS
  <2>1. PICK p \in s : TRUE
    BY <1>2
  <2>2. Total(g, s) = g[p] + Total(g, s \ {p})
    BY <1>0, SumRemove
  <2>3. g[p] \in Nat /\ Total(g, s \ {p}) \in Nat
    BY <1>0 DEF Natural
  <2>4. Total(f, t \ {p}) <= Total(g, s \ {p}) /\ Total(f, t \ {p}) \in Nat
    BY <1>2, <1>9
  <2>5. CASE p \in t
    <3>1. Total(f, t) = f[p] + Total(f, t \ {p})
      BY <1>9, <2>5, SumRemove
    <3>2. f[p] \in Nat /\ f[p] <= g[p]
      BY <2>5 DEF Natural
    <3> QED BY <2>2, <2>3, <2>4, <3>1, <3>2
  <2>6. CASE p \notin t
    <3>1. t \ {p} = t
      BY <2>6
    <3>2. Total(f, t) <= Total(g, s \ {p})
      BY <2>4, <3>1
    <3>3. Total(f, t) \in Nat
      BY <1>9
    <3> HIDE DEF P
    <3> QED BY <2>2, <2>3, <3>2, <3>3
  <2> QED BY <2>5, <2>6
<1>3. P \subseteq SUBSET S
  OBVIOUS
<1>4. P = SUBSET S
  <2> HIDE DEF P
  <2> QED BY <1>1, <1>2, <1>3, SubsetInduction
<1> QED BY <1>4

-----------------------------------------------------------------------------
(* Walks of the pools.                                                     *)

Identities == {Identity(doc) : doc \in DOMAIN Docs}

\* The shape of a walk over the tenants of T.
WalkType(w, T) ==
    /\ w = [on |-> w.on, planned |-> w.planned, ceiling |-> w.ceiling,
            unreadable |-> w.unreadable, ok |-> w.ok, errs |-> w.errs]
    /\ w.on \in [T -> DOMAIN Docs \cup {None}]
    /\ IsFiniteSet(DOMAIN w.planned) /\ w.planned \in [DOMAIN w.planned -> Nat]
    /\ DOMAIN w.planned \subseteq Identities
    /\ w.ceiling \in Nat /\ w.ok \in BOOLEAN /\ w.errs \in BOOLEAN

\* The pools some tenant is on.
Live(w) == {id \in DOMAIN w.planned : members(w, id) # {}}

Pooled(w) == \A t \in DOMAIN w.on : w.on[t] # None => Identity(w.on[t]) \in DOMAIN w.planned

\* A pool the walk emptied is planned at nothing, so the walk may fill it again.
Emptied(w) == \A id \in DOMAIN w.planned \ Live(w) : w.planned[id] = 0

Within(w) == w.ceiling > 0 => Total(w.planned, Live(w)) <= w.ceiling

WalkInv(w, T) == IsFiniteSet(T) /\ WalkType(w, T) /\ Pooled(w) /\ Emptied(w) /\ Within(w)

\* Tenant t is on doc's pool, which is as large as doc asks.
Sat(w, t, doc) == w.on[t] = doc /\ w.planned[Identity(doc)] >= Docs[doc].open

\* A pool's size is its largest ask.
LEMMA SizesIs ==
    ASSUME NEW w, NEW T, IsFiniteSet(T), WalkType(w, T), NEW id
    PROVE  /\ sizes(w, id) \in Nat
           /\ \A t \in members(w, id) : sizes(w, id) >= Docs[w.on[t]].open
           /\ members(w, id) = {} => sizes(w, id) = 0
<1> DEFINE M == members(w, id)
           S == {Docs[w.on[t]].open : t \in M}
           f == [t \in M |-> Docs[w.on[t]].open]
<1>1. M \in SUBSET T /\ \A t \in M : w.on[t] \in DOMAIN Docs
  BY DEF members, WalkType
<1>2. IsFiniteSet(M)
  BY <1>1, FS_Subset
<1>3. IsFiniteSet(S)
  <2>1. f \in Surjection(M, S)
    BY DEF Surjection
  <2> HIDE DEF f, S
  <2> QED BY <1>2, <2>1, FS_Surjection
<1>4. S \subseteq Nat
  BY <1>1, DocsAssumption
<1> DEFINE U == {0} \cup S
<1>5. IsFiniteSet(U) /\ U \subseteq Nat /\ U # {}
  <2>1. IsFiniteSet(S \cup {0})
    <3> HIDE DEF S
    <3> QED BY <1>3, FS_AddElement
  <2>2. U = S \cup {0}
    OBVIOUS
  <2> HIDE DEF S
  <2> QED BY <1>4, <2>1, <2>2
<1>6. Max(U) \in U /\ \A y \in U : Max(U) >= y
  <2> HIDE DEF U
  <2> QED BY <1>5, LargestIsThere
<1>7. sizes(w, id) = Max(U)
  BY DEF sizes
<1>8. \A t \in M : Docs[w.on[t]].open \in U
  OBVIOUS
<1>9. M = {} => U = {0}
  OBVIOUS
<1> HIDE DEF U, M
<1> QED BY <1>5, <1>6, <1>7, <1>8, <1>9 DEF M

\* Fewer pools, planned no larger.
LEMMA Lowered ==
    ASSUME NEW w, NEW v, NEW T, WalkType(w, T), WalkType(v, T), Within(w), v.ceiling = w.ceiling,
           Live(v) \subseteq Live(w), \A id \in Live(v) : v.planned[id] <= w.planned[id]
    PROVE  Within(v)
<1>1. IsFiniteSet(Live(w))
  BY FS_Subset DEF WalkType, Live
<1>2. Natural(w.planned, Live(w)) /\ Natural(v.planned, Live(v))
  BY DEF WalkType, Live, Natural
<1>3. Total(v.planned, Live(v)) <= Total(w.planned, Live(w))
  BY <1>1, <1>2, SumMono
<1>4. Total(v.planned, Live(v)) \in Nat /\ Total(w.planned, Live(w)) \in Nat
  BY <1>1, <1>2, SumType, FS_Subset
<1> QED BY <1>3, <1>4 DEF Within, WalkType

\* A pool given the size that was found to fit.
LEMMA Fitted ==
    ASSUME NEW w, NEW v, NEW T, WalkType(w, T), WalkType(v, T), v.ceiling = w.ceiling,
           NEW id, NEW s \in Nat, fits(w, id, s), v.planned[id] = s, id \in DOMAIN v.planned,
           \A o \in Live(v) \ {id} : o \in Live(w) /\ v.planned[o] <= w.planned[o]
    PROVE  Within(v)
<1> DEFINE others == {o \in DOMAIN w.planned \ {id} : members(w, o) # {}}
           rest == Live(v) \ {id}
<1>1. SUFFICES ASSUME v.ceiling > 0 PROVE Total(v.planned, Live(v)) <= v.ceiling
  BY DEF Within
<1>2. s + Total(w.planned, others) <= w.ceiling
  BY <1>1 DEF fits, Total, WalkType
<1>3. IsFiniteSet(others) /\ Natural(w.planned, others) /\ rest \in SUBSET others
  BY FS_Subset DEF WalkType, Natural, Live
<1>4. IsFiniteSet(Live(v)) /\ Natural(v.planned, Live(v)) /\ Natural(v.planned, rest)
  BY FS_Subset DEF WalkType, Live, Natural
<1> HIDE DEF others, rest
<1>5. Total(v.planned, rest) <= Total(w.planned, others)
  BY <1>3, <1>4, SumMono DEF rest
<1>6. Total(v.planned, rest) \in Nat /\ Total(w.planned, others) \in Nat
  BY <1>3, <1>4, SumType, FS_Subset
<1>7. CASE id \in Live(v)
  <2>1. Total(v.planned, Live(v)) = s + Total(v.planned, rest)
    BY <1>4, <1>7, SumRemove DEF rest
  <2> QED BY <1>2, <1>5, <1>6, <2>1 DEF WalkType
<1>8. CASE id \notin Live(v)
  <2>1. rest = Live(v)
    BY <1>8 DEF rest
  <2> QED BY <1>2, <1>5, <1>6, <2>1 DEF WalkType
<1> QED BY <1>7, <1>8

\* A pool planned at nothing.
LEMMA Nothing ==
    ASSUME NEW w, NEW v, NEW T, WalkType(w, T), WalkType(v, T), Within(w), v.ceiling = w.ceiling,
           NEW id \in DOMAIN v.planned, v.planned[id] = 0,
           \A o \in Live(v) \ {id} : o \in Live(w) /\ v.planned[o] <= w.planned[o]
    PROVE  Within(v)
<1> DEFINE rest == Live(v) \ {id}
<1>1. IsFiniteSet(Live(w)) /\ Natural(w.planned, Live(w)) /\ rest \in SUBSET Live(w)
  BY FS_Subset DEF WalkType, Natural, Live
<1>2. IsFiniteSet(Live(v)) /\ Natural(v.planned, Live(v)) /\ Natural(v.planned, rest)
  BY FS_Subset DEF WalkType, Live, Natural
<1>3. Total(v.planned, rest) <= Total(w.planned, Live(w))
  <2> HIDE DEF rest
  <2> QED BY <1>1, <1>2, SumMono DEF rest
<1>4. Total(v.planned, rest) \in Nat /\ Total(w.planned, Live(w)) \in Nat
  <2> HIDE DEF rest
  <2> QED BY <1>1, <1>2, SumType, FS_Subset
<1>5. Total(v.planned, Live(v)) = Total(v.planned, rest)
  <2>1. CASE id \in Live(v)
    <3>1. Total(v.planned, Live(v)) = 0 + Total(v.planned, rest)
      BY <1>2, <2>1, SumRemove
    <3> HIDE DEF rest
    <3> QED BY <1>4, <3>1
  <2>2. CASE id \notin Live(v)
    <3>1. rest = Live(v)
      BY <2>2
    <3> QED BY <3>1
  <2> QED BY <2>1, <2>2
<1> HIDE DEF rest
<1> QED BY <1>3, <1>4, <1>5 DEF Within, WalkType

\* What a step of the walk keeps for the tenants it is not about.
Keeps(w, v, T, t) ==
    /\ v.ceiling = w.ceiling /\ v.unreadable = w.unreadable
    /\ DOMAIN w.planned \subseteq DOMAIN v.planned
    /\ \A u \in T \ {t} : /\ v.on[u] = w.on[u]
                          /\ \A doc \in DOMAIN Docs : Sat(w, u, doc) => Sat(v, u, doc)

\* A tenant leaves its pool, which shrinks to what those left on it ask.
LEMMA Leave ==
    ASSUME NEW T, NEW w, WalkInv(w, T), NEW t \in T
    PROVE  /\ WalkInv(leave(w, t), T) /\ Keeps(w, leave(w, t), T, t)
           /\ leave(w, t).on[t] = None /\ leave(w, t).errs = w.errs
<1>0. WalkType(w, T) /\ IsFiniteSet(T)
  BY DEF WalkInv
<1>1. CASE w.on[t] = None
  BY <1>1 DEF leave, Keeps
<1>2. CASE w.on[t] # None
  <2> DEFINE id == Identity(w.on[t])
             m == [w EXCEPT !.on[t] = None]
             s == sizes(m, id)
             v == leave(w, t)
  <2>1. id \in DOMAIN w.planned
    BY <1>0, <1>2 DEF WalkInv, Pooled, WalkType
  <2>2. /\ m.on = [w.on EXCEPT ![t] = None] /\ m.planned = w.planned
        /\ WalkType(m, T)
    <3>1. m = [on |-> [w.on EXCEPT ![t] = None], planned |-> w.planned, ceiling |-> w.ceiling,
               unreadable |-> w.unreadable, ok |-> w.ok, errs |-> w.errs]
      BY <1>0 DEF WalkType
    <3> HIDE DEF m
    <3> QED BY <1>0, <3>1 DEF WalkType
  <2>3. v = shrink(m, id, s)
    BY <1>2 DEF leave, shrunk
  <2> HIDE DEF m, v
  <2>4. /\ s \in Nat /\ \A u \in members(m, id) : s >= Docs[m.on[u]].open
        /\ members(m, id) = {} => s = 0
    BY <1>0, <2>2, SizesIs
  <2> HIDE DEF s
  <2>5. v = [on |-> m.on, planned |-> [w.planned EXCEPT ![id] = IF s <= w.planned[id] THEN s ELSE w.planned[id]],
             ceiling |-> w.ceiling, unreadable |-> w.unreadable, ok |-> w.ok, errs |-> w.errs]
    <3>1. m = [on |-> m.on, planned |-> w.planned, ceiling |-> w.ceiling,
               unreadable |-> w.unreadable, ok |-> w.ok, errs |-> w.errs]
      BY <1>0 DEF m, WalkType
    <3> QED BY <2>3, <3>1 DEF shrink
  <2> HIDE DEF id
  <2>6. /\ DOMAIN v.planned = DOMAIN w.planned
        /\ \A o \in DOMAIN w.planned \ {id} : v.planned[o] = w.planned[o]
        /\ v.planned[id] = IF s <= w.planned[id] THEN s ELSE w.planned[id]
        /\ v.planned \in [DOMAIN w.planned -> Nat]
    BY <1>0, <2>1, <2>4, <2>5 DEF WalkType
  <2>7. WalkType(v, T)
    BY <1>0, <2>2, <2>5, <2>6 DEF WalkType
  <2>8. v.on[t] = None /\ \A u \in T \ {t} : v.on[u] = w.on[u]
    BY <1>0, <2>2, <2>5 DEF WalkType
  <2>9. DOMAIN v.on = T /\ DOMAIN w.on = T /\ DOMAIN m.on = T /\ v.on = m.on
    BY <1>0, <2>2, <2>5, <2>7 DEF WalkType
  <2>10. \A o : members(v, o) = members(m, o) /\ members(v, o) = members(w, o) \ {t}
    BY <2>8, <2>9 DEF members
  <2>11. \A o : o # id => members(v, o) = members(w, o)
    BY <2>8, <2>9, <2>10 DEF members, id
  <2>12. Live(v) \subseteq Live(w)
    BY <2>6, <2>10 DEF Live
  <2>13. \A o \in DOMAIN w.planned : v.planned[o] <= w.planned[o]
    BY <1>0, <2>1, <2>4, <2>6 DEF WalkType
  <2>14. Within(v)
    BY <1>0, <2>5, <2>7, <2>12, <2>13, Lowered DEF WalkInv, Live
  <2>15. Pooled(v)
    BY <2>6, <2>8, <2>9 DEF WalkInv, Pooled
  <2>16. Emptied(v)
    <3> SUFFICES ASSUME NEW o \in DOMAIN v.planned, members(v, o) = {} PROVE v.planned[o] = 0
      BY DEF Emptied, Live
    <3>1. CASE o = id
      BY <1>0, <2>1, <2>4, <2>6, <2>10, <3>1 DEF WalkType
    <3>2. CASE o # id
      <4>1. o \in DOMAIN w.planned \ Live(w)
        BY <2>6, <2>11, <3>2 DEF Live
      <4> QED BY <2>6, <3>2, <4>1 DEF WalkInv, Emptied
    <3> QED BY <3>1, <3>2
  <2>17. ASSUME NEW u \in T \ {t}, NEW doc \in DOMAIN Docs, Sat(w, u, doc) PROVE Sat(v, u, doc)
    <3>1. v.on[u] = doc /\ Identity(doc) \in DOMAIN w.planned
      BY <2>8, <2>9, <2>17, DocsAssumption DEF Sat, WalkInv, Pooled
    <3>2. CASE Identity(doc) = id
      <4>1. u \in members(m, id)
        BY <2>9, <2>17, <3>1, <3>2, DocsAssumption DEF members
      <4>2. s >= Docs[doc].open
        BY <2>4, <2>9, <3>1, <4>1
      <4> QED BY <2>6, <2>17, <3>1, <3>2, <4>2 DEF Sat
    <3>3. CASE Identity(doc) # id
      BY <2>6, <2>17, <3>1, <3>3 DEF Sat
    <3> QED BY <3>2, <3>3
  <2>18. v.ceiling = w.ceiling /\ v.unreadable = w.unreadable /\ v.errs = w.errs
    BY <2>5
  <2> QED BY <1>0, <2>6, <2>7, <2>8, <2>14, <2>15, <2>16, <2>17, <2>18 DEF WalkInv, Keeps, v
<1> QED BY <1>1, <1>2

\* What placing tenant t on doc's pool promises.
Placed(w, v, T, t, doc) ==
    /\ WalkInv(v, T) /\ Keeps(w, v, T, t)
    /\ Sat(w, t, doc) => Sat(v, t, doc)
    /\ v.ok => Sat(v, t, doc)
    /\ ~v.ok => v.errs
    /\ w.errs => v.errs

\* A tenant already on the pool: its document is replaced, and the pool sized
\* to what its tenants ask now, or kept.
LEMMA Grow ==
    ASSUME NEW T, NEW w, WalkInv(w, T), NEW t \in T, NEW doc \in DOMAIN Docs,
           w.on[t] # None, Identity(w.on[t]) = Identity(doc)
    PROVE  Placed(w, grow([w EXCEPT !.on[t] = doc], Identity(doc)), T, t, doc)
<1> DEFINE id == Identity(doc)
           m == [w EXCEPT !.on[t] = doc]
           s == sizes(m, id)
           v == growTo(m, id, s)
<1>0. WalkType(w, T) /\ IsFiniteSet(T) /\ id \in DOMAIN w.planned
  BY DEF WalkInv, Pooled, WalkType
<1>1. m = [on |-> [w.on EXCEPT ![t] = doc], planned |-> w.planned, ceiling |-> w.ceiling,
           unreadable |-> w.unreadable, ok |-> w.ok, errs |-> w.errs]
  BY <1>0 DEF WalkType
<1> HIDE DEF m
<1>2. m.on[t] = doc /\ DOMAIN m.on = T /\ DOMAIN w.on = T /\ (\A u \in T \ {t} : m.on[u] = w.on[u])
      /\ m.planned = w.planned /\ m.ceiling = w.ceiling /\ WalkType(m, T)
  BY <1>0, <1>1 DEF WalkType
<1>3. /\ s \in Nat /\ \A u \in members(m, id) : s >= Docs[m.on[u]].open
      /\ members(m, id) = {} => s = 0
  BY <1>0, <1>2, SizesIs
<1>4. \A o : members(m, o) = members(w, o)
  BY <1>2, DocsAssumption DEF members
<1> HIDE DEF s, id
<1>5. t \in members(m, id)
  BY <1>2, DocsAssumption DEF members, id
<1>6. DOMAIN m.planned = DOMAIN w.planned /\ Live(m) = Live(w)
  BY <1>2, <1>4 DEF Live
<1>7. Pooled(m) /\ Emptied(m) /\ Within(m)
  <2>1. Pooled(m)
    BY <1>0, <1>2 DEF WalkInv, Pooled, id
  <2>2. Emptied(m) /\ Within(m)
    BY <1>2, <1>6 DEF WalkInv, Emptied, Within
  <2> QED BY <2>1, <2>2
<1>8. ASSUME NEW u \in T \ {t}, NEW d \in DOMAIN Docs, Sat(w, u, d) PROVE Sat(m, u, d)
  BY <1>2, <1>8 DEF Sat
<1>9. CASE s <= m.planned[id] \/ fits(m, id, s)
  <2>1. v = [on |-> m.on, planned |-> [m.planned EXCEPT ![id] = s], ceiling |-> m.ceiling,
             unreadable |-> w.unreadable, ok |-> TRUE, errs |-> w.errs]
    BY <1>1, <1>9 DEF growTo
  <2> HIDE DEF v
  <2>2. /\ DOMAIN v.planned = DOMAIN w.planned /\ v.planned[id] = s
        /\ \A o \in DOMAIN w.planned \ {id} : v.planned[o] = w.planned[o]
        /\ v.planned \in [DOMAIN w.planned -> Nat]
    BY <1>0, <1>2, <1>3, <2>1 DEF WalkType
  <2>3. WalkType(v, T)
    BY <1>0, <1>2, <2>1, <2>2 DEF WalkType
  <2>4. v.on = m.on /\ v.ceiling = w.ceiling /\ v.unreadable = w.unreadable /\ v.ok /\ v.errs = w.errs
    BY <1>2, <2>1
  <2>5. (\A o : members(v, o) = members(w, o)) /\ Live(v) = Live(w)
    <3>1. \A o : members(v, o) = members(m, o)
      BY <2>4 DEF members
    <3> QED BY <1>4, <2>2, <3>1 DEF Live
  <2>6. Within(v)
    <3>1. CASE s <= m.planned[id]
      <4>1. \A o \in Live(v) : v.planned[o] <= w.planned[o]
        BY <1>0, <1>2, <2>2, <3>1 DEF Live, WalkType
      <4> QED BY <1>0, <2>3, <2>4, <2>5, <4>1, Lowered DEF WalkInv
    <3>2. CASE fits(m, id, s)
      <4>1. \A o \in Live(v) \ {id} : o \in Live(m) /\ v.planned[o] <= m.planned[o]
        BY <1>0, <1>2, <1>6, <2>2, <2>5 DEF Live, WalkType
      <4>2. id \in DOMAIN v.planned /\ v.ceiling = m.ceiling
        BY <1>0, <1>2, <2>2, <2>4 DEF id
      <4> QED BY <1>2, <1>3, <2>2, <2>3, <3>2, <4>1, <4>2, Fitted
    <3> QED BY <1>9, <3>1, <3>2
  <2>7. Pooled(v)
    BY <1>7, <2>2, <2>4, <1>6 DEF Pooled
  <2>8. Emptied(v)
    <3> SUFFICES ASSUME NEW o \in DOMAIN w.planned \ Live(w) PROVE v.planned[o] = 0
      BY <2>2, <2>5 DEF Emptied
    <3>1. o # id
      BY <1>0, <1>4, <1>5 DEF Live
    <3> QED BY <2>2, <3>1 DEF WalkInv, Emptied
  <2>9. \A u \in members(m, id) : v.planned[id] >= Docs[m.on[u]].open
    BY <1>3, <2>2
  <2>10. ASSUME NEW u \in T \ {t}, NEW d \in DOMAIN Docs, Sat(w, u, d) PROVE Sat(v, u, d)
    <3>1. m.on[u] = d /\ w.on[u] = d
      BY <1>2, <2>10 DEF Sat
    <3>2. CASE Identity(d) = id
      <4>1. u \in members(m, id)
        BY <1>2, <3>1, <3>2, DocsAssumption DEF members
      <4> QED BY <2>4, <2>9, <3>1, <3>2, <4>1 DEF Sat
    <3>3. CASE Identity(d) # id
      <4>1. Identity(d) \in DOMAIN w.planned
        BY <1>2, <3>1, DocsAssumption DEF WalkInv, Pooled
      <4> QED BY <2>2, <2>4, <2>10, <3>1, <3>3, <4>1 DEF Sat
    <3> QED BY <3>2, <3>3
  <2>11. Sat(v, t, doc)
    BY <1>2, <1>5, <2>4, <2>9 DEF Sat, id
  <2>12. \A u \in T \ {t} : v.on[u] = w.on[u]
    BY <1>2, <2>4
  <2>13. grow(m, id) = v
    BY DEF grow, v, s
  <2>14. WalkInv(v, T) /\ Keeps(w, v, T, t)
    BY <1>0, <2>2, <2>3, <2>4, <2>6, <2>7, <2>8, <2>10, <2>12 DEF WalkInv, Keeps
  <2>15. Placed(w, v, T, t, doc)
    BY <2>4, <2>11, <2>14 DEF Placed
  <2> QED BY <2>13, <2>15 DEF m, id
<1>10. CASE ~(s <= m.planned[id] \/ fits(m, id, s))
  <2>1. v = [on |-> m.on, planned |-> m.planned, ceiling |-> m.ceiling,
             unreadable |-> w.unreadable, ok |-> FALSE, errs |-> TRUE]
    BY <1>1, <1>10 DEF growTo, refuse
  <2> HIDE DEF v
  <2>2. (\A o : members(v, o) = members(m, o)) /\ Live(v) = Live(m) /\ WalkType(v, T)
    BY <1>2, <2>1 DEF members, Live, WalkType
  <2>3. Pooled(v) /\ Emptied(v) /\ Within(v)
    BY <1>7, <2>1, <2>2 DEF Pooled, Emptied, Within
  <2>4. \A u \in T \ {t} : v.on[u] = w.on[u] /\ \A d \in DOMAIN Docs : Sat(w, u, d) => Sat(v, u, d)
    BY <1>2, <1>8, <2>1 DEF Sat
  <2>5. Sat(w, t, doc) => Sat(v, t, doc)
    BY <1>2, <2>1 DEF Sat
  <2>6. WalkInv(v, T) /\ Keeps(w, v, T, t)
    BY <1>0, <1>2, <2>1, <2>2, <2>3, <2>4 DEF WalkInv, Keeps
  <2>7. Placed(w, v, T, t, doc)
    BY <2>1, <2>5, <2>6 DEF Placed
  <2>8. grow(m, id) = v
    BY DEF grow, v, s
  <2> QED BY <2>7, <2>8 DEF m, id
<1> QED BY <1>9, <1>10

\* A tenant on no pool joins one, open or to be opened.
LEMMA Join ==
    ASSUME NEW T, NEW w, WalkInv(w, T), NEW t \in T, NEW doc \in DOMAIN Docs, w.on[t] = None, w.ok \in BOOLEAN
    PROVE  LET j == join(w, t, doc)
           IN  j.ok => Placed(w, j, T, t, doc)
<1> DEFINE id == Identity(doc)
           s == Docs[doc].open
           j == join(w, t, doc)
<1>0. WalkType(w, T) /\ IsFiniteSet(T) /\ s \in Nat
  BY DocsAssumption DEF WalkInv
<1>1. w = [on |-> w.on, planned |-> w.planned, ceiling |-> w.ceiling,
           unreadable |-> w.unreadable, ok |-> w.ok, errs |-> w.errs]
  BY <1>0 DEF WalkType
<1> SUFFICES ASSUME j.ok PROVE Placed(w, j, T, t, doc)
  OBVIOUS
<1>2. /\ j.on = [w.on EXCEPT ![t] = doc] /\ j.ok = TRUE /\ j.ceiling = w.ceiling
      /\ j.unreadable = w.unreadable /\ j.errs = w.errs
      /\ j = [on |-> j.on, planned |-> j.planned, ceiling |-> w.ceiling,
              unreadable |-> w.unreadable, ok |-> TRUE, errs |-> w.errs]
      /\ \/ /\ id \notin DOMAIN w.planned /\ fits(w, id, s) /\ j.planned = opened(w.planned, id, s)
         \/ /\ id \in DOMAIN w.planned /\ (s <= w.planned[id] \/ fits(w, id, s))
            /\ j.planned = [w.planned EXCEPT ![id] = Max({w.planned[id], s})]
  <2>0. refuse(w).ok = FALSE
    BY <1>1 DEF refuse
  <2>1. CASE id \in DOMAIN w.planned
    <3>1. j = sharePool(w, t, doc, id, s)
      BY <2>1 DEF join
    <3> DEFINE big == [w.planned EXCEPT ![id] = Max({w.planned[id], s})]
    <3> HIDE DEF j, id, s
    <3>2. s <= w.planned[id] \/ fits(w, id, s)
      BY <2>0, <3>1 DEF sharePool
    <3>3. j = [w EXCEPT !.on = [w.on EXCEPT ![t] = doc], !.planned = big, !.ok = TRUE]
      BY <3>1, <3>2 DEF sharePool
    <3> HIDE DEF big
    <3>4. j = [on |-> [w.on EXCEPT ![t] = doc], planned |-> big, ceiling |-> w.ceiling,
               unreadable |-> w.unreadable, ok |-> TRUE, errs |-> w.errs]
      BY <1>1, <3>3
    <3> QED BY <2>1, <3>2, <3>4 DEF big
  <2>2. CASE id \notin DOMAIN w.planned
    <3>1. j = openPool(w, t, doc, id, s)
      BY <2>2 DEF join
    <3> DEFINE more == opened(w.planned, id, s)
    <3> HIDE DEF j, id, s
    <3>2. fits(w, id, s) /\ id \notin w.unreadable
      BY <2>0, <3>1 DEF openPool
    <3>3. j = [w EXCEPT !.on = [w.on EXCEPT ![t] = doc], !.planned = more, !.ok = TRUE]
      BY <3>1, <3>2 DEF openPool
    <3> HIDE DEF more
    <3>4. j = [on |-> [w.on EXCEPT ![t] = doc], planned |-> more, ceiling |-> w.ceiling,
               unreadable |-> w.unreadable, ok |-> TRUE, errs |-> w.errs]
      BY <1>1, <3>3
    <3> QED BY <2>2, <3>2, <3>4 DEF more
  <2> QED BY <2>1, <2>2
<1> HIDE DEF j, id, s
<1>3. /\ DOMAIN j.planned = DOMAIN w.planned \cup {id}
      /\ j.planned \in [DOMAIN w.planned \cup {id} -> Nat]
      /\ \A o \in DOMAIN w.planned : j.planned[o] >= w.planned[o]
      /\ \A o \in DOMAIN w.planned \ {id} : j.planned[o] = w.planned[o]
      /\ j.planned[id] >= s
      /\ \/ j.planned[id] = s /\ fits(w, id, s)
         \/ id \in DOMAIN w.planned /\ s <= w.planned[id] /\ j.planned[id] = w.planned[id]
  <2>1. CASE id \notin DOMAIN w.planned
    <3>1. j.planned = [i \in DOMAIN w.planned \cup {id} |-> IF i = id THEN s ELSE w.planned[i]]
      BY <1>2, <2>1 DEF opened
    <3>2. \A i \in DOMAIN w.planned : w.planned[i] \in Nat
      BY <1>0 DEF WalkType
    <3> QED BY <1>0, <1>2, <2>1, <3>1, <3>2
  <2>2. CASE id \in DOMAIN w.planned
    <3>1. w.planned[id] \in Nat
      BY <1>0, <2>2 DEF WalkType
    <3>2. Max({w.planned[id], s}) = IF s <= w.planned[id] THEN w.planned[id] ELSE s
      BY <1>0, <3>1 DEF Max
    <3>3. j.planned = [w.planned EXCEPT ![id] = IF s <= w.planned[id] THEN w.planned[id] ELSE s]
      BY <1>2, <2>2, <3>2
    <3> QED BY <1>0, <1>2, <2>2, <3>1, <3>3 DEF WalkType
  <2> QED BY <2>1, <2>2
<1>4. WalkType(j, T)
  <2>1. IsFiniteSet(DOMAIN j.planned)
    BY <1>0, <1>3, FS_AddElement DEF WalkType
  <2>2. id \in Identities
    BY DEF id, Identities
  <2> QED BY <1>0, <1>2, <1>3, <2>1, <2>2 DEF WalkType
<1>5. DOMAIN j.on = T /\ DOMAIN w.on = T /\ j.on[t] = doc /\ \A u \in T \ {t} : j.on[u] = w.on[u]
  BY <1>0, <1>2 DEF WalkType
<1>6. /\ \A o : o # id => members(j, o) = members(w, o)
      /\ members(j, id) # {}
  BY <1>5, DocsAssumption DEF members, id
<1>7. \A o \in Live(j) \ {id} : o \in Live(w) /\ j.planned[o] <= w.planned[o]
  BY <1>0, <1>3, <1>6 DEF Live, WalkType
<1>8. Within(j)
  <2>1. CASE j.planned[id] = s /\ fits(w, id, s)
    BY <1>0, <1>2, <1>3, <1>4, <1>7, <2>1, Fitted
  <2>2. CASE id \in DOMAIN w.planned /\ s <= w.planned[id] /\ j.planned[id] = w.planned[id]
    <3>1. CASE id \in Live(w)
      <4>1. Live(j) \subseteq Live(w)
        BY <1>7, <3>1
      <4>2. \A o \in Live(j) : j.planned[o] <= w.planned[o]
        BY <1>0, <1>7, <2>2 DEF WalkType
      <4> QED BY <1>0, <1>2, <1>4, <4>1, <4>2, Lowered DEF WalkInv
    <3>2. CASE id \notin Live(w)
      <4>1. j.planned[id] = 0
        BY <2>2, <3>2 DEF WalkInv, Emptied
      <4> QED BY <1>0, <1>2, <1>3, <1>4, <1>7, <4>1, Nothing DEF WalkInv
    <3> QED BY <3>1, <3>2
  <2> QED BY <1>3, <2>1, <2>2
<1>9. Pooled(j)
  BY <1>3, <1>5 DEF WalkInv, Pooled, id
<1>10. Emptied(j)
  <2> SUFFICES ASSUME NEW o \in DOMAIN j.planned \ Live(j) PROVE j.planned[o] = 0
    BY DEF Emptied
  <2>1. o # id /\ o \in DOMAIN w.planned
    BY <1>3, <1>6 DEF Live
  <2>2. o \notin Live(w)
    BY <1>6, <2>1 DEF Live
  <2> QED BY <1>3, <2>1, <2>2 DEF WalkInv, Emptied
<1>11. ASSUME NEW u \in T \ {t}, NEW d \in DOMAIN Docs, Sat(w, u, d) PROVE Sat(j, u, d)
  <2>1. w.on[u] = d /\ Identity(d) \in DOMAIN w.planned
    BY <1>5, <1>11, DocsAssumption DEF Sat, WalkInv, Pooled
  <2>2. j.planned[Identity(d)] \in Nat /\ w.planned[Identity(d)] \in Nat /\ Docs[d].open \in Nat
    BY <1>0, <1>3, <2>1, DocsAssumption DEF WalkType
  <2> QED BY <1>3, <1>5, <1>11, <2>1, <2>2 DEF Sat
<1>12. Sat(j, t, doc)
  BY <1>3, <1>5 DEF Sat, id, s
<1>13. WalkInv(j, T) /\ Keeps(w, j, T, t)
  BY <1>0, <1>2, <1>3, <1>4, <1>5, <1>8, <1>9, <1>10, <1>11 DEF WalkInv, Keeps
<1> QED BY <1>2, <1>12, <1>13 DEF Placed, j

\* What a refusal leaves, and reports.
LEMMA Refused ==
    ASSUME NEW T, NEW w, WalkInv(w, T), NEW t \in T, NEW doc \in DOMAIN Docs
    PROVE  Placed(w, refuse(w), T, t, doc)
<1>1. WalkType(w, T)
  BY DEF WalkInv
<1> DEFINE v == refuse(w)
<1>0. v = refuse(w)
  OBVIOUS
<1> HIDE DEF v
<1>2. v = [on |-> w.on, planned |-> w.planned, ceiling |-> w.ceiling,
           unreadable |-> w.unreadable, ok |-> FALSE, errs |-> TRUE]
  <2>1. w = [on |-> w.on, planned |-> w.planned, ceiling |-> w.ceiling,
             unreadable |-> w.unreadable, ok |-> w.ok, errs |-> w.errs]
    BY <1>1 DEF WalkType
  <2> QED BY <1>0, <2>1 DEF refuse
<1>3. (\A o : members(v, o) = members(w, o)) /\ WalkType(v, T)
  BY <1>1, <1>2 DEF members, WalkType
<1>4. Live(v) = Live(w)
  BY <1>2, <1>3 DEF Live
<1>5. WalkInv(v, T)
  BY <1>2, <1>3, <1>4 DEF WalkInv, Pooled, Emptied, Within
<1>6. \A u, d : Sat(w, u, d) => Sat(v, u, d)
  BY <1>2 DEF Sat
<1>7. Keeps(w, v, T, t)
  BY <1>2, <1>6 DEF Keeps
<1>8. Placed(w, v, T, t, doc)
  BY <1>2, <1>5, <1>6, <1>7 DEF Placed
<1> QED BY <1>8 DEF v

\* A tenant is placed on its document's pool, kept where it was, or left on
\* its pool with the document it could not be sized for.
LEMMA Place ==
    ASSUME NEW T, NEW w, WalkInv(w, T), NEW t \in T, NEW doc \in DOMAIN Docs
    PROVE  Placed(w, place(w, t, doc), T, t, doc)
<1>1. CASE w.on[t] # None /\ Identity(w.on[t]) = Identity(doc)
  BY <1>1, Grow DEF place
<1>2. CASE ~(w.on[t] # None /\ Identity(w.on[t]) = Identity(doc))
  <2> DEFINE l == leave(w, t)
             j == join(l, t, doc)
  <2>1. place(w, t, doc) = IF j.ok THEN j ELSE refuse(w)
    BY <1>2 DEF place, moved
  <2>2. WalkInv(l, T) /\ Keeps(w, l, T, t) /\ l.on[t] = None /\ l.errs = w.errs
    BY Leave
  <2> HIDE DEF l
  <2>3. CASE j.ok
    <3>1. Placed(l, j, T, t, doc)
      BY <2>2, <2>3, Join DEF WalkInv, WalkType
    <3> HIDE DEF j
    <3>2. Keeps(w, j, T, t)
      BY <2>2, <3>1 DEF Placed, Keeps
    <3>3. Placed(w, j, T, t, doc)
      BY <2>2, <2>3, <3>1, <3>2 DEF Placed
    <3> QED BY <2>1, <2>3, <3>3
  <2>4. CASE ~j.ok
    BY <2>1, <2>4, Refused
  <2> QED BY <2>3, <2>4
<1> QED BY <1>1, <1>2

-----------------------------------------------------------------------------
(* Folds over the tenants.                                                 *)

\* The walks over T, as a set.
Walks(T, u) ==
    {w \in [on : [T -> DOMAIN Docs \cup {None}],
            planned : UNION {[D -> Nat] : D \in SUBSET Identities},
            ceiling : Nat, unreadable : {u}, ok : BOOLEAN, errs : BOOLEAN] : WalkInv(w, T)}

LEMMA WalksAre == ASSUME NEW T, NEW w PROVE w \in Walks(T, w.unreadable) <=> WalkInv(w, T)
<1> SUFFICES ASSUME WalkType(w, T)
             PROVE  w \in [on : [T -> DOMAIN Docs \cup {None}],
                           planned : UNION {[D -> Nat] : D \in SUBSET Identities},
                           ceiling : Nat, unreadable : {w.unreadable}, ok : BOOLEAN, errs : BOOLEAN]
  BY DEF Walks, WalkInv
<1>1. w.planned \in UNION {[D -> Nat] : D \in SUBSET Identities}
  BY DEF WalkType
<1> HIDE DEF Identities
<1> QED BY <1>1 DEF WalkType

\* A fold's choices: the last index not yet folded.
last(n) == [s \in SUBSET (1..n) |-> Max(s)]

LEMMA Lasts ==
    ASSUME NEW n \in Nat
    PROVE  IsFiniteSet(1..n) /\ \A s \in SUBSET (1..n) : s # {} => last(n)[s] \in s /\ last(n)[s] = Max(s)
<1>1. IsFiniteSet(1..n)
  BY FS_Interval
<1>2. ASSUME NEW s \in SUBSET (1..n), s # {} PROVE Max(s) \in s
  <2>1. IsFiniteSet(s)
    BY <1>1, FS_Subset
  <2>2. s \subseteq Nat
    OBVIOUS
  <2> QED BY <1>2, <2>1, <2>2, LargestIsThere
<1> QED BY <1>1, <1>2 DEF last

\* The values a fold takes on the prefixes of the indices.
prefix(h, n) == [i \in 0..n |-> h[1..i]]

LEMMA PrefixEnds == ASSUME NEW n \in Nat, NEW h PROVE prefix(h, n)[0] = h[{}] /\ prefix(h, n)[n] = h[1..n]
<1>1. 1..0 = {}
  OBVIOUS
<1> QED BY <1>1 DEF prefix

LEMMA PrefixAt == ASSUME NEW n \in Nat, NEW h, NEW k \in 0..n PROVE prefix(h, n)[k] = h[1..k]
BY DEF prefix

leaveEach(w, seq) == FoldLeft(leave, w, seq)

LEMMA LeaveFold ==
    ASSUME NEW T, NEW w, WalkInv(w, T), NEW n \in Nat, NEW seq \in [1..n -> T]
    PROVE  \E F : /\ leaveEach(w, seq) = F[n]
                  /\ F[0] = w
                  /\ \A k \in 1..n : F[k] = leave(F[k - 1], seq[k])
<1> DEFINE V == Walks(T, w.unreadable)
           S == 1..n
           c == last(n)
           G == [p \in V \X S |-> leave(p[1], seq[p[2]])]
           eq(h) == h = [s \in SUBSET S |-> IF s = {} THEN w ELSE leave(h[s \ {Max(s)}], seq[Max(s)])]
           it == CHOOSE h : eq(h)
<1>1. G \in [V \X S -> V]
  <2> SUFFICES ASSUME NEW v \in V, NEW i \in S PROVE leave(v, seq[i]) \in V
    OBVIOUS
  <2>1. WalkInv(v, T) /\ v.unreadable = w.unreadable
    BY DEF Walks
  <2>2. WalkInv(leave(v, seq[i]), T) /\ leave(v, seq[i]).unreadable = w.unreadable
    BY <2>1, Leave DEF Keeps
  <2> QED BY <2>2, WalksAre
<1>2. w \in V
  BY WalksAre
<1>3. PICK g : Table(g, S, V, w, c, G)
  <2>1. IsFiniteSet(S) /\ \A s \in SUBSET S : s # {} => c[s] \in s
    BY Lasts
  <2> HIDE DEF V, S, c, G
  <2> QED BY <1>1, <1>2, <2>1, TableExists
<1>4. ASSUME NEW s \in SUBSET S PROVE g[s] = IF s = {} THEN w ELSE leave(g[s \ {Max(s)}], seq[Max(s)])
  <2>1. g \in [SUBSET S -> V] /\ g[s] = IF s = {} THEN w ELSE G[<<g[s \ {c[s]}], c[s]>>]
    <3> HIDE DEF V, S, c, G
    <3> QED BY <1>3 DEF Table
  <2>2. CASE s = {}
    BY <2>1, <2>2
  <2>3. CASE s # {}
    <3>1. c[s] = Max(s) /\ Max(s) \in S
      BY <2>3, Lasts
    <3>2. g[s \ {Max(s)}] \in V
      BY <2>1
    <3> HIDE DEF V
    <3>3. G[<<g[s \ {Max(s)}], Max(s)>>] = leave(g[s \ {Max(s)}], seq[Max(s)])
      BY <3>1, <3>2
    <3> HIDE DEF G, c
    <3> QED BY <2>1, <2>3, <3>1, <3>3
  <2> QED BY <2>2, <2>3
<1>5. eq(g)
  <2>1. g = [s \in SUBSET S |-> g[s]]
    <3> HIDE DEF V, S, c, G
    <3> QED BY <1>3 DEF Table
  <2> HIDE DEF V, S, c, G
  <2> QED BY <1>4, <2>1
<1>6. eq(it)
  <2> HIDE DEF eq
  <2> QED BY <1>5
<1>7. leaveEach(w, seq) = it[S]
  BY DEF leaveEach, FoldLeft, MapThenFoldSet
<1> HIDE DEF it, V, c, G
<1>8. \A s \in SUBSET S : it[s] = IF s = {} THEN w ELSE leave(it[s \ {Max(s)}], seq[Max(s)])
  BY <1>6
<1> DEFINE F == prefix(it, n)
<1>9. /\ F[0] = w /\ F[n] = it[S]
      /\ \A k \in 1..n : F[k] = leave(F[k - 1], seq[k])
  <2>1. it[{}] = w
    BY <1>8
  <2>2. ASSUME NEW k \in 1..n PROVE F[k] = leave(F[k - 1], seq[k])
    <3>1. k \in 0..n /\ k - 1 \in 0..n /\ 1..k \in SUBSET S /\ k \in Nat /\ k # 0
      OBVIOUS
    <3>2. F[k] = it[1..k] /\ F[k - 1] = it[1..(k - 1)]
      BY <3>1, PrefixAt
    <3>3. Max(1..k) = k /\ (1..k) \ {k} = 1..(k - 1) /\ 1..k # {}
      BY <3>1, LargestOfPrefix
    <3>4. it[1..k] = leave(it[(1..k) \ {Max(1..k)}], seq[Max(1..k)])
      BY <1>8, <3>1, <3>3
    <3> HIDE DEF F
    <3> QED BY <3>2, <3>3, <3>4
  <2> QED BY <2>1, <2>2, PrefixEnds
<1> QED BY <1>7, <1>9

\* Every tenant of a set leaves, one after another.
LEMMA LeaveAll ==
    ASSUME NEW T, NEW w, WalkInv(w, T), NEW ts \in SUBSET T
    PROVE  /\ WalkInv(leaveAll(w, ts), T)
           /\ leaveAll(w, ts).unreadable = w.unreadable /\ leaveAll(w, ts).ceiling = w.ceiling
<1> DEFINE n == Cardinality(ts)
           seq == SetToSeq(ts)
<1>1. IsFiniteSet(ts)
  BY FS_Subset DEF WalkInv
<1>2. n \in Nat /\ seq \in [1..n -> ts]
  <2>1. n \in Nat /\ ExistsBijection(1..n, ts)
    BY <1>1, FS_CardinalityType
  <2>2. \E f \in [1..n -> ts] : IsInjective(f)
    BY <2>1 DEF ExistsBijection, Bijection, Injection, IsInjective
  <2> QED BY <2>1, <2>2 DEF SetToSeq
<1> HIDE DEF n, seq
<1>3. seq \in [1..n -> T]
  BY <1>2
<1>4. PICK F : /\ leaveEach(w, seq) = F[n]
               /\ F[0] = w
               /\ \A k \in 1..n : F[k] = leave(F[k - 1], seq[k])
  BY <1>2, <1>3, LeaveFold
<1> DEFINE K == {k \in Nat : k <= n => /\ WalkInv(F[k], T) /\ F[k].unreadable = w.unreadable
                                       /\ F[k].ceiling = w.ceiling}
<1>5. 0 \in K
  BY <1>4
<1>6. ASSUME NEW k \in K PROVE k + 1 \in K
  <2> SUFFICES ASSUME k + 1 <= n
               PROVE  /\ WalkInv(F[k + 1], T) /\ F[k + 1].unreadable = w.unreadable /\ F[k + 1].ceiling = w.ceiling
    OBVIOUS
  <2>1. k \in Nat /\ k + 1 \in 1..n /\ (k + 1) - 1 = k /\ k <= n
    BY <1>2
  <2>2. F[k + 1] = leave(F[k], seq[k + 1])
    BY <1>4, <2>1
  <2>3. WalkInv(F[k], T) /\ F[k].unreadable = w.unreadable /\ F[k].ceiling = w.ceiling
    BY <2>1
  <2>4. seq[k + 1] \in T
    BY <1>3, <2>1
  <2> HIDE DEF K
  <2> QED BY <2>2, <2>3, <2>4, Leave DEF Keeps
<1>7. K \subseteq Nat
  OBVIOUS
<1>8. n \in K
  <2> HIDE DEF K
  <2> QED BY <1>2, <1>5, <1>6, <1>7, NatSet
<1>9. leaveAll(w, ts) = F[n]
  BY <1>4 DEF leaveAll, leaveEach, seq
<1> QED BY <1>2, <1>8, <1>9

-----------------------------------------------------------------------------
(* Placing the wanted tenants.                                             *)

\* The entries of a want list: each tenant with one document.
Wants(E, T) ==
    /\ \A m \in E : /\ m = [tenant |-> m.tenant, doc |-> m.doc]
                    /\ m.tenant \in T /\ m.doc \in DOMAIN Docs
    /\ \A m, o \in E : m.tenant = o.tenant => m = o

Has(w, m) == Sat(w, m.tenant, m.doc)

\* A placement keeps what the others, and the tenant itself, already have.
LEMMA PlaceHas ==
    ASSUME NEW T, NEW E, Wants(E, T), NEW w, WalkInv(w, T), NEW m \in E
    PROVE  LET v == place(w, m.tenant, m.doc)
           IN  /\ WalkInv(v, T) /\ v.unreadable = w.unreadable /\ v.ceiling = w.ceiling
               /\ \A o \in E : Has(w, o) => Has(v, o)
               /\ v.ok => Has(v, m)
               /\ ~v.ok => v.errs
               /\ w.errs => v.errs
<1> DEFINE v == place(w, m.tenant, m.doc)
<1>1. m.tenant \in T /\ m.doc \in DOMAIN Docs
  BY DEF Wants
<1>2. Placed(w, v, T, m.tenant, m.doc)
  BY <1>1, Place
<1> HIDE DEF v
<1>3. ASSUME NEW o \in E, Has(w, o) PROVE Has(v, o)
  <2>1. CASE o.tenant = m.tenant
    <3>1. o = m
      BY <2>1 DEF Wants
    <3> QED BY <1>2, <1>3, <3>1 DEF Placed, Has
  <2>2. CASE o.tenant # m.tenant
    <3>1. o.tenant \in T \ {m.tenant} /\ o.doc \in DOMAIN Docs
      BY <2>2 DEF Wants
    <3> QED BY <1>2, <1>3, <3>1 DEF Placed, Keeps, Has
  <2> QED BY <2>1, <2>2
<1>4. /\ WalkInv(v, T) /\ v.unreadable = w.unreadable /\ v.ceiling = w.ceiling
      /\ v.ok => Has(v, m)
      /\ ~v.ok => v.errs
      /\ w.errs => v.errs
  BY <1>2 DEF Placed, Keeps, Has
<1> QED BY <1>3, <1>4 DEF v

LEMMA PlaceFold ==
    ASSUME NEW T, NEW E, Wants(E, T), NEW w, WalkInv(w, T), NEW n \in Nat, NEW seq \in [1..n -> E]
    PROVE  \E F : /\ placeAll(w, seq) = F[n]
                  /\ F[0] = [w |-> w, refused |-> <<>>]
                  /\ \A k \in 1..n : F[k] = placeOne(F[k - 1], seq[k])
<1> DEFINE V == [w : Walks(T, w.unreadable), refused : Seq(E)]
           b == [w |-> w, refused |-> <<>>]
           S == 1..n
           c == last(n)
           G == [p \in V \X S |-> placeOne(p[1], seq[p[2]])]
           eq(h) == h = [s \in SUBSET S |-> IF s = {} THEN b ELSE placeOne(h[s \ {Max(s)}], seq[Max(s)])]
           it == CHOOSE h : eq(h)
<1>1. G \in [V \X S -> V]
  <2> SUFFICES ASSUME NEW v \in V, NEW i \in S PROVE placeOne(v, seq[i]) \in V
    OBVIOUS
  <2>1. WalkInv(v.w, T) /\ v.w.unreadable = w.unreadable /\ v.refused \in Seq(E) /\ seq[i] \in E
    BY DEF Walks
  <2> DEFINE x == place(v.w, seq[i].tenant, seq[i].doc)
  <2>2. WalkInv(x, T) /\ x.unreadable = w.unreadable
    BY <2>1, PlaceHas
  <2>3. placeOne(v, seq[i]) = [w |-> x, refused |-> IF x.ok THEN v.refused ELSE Append(v.refused, seq[i])]
    BY DEF placeOne, collect
  <2> HIDE DEF x
  <2>4. x \in Walks(T, w.unreadable)
    BY <2>2, WalksAre
  <2> QED BY <2>1, <2>3, <2>4
<1>2. b \in V
  BY WalksAre
<1>3. PICK g : Table(g, S, V, b, c, G)
  <2>1. IsFiniteSet(S) /\ \A s \in SUBSET S : s # {} => c[s] \in s
    BY Lasts
  <2> HIDE DEF V, S, c, G, b
  <2> QED BY <1>1, <1>2, <2>1, TableExists
<1> HIDE DEF b
<1>4. ASSUME NEW s \in SUBSET S PROVE g[s] = IF s = {} THEN b ELSE placeOne(g[s \ {Max(s)}], seq[Max(s)])
  <2>1. g \in [SUBSET S -> V] /\ g[s] = IF s = {} THEN b ELSE G[<<g[s \ {c[s]}], c[s]>>]
    <3> HIDE DEF V, S, c, G
    <3> QED BY <1>3 DEF Table
  <2>2. CASE s = {}
    BY <2>1, <2>2
  <2>3. CASE s # {}
    <3>1. c[s] = Max(s) /\ Max(s) \in S
      BY <2>3, Lasts
    <3>2. g[s \ {Max(s)}] \in V
      BY <2>1
    <3> HIDE DEF V
    <3>3. G[<<g[s \ {Max(s)}], Max(s)>>] = placeOne(g[s \ {Max(s)}], seq[Max(s)])
      BY <3>1, <3>2
    <3> HIDE DEF G, c
    <3> QED BY <2>1, <2>3, <3>1, <3>3
  <2> QED BY <2>2, <2>3
<1>5. eq(g)
  <2>1. g = [s \in SUBSET S |-> g[s]]
    <3> HIDE DEF V, S, c, G
    <3> QED BY <1>3 DEF Table
  <2> HIDE DEF V, S, c, G
  <2> QED BY <1>4, <2>1
<1>6. eq(it)
  <2> HIDE DEF eq
  <2> QED BY <1>5
<1>7. placeAll(w, seq) = it[S]
  BY DEF placeAll, FoldLeft, MapThenFoldSet, b
<1> HIDE DEF it, V, c, G
<1>8. \A s \in SUBSET S : it[s] = IF s = {} THEN b ELSE placeOne(it[s \ {Max(s)}], seq[Max(s)])
  BY <1>6
<1> DEFINE F == prefix(it, n)
<1>9. /\ F[0] = b /\ F[n] = it[S]
      /\ \A k \in 1..n : F[k] = placeOne(F[k - 1], seq[k])
  <2>1. it[{}] = b
    BY <1>8
  <2>2. ASSUME NEW k \in 1..n PROVE F[k] = placeOne(F[k - 1], seq[k])
    <3>1. k \in 0..n /\ k - 1 \in 0..n /\ 1..k \in SUBSET S /\ k \in Nat /\ k # 0
      OBVIOUS
    <3>2. F[k] = it[1..k] /\ F[k - 1] = it[1..(k - 1)]
      BY <3>1, PrefixAt
    <3>3. Max(1..k) = k /\ (1..k) \ {k} = 1..(k - 1) /\ 1..k # {}
      BY <3>1, LargestOfPrefix
    <3>4. it[1..k] = placeOne(it[(1..k) \ {Max(1..k)}], seq[Max(1..k)])
      BY <1>8, <3>1, <3>3
    <3> HIDE DEF F
    <3> QED BY <3>2, <3>3, <3>4
  <2> QED BY <2>1, <2>2, PrefixEnds
<1> QED BY <1>7, <1>9 DEF b

\* After the first k of a want list: each is on its pool, or refused and
\* reported.
PlacedTo(w, acc, E, T, want, k) ==
    /\ WalkInv(acc.w, T) /\ acc.w.unreadable = w.unreadable /\ acc.w.ceiling = w.ceiling
    /\ acc.refused \in Seq(E)
    /\ \A o \in E : Has(w, o) => Has(acc.w, o)
    /\ \A i \in 1..k : Has(acc.w, want[i]) \/ \E j \in DOMAIN acc.refused : acc.refused[j] = want[i]
    /\ w.errs \/ acc.refused # <<>> => acc.w.errs

LEMMA PlaceAll ==
    ASSUME NEW T, NEW E, Wants(E, T), NEW w, WalkInv(w, T), NEW want \in Seq(E)
    PROVE  PlacedTo(w, placeAll(w, want), E, T, want, Len(want))
<1> DEFINE n == Len(want)
<1>1. n \in Nat /\ want \in [1..n -> E]
  OBVIOUS
<1> HIDE DEF n
<1>2. PICK F : /\ placeAll(w, want) = F[n]
               /\ F[0] = [w |-> w, refused |-> <<>>]
               /\ \A k \in 1..n : F[k] = placeOne(F[k - 1], want[k])
  BY <1>1, PlaceFold
<1> DEFINE K == {k \in Nat : k <= n => PlacedTo(w, F[k], E, T, want, k)}
<1>3. 0 \in K
  <2> DEFINE a == F[0]
  <2>1. a.w = w /\ a.refused = <<>> /\ <<>> \in Seq(E)
    BY <1>2
  <2> HIDE DEF a
  <2>2. PlacedTo(w, a, E, T, want, 0)
    BY <2>1 DEF PlacedTo
  <2> QED BY <2>2 DEF a
<1>4. ASSUME NEW k \in K PROVE k + 1 \in K
  <2> SUFFICES ASSUME k + 1 <= n PROVE PlacedTo(w, F[k + 1], E, T, want, k + 1)
    OBVIOUS
  <2>1. k \in Nat /\ k + 1 \in 1..n /\ (k + 1) - 1 = k /\ k <= n
    BY <1>1
  <2> DEFINE a == F[k]
             b == F[k + 1]
             m == want[k + 1]
             v == place(a.w, m.tenant, m.doc)
  <2>2. b = placeOne(a, m)
    BY <1>2, <2>1
  <2>3. PlacedTo(w, a, E, T, want, k)
    BY <2>1
  <2>4. m \in E
    BY <1>1, <2>1
  <2> HIDE DEF K, a, b, m, v
  <2>5. /\ b.w = v
        /\ b.refused = IF v.ok THEN a.refused ELSE Append(a.refused, m)
    BY <2>2 DEF placeOne, collect, v
  <2>6. /\ WalkInv(v, T) /\ v.unreadable = a.w.unreadable /\ v.ceiling = a.w.ceiling
        /\ \A o \in E : Has(a.w, o) => Has(v, o)
        /\ v.ok => Has(v, m)
        /\ ~v.ok => v.errs
        /\ a.w.errs => v.errs
    BY <2>3, <2>4, PlaceHas DEF PlacedTo, v
  <2>7. a.refused \in Seq(E)
    BY <2>3 DEF PlacedTo
  <2>8. /\ b.refused \in Seq(E)
        /\ \A j \in DOMAIN a.refused : j \in DOMAIN b.refused /\ b.refused[j] = a.refused[j]
        /\ ~v.ok => \E j \in DOMAIN b.refused : b.refused[j] = m
    <3>1. CASE v.ok
      BY <2>5, <2>7, <3>1
    <3>2. CASE ~v.ok
      <4>1. b.refused = Append(a.refused, m)
        BY <2>5, <3>2
      <4>2. /\ b.refused \in Seq(E) /\ Len(b.refused) = Len(a.refused) + 1
            /\ DOMAIN b.refused = 1..Len(b.refused) /\ DOMAIN a.refused = 1..Len(a.refused)
            /\ b.refused[Len(a.refused) + 1] = m
            /\ \A j \in 1..Len(a.refused) : b.refused[j] = a.refused[j]
        BY <2>4, <2>7, <4>1
      <4>3. Len(a.refused) \in Nat /\ Len(a.refused) + 1 \in DOMAIN b.refused
        BY <2>7, <4>2
      <4> QED BY <4>2, <4>3
    <3> QED BY <3>1, <3>2
  <2>9. ASSUME NEW i \in 1..(k + 1)
        PROVE  Has(v, want[i]) \/ \E j \in DOMAIN b.refused : b.refused[j] = want[i]
    <3>1. CASE i = k + 1
      BY <2>6, <2>8, <3>1 DEF m
    <3>2. CASE i \in 1..k
      <4>1. want[i] \in E
        BY <1>1, <2>1, <3>2
      <4>2. Has(a.w, want[i]) \/ \E j \in DOMAIN a.refused : a.refused[j] = want[i]
        BY <2>3, <3>2 DEF PlacedTo
      <4> QED BY <2>6, <2>8, <4>1, <4>2
    <3> QED BY <2>1, <3>1, <3>2
  <2>10. w.errs \/ b.refused # <<>> => v.errs
    BY <2>3, <2>5, <2>6 DEF PlacedTo
  <2>11. PlacedTo(w, b, E, T, want, k + 1)
    BY <2>3, <2>5, <2>6, <2>8, <2>9, <2>10 DEF PlacedTo
  <2> QED BY <2>11 DEF b
<1>5. K \subseteq Nat
  OBVIOUS
<1>6. n \in K
  <2> HIDE DEF K
  <2> QED BY <1>1, <1>3, <1>4, <1>5, NatSet
<1> QED BY <1>1, <1>2, <1>6 DEF n

\* What was refused is placed once more: with nothing to report, every entry
\* is on its pool.
LEMMA Retry ==
    ASSUME NEW T, NEW E, Wants(E, T), NEW w, WalkInv(w, T), NEW want \in Seq(E)
    PROVE  LET v == retry(placeAll(w, want))
           IN  /\ WalkInv(v, T) /\ v.unreadable = w.unreadable /\ v.ceiling = w.ceiling
               /\ ~v.errs => \A i \in DOMAIN want : Has(v, want[i])
<1> DEFINE a == placeAll(w, want)
           x == [a.w EXCEPT !.errs = FALSE]
           b == placeAll(x, a.refused)
<1>1. PlacedTo(w, a, E, T, want, Len(want))
  BY PlaceAll
<1> HIDE DEF a
<1>2. /\ WalkInv(x, T) /\ x.unreadable = w.unreadable /\ x.ceiling = w.ceiling
      /\ \A m \in E : Has(a.w, m) => Has(x, m)
  <2> DEFINE y == a.w
  <2>1. WalkInv(y, T)
    BY <1>1 DEF PlacedTo
  <2>2. x = [y EXCEPT !.errs = FALSE]
    OBVIOUS
  <2> HIDE DEF x, y
  <2>3. y = [on |-> y.on, planned |-> y.planned, ceiling |-> y.ceiling,
             unreadable |-> y.unreadable, ok |-> y.ok, errs |-> y.errs]
    BY <2>1 DEF WalkInv, WalkType
  <2>4. x = [on |-> y.on, planned |-> y.planned, ceiling |-> y.ceiling,
             unreadable |-> y.unreadable, ok |-> y.ok, errs |-> FALSE]
    BY <2>2, <2>3
  <2>5. (\A o : members(x, o) = members(y, o)) /\ WalkType(x, T)
    BY <2>1, <2>4 DEF members, WalkInv, WalkType
  <2>6. Live(x) = Live(y)
    BY <2>4, <2>5 DEF Live
  <2>7. WalkInv(x, T)
    BY <2>1, <2>4, <2>5, <2>6 DEF WalkInv, Pooled, Emptied, Within
  <2> QED BY <1>1, <2>4, <2>7 DEF PlacedTo, Has, Sat, y
<1>3. a.refused \in Seq(E)
  BY <1>1 DEF PlacedTo
<1> HIDE DEF x
<1>4. PlacedTo(x, b, E, T, a.refused, Len(a.refused))
  BY <1>2, <1>3, PlaceAll
<1> HIDE DEF b
<1>5. ASSUME ~b.w.errs, NEW i \in DOMAIN want PROVE Has(b.w, want[i])
  <2>1. i \in 1..Len(want) /\ want[i] \in E
    OBVIOUS
  <2>2. b.refused = <<>> /\ DOMAIN b.refused = {}
    BY <1>4, <1>5 DEF PlacedTo
  <2>3. CASE Has(a.w, want[i])
    BY <1>2, <1>4, <2>1, <2>3 DEF PlacedTo
  <2>4. ASSUME NEW j \in DOMAIN a.refused, a.refused[j] = want[i] PROVE Has(b.w, want[i])
    <3>1. j \in 1..Len(a.refused)
      BY <1>3
    <3> QED BY <1>4, <2>2, <2>4, <3>1 DEF PlacedTo
  <2> QED BY <1>1, <2>1, <2>3, <2>4 DEF PlacedTo
<1>6. /\ WalkInv(b.w, T) /\ b.w.unreadable = w.unreadable /\ b.w.ceiling = w.ceiling
  BY <1>2, <1>4 DEF PlacedTo
<1>7. retry(a) = b.w
  BY DEF retry, b, x
<1> QED BY <1>5, <1>6, <1>7 DEF a

-----------------------------------------------------------------------------
(* The pools, before and after a reconcile.                                *)

OnIds(p) == {Identity(p.on[t]) : t \in {u \in DOMAIN p.on : p.on[u] # None}}

PoolsShape(p, T) ==
    /\ p.on \in [T -> DOMAIN Docs \cup {None}]
    /\ DOMAIN p.size = OnIds(p)
    /\ p.size \in [DOMAIN p.size -> Nat]

\* The pools fit the ceiling together.
Ceiled(p, ceiling) == ceiling > 0 => SumFunction(p.size) <= ceiling

LEMMA Reconciled ==
    ASSUME NEW T, IsFiniteSet(T), NEW E, Wants(E, T), NEW want \in Seq(E),
           NEW cur, PoolsShape(cur, T), NEW ceiling \in Nat, Ceiled(cur, ceiling), NEW u
    PROVE  LET r == Reconcile(cur, want, ceiling, u)
           IN  /\ PoolsShape(r.pools, T) /\ Ceiled(r.pools, ceiling)
               /\ ~r.errs => \A i \in DOMAIN want : Has([on |-> r.pools.on, planned |-> r.pools.size], want[i])
<1> DEFINE w == walk(cur, ceiling, u)
           out == DOMAIN cur.on \ {m.tenant : m \in ToSet(want)}
           l == leaveAll(w, out)
           v == retry(placeAll(l, want))
           r == Reconcile(cur, want, ceiling, u)
<1>1. WalkInv(w, T)
  <2>1. w = [on |-> cur.on, planned |-> cur.size, ceiling |-> ceiling,
             unreadable |-> u, ok |-> TRUE, errs |-> FALSE]
    BY DEF walk
  <2> HIDE DEF w
  <2> DEFINE on == {t \in T : cur.on[t] # None}
             f == [t \in on |-> Identity(cur.on[t])]
  <2>2. DOMAIN cur.size = {f[t] : t \in on}
    BY DEF PoolsShape, OnIds
  <2>3. IsFiniteSet(DOMAIN cur.size)
    <3>1. IsFiniteSet(on)
      BY FS_Subset
    <3>2. f \in Surjection(on, DOMAIN cur.size)
      <4> HIDE DEF on
      <4> QED BY <2>2 DEF Surjection
    <3> HIDE DEF f, on
    <3> QED BY <3>1, <3>2, FS_Surjection
  <2>4. DOMAIN cur.size \subseteq Identities
    BY DEF PoolsShape, OnIds, Identities
  <2>5. WalkType(w, T)
    BY <2>1, <2>3, <2>4 DEF WalkType, PoolsShape
  <2>6. Live(w) = DOMAIN cur.size
    <3>1. ASSUME NEW id \in DOMAIN cur.size PROVE members(w, id) # {}
      BY <2>1 DEF PoolsShape, OnIds, members
    <3> QED BY <2>1, <3>1 DEF Live
  <2>7. Pooled(w)
    BY <2>1 DEF Pooled, PoolsShape, OnIds
  <2>8. Emptied(w)
    BY <2>1, <2>6 DEF Emptied
  <2>9. Within(w)
    BY <2>1, <2>6 DEF Within, Ceiled, Total, SumFunction
  <2> QED BY <2>5, <2>7, <2>8, <2>9 DEF WalkInv
<1>2. w.ceiling = ceiling
  BY DEF walk
<1>3. out \in SUBSET T
  BY DEF PoolsShape
<1> HIDE DEF w, out
<1>4. WalkInv(l, T) /\ l.ceiling = ceiling
  BY <1>1, <1>2, <1>3, LeaveAll
<1> HIDE DEF l
<1>5. /\ WalkInv(v, T) /\ v.ceiling = ceiling
      /\ ~v.errs => \A i \in DOMAIN want : Has(v, want[i])
  BY <1>4, Retry
<1>6. r = apply(cur, v)
  BY DEF Reconcile, l, out, w
<1> HIDE DEF v
<1> DEFINE p == r.pools
           d == {id \in DOMAIN v.planned : members(v, id) # {}}
<1>7. /\ p.on = [t \in T |-> v.on[t]] /\ p.size = [id \in d |-> v.planned[id]]
      /\ r.errs = v.errs
  <2> HIDE DEF r, d
  <2>1. r.pools = [on |-> [t \in DOMAIN cur.on |-> v.on[t]],
                   size |-> [id \in {i \in DOMAIN v.planned : members(v, i) # {}} |-> v.planned[id]]]
        /\ r.errs = v.errs
    BY <1>6 DEF apply
  <2>2. DOMAIN cur.on = T
    BY DEF PoolsShape
  <2> QED BY <2>1, <2>2 DEF d
<1> HIDE DEF r, p
<1>8. WalkType(v, T) /\ Pooled(v) /\ d = Live(v)
  BY <1>5 DEF WalkInv, Live
<1>9. p.on = v.on /\ DOMAIN p.on = T
  BY <1>7, <1>8 DEF WalkType
<1>10. d = OnIds(p)
  <2>1. ASSUME NEW id \in d PROVE id \in OnIds(p)
    <3>1. PICK t \in members(v, id) : TRUE
      OBVIOUS
    <3> QED BY <1>9, <3>1 DEF members, OnIds
  <2>2. ASSUME NEW id \in OnIds(p) PROVE id \in d
    <3>1. PICK t \in T : p.on[t] # None /\ id = Identity(p.on[t])
      BY <1>9 DEF OnIds
    <3>2. t \in members(v, id)
      BY <1>9, <3>1 DEF members
    <3>3. id \in DOMAIN v.planned
      BY <1>8, <1>9, <3>1 DEF Pooled
    <3> QED BY <3>2, <3>3
  <2> QED BY <2>1, <2>2
<1> HIDE DEF d
<1>11. d \subseteq DOMAIN v.planned /\ IsFiniteSet(d)
  BY <1>8, FS_Subset DEF Live, WalkType
<1>12. PoolsShape(p, T)
  BY <1>7, <1>8, <1>9, <1>10, <1>11 DEF PoolsShape, WalkType
<1>13. Ceiled(p, ceiling)
  <2>1. DOMAIN p.size = d /\ \A id \in d : p.size[id] = v.planned[id] /\ v.planned[id] \in Nat
    BY <1>7, <1>8, <1>11 DEF WalkType
  <2>2. Natural(p.size, d) /\ Natural(v.planned, d) /\ \A id \in d : p.size[id] <= v.planned[id]
    BY <2>1 DEF Natural
  <2>3. Total(p.size, d) <= Total(v.planned, d)
    BY <1>11, <2>2, SumMono
  <2>4. Total(p.size, d) \in Nat /\ Total(v.planned, d) \in Nat
    BY <1>11, <2>2, SumType
  <2>5. SumFunction(p.size) = Total(p.size, d)
    BY <2>1 DEF SumFunction, Total
  <2>6. ceiling > 0 => Total(v.planned, d) <= ceiling
    BY <1>5, <1>8 DEF WalkInv, Within
  <2> QED BY <2>3, <2>4, <2>5, <2>6 DEF Ceiled
<1>14. ASSUME ~r.errs, NEW i \in DOMAIN want
       PROVE  Has([on |-> p.on, planned |-> p.size], want[i])
  <2> DEFINE m == want[i]
  <2>1. m \in E
    OBVIOUS
  <2>2. Has(v, m)
    BY <1>5, <1>7, <1>14
  <2> HIDE DEF m
  <2>3. m.tenant \in T /\ m.doc \in DOMAIN Docs
    BY <2>1 DEF Wants
  <2>4. v.on[m.tenant] = m.doc
    BY <2>2 DEF Has, Sat
  <2>5. Identity(m.doc) \in d
    BY <1>9, <1>10, <2>3, <2>4, DocsAssumption DEF OnIds
  <2>6. p.size[Identity(m.doc)] = v.planned[Identity(m.doc)]
    BY <1>7, <2>5
  <2>7. Has([on |-> p.on, planned |-> p.size], m)
    BY <1>9, <2>2, <2>6 DEF Has, Sat
  <2> QED BY <2>7 DEF m
<1> QED BY <1>12, <1>13, <1>14 DEF r, p

-----------------------------------------------------------------------------
(* What the hook asks of the pools.                                        *)

\* The entry of a served tenant, and the want lists made of them.
member(t) == [tenant |-> t, doc |-> store[t]]

Entries == {member(t) : t \in {u \in Tenants : Served(u)}}

LEMMA IdsAre == ASSUME Shape PROVE Ids \in Seq(Tenants) /\ IsFiniteSet(Tenants) /\ W.ceiling \in Nat
<1>1. Ids \in Seq(Tenants) /\ W.ceiling \in Nat
  BY WorldsAssumption DEF Shape, Ids, W, Tenants
<1>2. IsFiniteSet(Tenants)
  <2> DEFINE n == Len(Ids)
  <2>1. n \in Nat /\ DOMAIN Ids = 1..n
    BY <1>1
  <2>2. IsFiniteSet(1..n)
    BY <2>1, FS_Interval
  <2>3. Tenants = {Ids[i] : i \in DOMAIN Ids}
    BY DEF Tenants, ToSet
  <2>4. Ids \in Surjection(1..n, Tenants)
    BY <1>1, <2>1, <2>3 DEF Surjection
  <2> QED BY <2>2, <2>4, FS_Surjection
<1> QED BY <1>1, <1>2

LEMMA MembersFold ==
    ASSUME NEW n \in Nat, Ids \in [1..n -> Tenants], Len(Ids) = n
    PROVE  \E F : /\ Members = F[n]
                  /\ F[0] = <<>>
                  /\ \A k \in 1..n : F[k] = addMember(F[k - 1], Ids[k])
<1> DEFINE V == Seq(Entries)
           b == <<>>
           S == 1..n
           c == last(n)
           G == [p \in V \X S |-> addMember(p[1], Ids[p[2]])]
           eq(h) == h = [s \in SUBSET S |-> IF s = {} THEN b ELSE addMember(h[s \ {Max(s)}], Ids[Max(s)])]
           it == CHOOSE h : eq(h)
<1>1. G \in [V \X S -> V]
  <2> SUFFICES ASSUME NEW v \in V, NEW i \in S PROVE addMember(v, Ids[i]) \in V
    OBVIOUS
  <2>1. Ids[i] \in Tenants
    OBVIOUS
  <2>2. CASE Served(Ids[i])
    <3>1. member(Ids[i]) \in Entries
      BY <2>1, <2>2 DEF Entries
    <3>2. addMember(v, Ids[i]) = Append(v, member(Ids[i]))
      BY <2>2 DEF addMember, member
    <3> QED BY <3>1, <3>2
  <2>3. CASE ~Served(Ids[i])
    BY <2>3 DEF addMember
  <2> QED BY <2>2, <2>3
<1>2. b \in V
  OBVIOUS
<1>3. PICK g : Table(g, S, V, b, c, G)
  <2>1. IsFiniteSet(S) /\ \A s \in SUBSET S : s # {} => c[s] \in s
    BY Lasts
  <2> HIDE DEF V, S, c, G, b
  <2> QED BY <1>1, <1>2, <2>1, TableExists
<1> HIDE DEF b
<1>4. ASSUME NEW s \in SUBSET S PROVE g[s] = IF s = {} THEN b ELSE addMember(g[s \ {Max(s)}], Ids[Max(s)])
  <2>1. g \in [SUBSET S -> V] /\ g[s] = IF s = {} THEN b ELSE G[<<g[s \ {c[s]}], c[s]>>]
    <3> HIDE DEF V, S, c, G
    <3> QED BY <1>3 DEF Table
  <2>2. CASE s = {}
    BY <2>1, <2>2
  <2>3. CASE s # {}
    <3>1. c[s] = Max(s) /\ Max(s) \in S
      BY <2>3, Lasts
    <3>2. g[s \ {Max(s)}] \in V
      BY <2>1
    <3> HIDE DEF V
    <3>3. G[<<g[s \ {Max(s)}], Max(s)>>] = addMember(g[s \ {Max(s)}], Ids[Max(s)])
      BY <3>1, <3>2
    <3> HIDE DEF G, c
    <3> QED BY <2>1, <2>3, <3>1, <3>3
  <2> QED BY <2>2, <2>3
<1>5. eq(g)
  <2>1. g = [s \in SUBSET S |-> g[s]]
    <3> HIDE DEF V, S, c, G
    <3> QED BY <1>3 DEF Table
  <2> HIDE DEF V, S, c, G
  <2> QED BY <1>4, <2>1
<1>6. eq(it)
  <2> HIDE DEF eq
  <2> QED BY <1>5
<1>7. Members = it[S]
  BY DEF Members, FoldLeft, MapThenFoldSet, b
<1> HIDE DEF it, V, c, G
<1>8. \A s \in SUBSET S : it[s] = IF s = {} THEN b ELSE addMember(it[s \ {Max(s)}], Ids[Max(s)])
  BY <1>6
<1> DEFINE F == prefix(it, n)
<1>9. /\ F[0] = b /\ F[n] = it[S]
      /\ \A k \in 1..n : F[k] = addMember(F[k - 1], Ids[k])
  <2>1. it[{}] = b
    BY <1>8
  <2>2. ASSUME NEW k \in 1..n PROVE F[k] = addMember(F[k - 1], Ids[k])
    <3>1. k \in 0..n /\ k - 1 \in 0..n /\ 1..k \in SUBSET S /\ k \in Nat /\ k # 0
      OBVIOUS
    <3>2. F[k] = it[1..k] /\ F[k - 1] = it[1..(k - 1)]
      BY <3>1, PrefixAt
    <3>3. Max(1..k) = k /\ (1..k) \ {k} = 1..(k - 1) /\ 1..k # {}
      BY <3>1, LargestOfPrefix
    <3>4. it[1..k] = addMember(it[(1..k) \ {Max(1..k)}], Ids[Max(1..k)])
      BY <1>8, <3>1, <3>3
    <3> HIDE DEF F
    <3> QED BY <3>2, <3>3, <3>4
  <2> QED BY <2>1, <2>2, PrefixEnds
<1> QED BY <1>7, <1>9 DEF b

\* The want list is of the served tenants, and has each of them.
LEMMA MembersAre ==
    ASSUME Shape
    PROVE  /\ Members \in Seq(Entries)
           /\ \A t \in Tenants : Served(t) => \E j \in DOMAIN Members : Members[j] = member(t)
<1> DEFINE n == Len(Ids)
<1>1. n \in Nat /\ Ids \in [1..n -> Tenants] /\ DOMAIN Ids = 1..n
  BY IdsAre
<1>2. PICK F : /\ Members = F[n]
               /\ F[0] = <<>>
               /\ \A k \in 1..n : F[k] = addMember(F[k - 1], Ids[k])
  BY <1>1, MembersFold
<1> HIDE DEF n
<1> DEFINE Listed(q, k) == /\ q \in Seq(Entries)
                           /\ \A i \in 1..k : Served(Ids[i]) => \E j \in DOMAIN q : q[j] = member(Ids[i])
           K == {k \in Nat : k <= n => Listed(F[k], k)}
<1>3. 0 \in K
  <2> DEFINE a == F[0]
  <2>1. a = <<>> /\ <<>> \in Seq(Entries)
    BY <1>2
  <2>2. \A i \in 1..0 : FALSE
    OBVIOUS
  <2> HIDE DEF a
  <2>3. Listed(a, 0)
    BY <2>1, <2>2
  <2> QED BY <2>3 DEF a
<1>4. ASSUME NEW k \in K PROVE k + 1 \in K
  <2> SUFFICES ASSUME k + 1 <= n PROVE Listed(F[k + 1], k + 1)
    OBVIOUS
  <2>1. k \in Nat /\ k + 1 \in 1..n /\ (k + 1) - 1 = k /\ k <= n
    BY <1>1
  <2> DEFINE a == F[k]
             b == F[k + 1]
             t == Ids[k + 1]
  <2>2. b = addMember(a, t)
    BY <1>2, <2>1
  <2>3. Listed(a, k)
    BY <2>1
  <2>4. t \in Tenants
    BY <1>1, <2>1
  <2> HIDE DEF K, a, b, t
  <2>5. CASE ~Served(t)
    <3>1. b = a
      BY <2>2, <2>5 DEF addMember
    <3>2. \A i \in 1..(k + 1) : i \in 1..k \/ Ids[i] = t
      BY <2>1 DEF t
    <3>3. Listed(b, k + 1)
      BY <2>3, <2>5, <3>1, <3>2
    <3> QED BY <3>3 DEF b
  <2>6. CASE Served(t)
    <3>1. b = Append(a, member(t)) /\ member(t) \in Entries
      BY <2>2, <2>4, <2>6 DEF addMember, member, Entries
    <3>2. b \in Seq(Entries) /\ (\A j \in DOMAIN a : j \in DOMAIN b /\ b[j] = a[j])
          /\ \E j \in DOMAIN b : b[j] = member(t)
      <4>1. a \in Seq(Entries)
        BY <2>3
      <4>2. /\ b \in Seq(Entries) /\ Len(b) = Len(a) + 1
            /\ DOMAIN b = 1..Len(b) /\ DOMAIN a = 1..Len(a)
            /\ b[Len(a) + 1] = member(t)
            /\ \A j \in 1..Len(a) : b[j] = a[j]
        BY <3>1, <4>1
      <4>3. Len(a) \in Nat /\ Len(a) + 1 \in DOMAIN b
        BY <4>1, <4>2
      <4> QED BY <4>2, <4>3
    <3>3. \A i \in 1..(k + 1) : i \in 1..k \/ Ids[i] = t
      BY <2>1 DEF t
    <3>4. \A i \in 1..k : Served(Ids[i]) => \E j \in DOMAIN a : a[j] = member(Ids[i])
      BY <2>3
    <3>5. Listed(b, k + 1)
      BY <3>2, <3>3, <3>4
    <3> QED BY <3>5 DEF b
  <2> QED BY <2>5, <2>6
<1>5. K \subseteq Nat
  OBVIOUS
<1>6. n \in K
  <2> HIDE DEF K
  <2> QED BY <1>1, <1>3, <1>4, <1>5, NatSet
<1>7. Listed(Members, n)
  BY <1>1, <1>2, <1>6
<1>8. ASSUME NEW t \in Tenants PROVE \E i \in 1..n : Ids[i] = t
  BY <1>1 DEF Tenants, ToSet
<1> QED BY <1>7, <1>8

-----------------------------------------------------------------------------
(* The pools and the documents adopted.                                    *)

PoolsInv == PoolsShape(pools, Tenants) /\ Ceiled(pools, W.ceiling)

\* A served tenant has a document; while a reload adopts, so does each
\* tenant it is done with that it will serve.
ServedInv ==
    /\ \A t \in Tenants : Served(t) => store[t] \in DOMAIN Docs
    /\ reload.pc = "adopt" =>
          /\ \A t \in Tenants : t \in DOMAIN reload.docs /\ reload.docs[t] # Bad =>
                t \in reload.todo \/ store[t] \in DOMAIN Docs

\* The pools' hook has run, and so has the limits'.
Placed0 ==
    \A t \in Tenants : Served(t) =>
        pools.on[t] = store[t] /\ pools.size[Identity(store[t])] >= Docs[store[t]].open

Limited0 == \A t \in Tenants : Served(t) => limits[t] = store[t]

Hooked == {"drop", "orphan", "discover", "limits", "record"}

HookedInv ==
    /\ reload.pc \in Hooked /\ ~reload.failed => Placed0
    /\ reload.pc = "record" /\ ~reload.failed => Limited0
    /\ reload.pc = "idle" /\ result = "adopted" => Placed0 /\ Limited0

AdoptInv == FitInv /\ PoolsInv /\ ServedInv /\ HookedInv

LEMMA SomeEntries == ASSUME ServedInv PROVE Wants(Entries, Tenants)
<1>1. ASSUME NEW t \in Tenants, Served(t)
      PROVE  /\ member(t) = [tenant |-> member(t).tenant, doc |-> member(t).doc]
             /\ member(t).tenant = t /\ member(t).doc \in DOMAIN Docs
  BY <1>1 DEF member, ServedInv
<1> QED BY <1>1 DEF Entries, Wants

\* A reconcile of the wanted tenants with nothing refused places every one.
LEMMA ReconcileAll ==
    ASSUME Shape, ServedInv, NEW cur, PoolsShape(cur, Tenants), Ceiled(cur, W.ceiling), NEW u, NEW r,
           r = Reconcile(cur, Members, W.ceiling, u)
    PROVE  /\ PoolsShape(r.pools, Tenants) /\ Ceiled(r.pools, W.ceiling)
           /\ ~r.errs => \A t \in Tenants : Served(t) =>
                 r.pools.on[t] = store[t] /\ r.pools.size[Identity(store[t])] >= Docs[store[t]].open
<1> DEFINE want == Members
           ceiling == W.ceiling
<1>1. /\ Wants(Entries, Tenants) /\ IsFiniteSet(Tenants) /\ ceiling \in Nat /\ want \in Seq(Entries)
      /\ \A t \in Tenants : Served(t) => \E j \in DOMAIN want : want[j] = member(t)
  BY SomeEntries, IdsAre, MembersAre
<1>2. r = Reconcile(cur, want, ceiling, u) /\ Ceiled(cur, ceiling)
  OBVIOUS
<1> DEFINE q == [on |-> r.pools.on, planned |-> r.pools.size]
<1>3. /\ PoolsShape(r.pools, Tenants) /\ Ceiled(r.pools, ceiling)
      /\ ~r.errs => \A i \in DOMAIN want : Has(q, want[i])
  <2> HIDE DEF want, ceiling
  <2> QED BY <1>1, <1>2, Reconciled
<1>4. ASSUME ~r.errs, NEW t \in Tenants, Served(t)
      PROVE  r.pools.on[t] = store[t] /\ r.pools.size[Identity(store[t])] >= Docs[store[t]].open
  <2>1. PICK j \in DOMAIN want : want[j] = member(t)
    BY <1>1, <1>4
  <2>2. Has(q, want[j])
    BY <1>3, <1>4
  <2> HIDE DEF want
  <2>3. Has(q, member(t))
    BY <2>1, <2>2
  <2> QED BY <2>3 DEF Has, Sat, member
<1> QED BY <1>3, <1>4

\* No pools at all.
LEMMA NoneOpen == ASSUME Shape PROVE PoolsShape(NoPools(Tenants), Tenants) /\ Ceiled(NoPools(Tenants), W.ceiling)
<1> DEFINE p == NoPools(Tenants)
<1>1. p.on = [t \in Tenants |-> None] /\ p.size = <<>> /\ DOMAIN p.size = {}
  BY DEF NoPools
<1> HIDE DEF p
<1>2. OnIds(p) = {}
  BY <1>1 DEF OnIds
<1>3. PoolsShape(p, Tenants)
  BY <1>1, <1>2 DEF PoolsShape
<1>4. SumFunction(p.size) = 0
  <2>1. SumFunction(p.size) = Total(p.size, {})
    BY <1>1 DEF SumFunction, Total
  <2> QED BY <2>1, SumEmpty
<1> QED BY <1>3, <1>4, IdsAre DEF Ceiled, p

\* What the steps below leave alone.
Adopted == <<world, tenants, store, pools, limits, reload, result>>

LEMMA AdoptedStays ==
    ASSUME PoolsInv, ServedInv, HookedInv, UNCHANGED Adopted
    PROVE  PoolsInv' /\ ServedInv' /\ HookedInv'
<1>1. W' = W /\ Tenants' = Tenants
  BY SameWorld DEF Adopted
<1>2. PoolsInv'
  BY <1>1 DEF PoolsInv, Adopted, PoolsShape, Ceiled, OnIds
<1>3. ServedInv'
  BY <1>1 DEF ServedInv, Adopted, Served
<1>4. Placed0' <=> Placed0
  BY <1>1 DEF Placed0, Adopted, Served
<1>5. Limited0' <=> Limited0
  BY <1>1 DEF Limited0, Adopted, Served
<1>6. HookedInv'
  BY <1>4, <1>5 DEF HookedInv, Adopted
<1> QED BY <1>2, <1>3, <1>6

\* The pools stay as they are until their hook runs.
LEMMA PoolsStay == ASSUME PoolsInv, world' = world, pools' = pools PROVE PoolsInv'
<1>1. W' = W /\ Tenants' = Tenants
  BY SameWorld
<1> QED BY <1>1 DEF PoolsInv, PoolsShape, Ceiled, OnIds

\* A step with the tenants and their documents as they were.
LEMMA ServedStays ==
    ASSUME ServedInv, UNCHANGED <<world, tenants, store>>, reload'.pc # "adopt"
    PROVE  ServedInv'
BY SameWorld DEF ServedInv, Served

LEMMA PlacedStay ==
    ASSUME UNCHANGED <<world, tenants, store, pools>> PROVE Placed0' <=> Placed0
BY SameWorld DEF Placed0, Served

LEMMA LimitedStay ==
    ASSUME UNCHANGED <<world, tenants, store, limits>> PROVE Limited0' <=> Limited0
BY SameWorld DEF Limited0, Served

\* A reload begins with every tenant it found to do, or is rejected.
LEMMA BeginTodo ==
    ASSUME NEW trigger, NEW tree, Begin(trigger, tree)
    PROVE  \/ UNCHANGED reload /\ result' = "rejected"
           \/ /\ reload'.pc = "adopt"
              /\ \A t \in Tenants : t \in DOMAIN reload'.docs => t \in reload'.todo
BY DEF Begin, NoReload, Recorded

LEMMA ReloadAdopt ==
    ASSUME PoolsInv, ServedInv, HookedInv,
           (\E g \in Triggers : Reload(g)) \/ (\E t \in Tenants : ReloadTenant(t)), UNCHANGED <<pools, limits>>
    PROVE  PoolsInv' /\ ServedInv' /\ HookedInv'
<1>1. UNCHANGED <<world, tenants, store, pools, limits>> /\ reload.pc = "idle"
  BY DEF Reload, ReloadTenant
<1>2. \/ UNCHANGED reload /\ result' = "rejected"
      \/ /\ reload'.pc = "adopt"
         /\ \A t \in Tenants : t \in DOMAIN reload'.docs => t \in reload'.todo
  <2>1. ASSUME NEW g \in Triggers, Reload(g)
        PROVE  \/ UNCHANGED reload /\ result' = "rejected"
               \/ /\ reload'.pc = "adopt"
                  /\ \A t \in Tenants : t \in DOMAIN reload'.docs => t \in reload'.todo
    <3>1. Begin(g, treeOf(disk))
      BY <2>1 DEF Reload
    <3> QED BY <3>1, BeginTodo
  <2>2. ASSUME NEW u \in Tenants, ReloadTenant(u)
        PROVE  \/ UNCHANGED reload /\ result' = "rejected"
               \/ /\ reload'.pc = "adopt"
                  /\ \A t \in Tenants : t \in DOMAIN reload'.docs => t \in reload'.todo
    <3>1. CASE ~W.nested
      <4>1. Begin("sighup", treeOf(disk))
        BY <2>2, <3>1 DEF ReloadTenant
      <4> QED BY <4>1, BeginTodo
    <3>2. CASE W.nested
      BY <2>2, <3>2 DEF ReloadTenant, NoReload
    <3> QED BY <3>1, <3>2
  <2> QED BY <2>1, <2>2
<1>3. Tenants' = Tenants /\ \A t : Served(t)' <=> Served(t)
  BY <1>1, SameWorld DEF Served
<1>4. PoolsInv'
  BY <1>1, PoolsStay
<1>5. ServedInv'
  BY <1>1, <1>2, <1>3 DEF ServedInv
<1>6. HookedInv'
  BY <1>1, <1>2 DEF HookedInv, Hooked
<1> QED BY <1>4, <1>5, <1>6

\* A document is adopted, and then the tenants are swapped: those served have one.
LEMMA SwapAdopt ==
    ASSUME Shape, DocsInv, PoolsInv, ServedInv, HookedInv, AdoptDoc \/ Swap, UNCHANGED <<pools, limits>>
    PROVE  PoolsInv' /\ ServedInv' /\ HookedInv'
<1>0. /\ ReloadShape(reload) /\ DOMAIN store = Tenants /\ world' = world /\ Tenants' = Tenants
      /\ reload.pc = "adopt" /\ (\A t \in reload.todo : t \in Tenants /\ reload.docs[t] \in Adoptable)
  BY SameWorld DEF Shape, DocsInv, Over, AdoptDoc, Swap
<1>1. PoolsInv'
  BY <1>0, PoolsStay
<1>2. CASE AdoptDoc
  <2>1. PICK t \in reload.todo : /\ store' = IF reload.docs[t] = Bad THEN store
                                             ELSE [store EXCEPT ![t] = reload.docs[t]]
                                 /\ reload' = [reload EXCEPT !.todo = @ \ {t}]
    BY <1>2 DEF AdoptDoc
  <2>2. reload'.pc = "adopt" /\ reload'.docs = reload.docs /\ reload'.todo = reload.todo \ {t}
    BY <1>0, <2>1 DEF ReloadShape
  <2>3. tenants' = tenants /\ \A u : Served(u)' <=> Served(u)
    BY <1>2 DEF AdoptDoc, Served
  <2>4. reload.docs[t] # Bad => store'[t] \in DOMAIN Docs
    BY <1>0, <2>1 DEF Adoptable
  <2>5. \A u \in Tenants : store'[u] = store[u] \/ (u = t /\ store'[u] \in DOMAIN Docs)
    BY <1>0, <2>1, <2>4
  <2>6. \A u \in Tenants : Served(u) => store'[u] \in DOMAIN Docs
    BY <2>5 DEF ServedInv
  <2>7. \A u \in Tenants : u \in DOMAIN reload.docs /\ reload.docs[u] # Bad =>
            u \in reload.todo \ {t} \/ store'[u] \in DOMAIN Docs
    BY <1>0, <2>4, <2>5 DEF ServedInv
  <2>8. ServedInv'
    BY <1>0, <2>2, <2>3, <2>6, <2>7 DEF ServedInv
  <2>9. HookedInv'
    BY <2>2 DEF HookedInv, Hooked
  <2> QED BY <1>1, <2>8, <2>9
<1>3. CASE Swap
  <2>1. reload'.pc = "pools"
    BY <1>0, <1>3 DEF Swap, ReloadShape
  <2>2. ASSUME NEW t \in Tenants, Served(t)' PROVE store'[t] \in DOMAIN Docs
    <3>1. tenants'[t] = IF t \in DOMAIN reload.docs
                        THEN IF reload.docs[t] = Bad THEN "rejected" ELSE "served"
                        ELSE IF reload.whole THEN "unknown" ELSE tenants[t]
      BY <1>3 DEF Swap
    <3>2. store'[t] = IF tenants'[t] = "unknown" THEN None ELSE store[t]
      BY <1>3 DEF Swap
    <3>3. tenants'[t] = "served"
      BY <2>2 DEF Served
    <3>4. CASE t \in DOMAIN reload.docs
      BY <1>0, <1>3, <3>1, <3>2, <3>3, <3>4 DEF ServedInv, Swap
    <3>5. CASE t \notin DOMAIN reload.docs
      BY <3>1, <3>2, <3>3, <3>5 DEF ServedInv, Served
    <3> QED BY <3>4, <3>5
  <2>3. ServedInv'
    BY <1>0, <2>1, <2>2 DEF ServedInv
  <2>4. HookedInv'
    BY <2>1 DEF HookedInv, Hooked
  <2> QED BY <1>1, <2>3, <2>4
<1> QED BY <1>2, <1>3

\* The hooks keep what the pools' hook placed; the limits' checks the rest.
LEMMA HookAdopt ==
    ASSUME Shape, PoolsInv, ServedInv, HookedInv, Hooks
    PROVE  PoolsInv' /\ ServedInv' /\ HookedInv'
<1>0. /\ ReloadShape(reload) /\ UNCHANGED <<world, tenants, store>> /\ W' = W /\ Tenants' = Tenants
      /\ \A t : Served(t)' <=> Served(t)
  BY SameWorld DEF Shape, Hooks, HookPools, HookDrop, HookOrphan, HookDiscover, HookLimits, Served
<1>1. CASE HookPools
  <2>1. PICK r : /\ r = Reconcile(pools, Members, W.ceiling, unreadable)
                 /\ pools' = r.pools
                 /\ reload' = [reload EXCEPT !.pc = "drop", !.stale = r.stale, !.failed = r.errs]
    BY <1>1 DEF HookPools
  <2> DEFINE x == r.stale
             y == r.errs
  <2>2. reload' = [reload EXCEPT !.pc = "drop", !.stale = x, !.failed = y]
    BY <2>1
  <2> HIDE DEF x, y
  <2>3. reload'.pc = "drop" /\ reload'.failed = y
    BY <1>0, <2>2 DEF ReloadShape
  <2>4. /\ PoolsShape(r.pools, Tenants) /\ Ceiled(r.pools, W.ceiling)
        /\ ~r.errs => \A t \in Tenants : Served(t) =>
              r.pools.on[t] = store[t] /\ r.pools.size[Identity(store[t])] >= Docs[store[t]].open
    BY <2>1, ReconcileAll DEF PoolsInv
  <2>5. PoolsInv'
    BY <1>0, <2>1, <2>4 DEF PoolsInv, PoolsShape, Ceiled, OnIds
  <2>6. ServedInv'
    BY <1>0, <2>3, ServedStays
  <2>7. ~y => Placed0'
    BY <1>0, <2>1, <2>4 DEF Placed0, y
  <2>8. HookedInv'
    BY <2>3, <2>7 DEF HookedInv
  <2> QED BY <2>5, <2>6, <2>8
<1>2. CASE HookDrop \/ HookOrphan \/ HookDiscover
  <2>1. UNCHANGED <<pools, limits>>
    BY <1>2 DEF HookDrop, HookOrphan, HookDiscover
  <2>2. reload'.pc \in {"orphan", "discover", "limits"} /\ reload'.failed = reload.failed /\ reload.pc \in Hooked
    <3>1. CASE HookDrop
      BY <1>0, <3>1 DEF HookDrop, ReloadShape, Hooked
    <3>2. CASE HookOrphan
      <4>1. reload' = [reload EXCEPT !.pc = "discover"] \/ \E z : reload' = [reload EXCEPT !.stale = z]
        BY <3>2 DEF HookOrphan
      <4>2. reload.pc = "orphan"
        BY <3>2 DEF HookOrphan
      <4> QED BY <1>0, <4>1, <4>2 DEF ReloadShape, Hooked
    <3>3. CASE HookDiscover
      BY <1>0, <3>3 DEF HookDiscover, ReloadShape, Hooked
    <3> QED BY <1>2, <3>1, <3>2, <3>3
  <2>3. Placed0' <=> Placed0
    BY <1>0, <2>1, PlacedStay
  <2>4. HookedInv'
    BY <2>2, <2>3 DEF HookedInv
  <2> QED BY <1>0, <2>1, <2>2, <2>4, PoolsStay, ServedStays
<1>3. CASE HookLimits
  <2>1. reload.pc = "limits" /\ pools' = pools /\ limits' = reconciledLimits
    BY <1>3 DEF HookLimits
  <2>2. PICK y : reload' = [reload EXCEPT !.pc = "record", !.failed = y] /\ y = (reload.failed \/ limitsRefused)
    BY <1>0, <1>3 DEF HookLimits, ReloadShape
  <2>3. reload'.pc = "record" /\ reload'.failed = y
    BY <1>0, <2>2 DEF ReloadShape
  <2>4. Placed0' <=> Placed0
    BY <1>0, <2>1, PlacedStay
  <2>5. ~limitsRefused => Limited0'
    BY <1>0, <2>1 DEF limitsRefused, Limited0, reconciledLimits
  <2>6. HookedInv'
    BY <2>1, <2>2, <2>3, <2>4, <2>5 DEF HookedInv, Hooked
  <2> QED BY <1>0, <2>1, <2>3, <2>6, PoolsStay, ServedStays
<1> QED BY <1>1, <1>2, <1>3 DEF Hooks

\* The result is "adopted" only when no hook failed.
LEMMA RecordAdopt ==
    ASSUME Shape, PoolsInv, ServedInv, HookedInv, Record, UNCHANGED <<pools, limits>>
    PROVE  PoolsInv' /\ ServedInv' /\ HookedInv'
<1>1. UNCHANGED <<world, tenants, store, pools, limits>> /\ reload'.pc = "idle" /\ reload.pc = "record"
  BY DEF Record, NoReload
<1>2. result' = "adopted" => ~reload.failed
  BY DEF Record, Recorded
<1>3. Placed0' <=> Placed0
  BY <1>1, PlacedStay
<1>4. Limited0' <=> Limited0
  BY <1>1, LimitedStay
<1>5. HookedInv'
  BY <1>1, <1>2, <1>3, <1>4 DEF HookedInv, Hooked
<1> QED BY <1>1, <1>5, PoolsStay, ServedStays

\* The worker asks for limits no hook has set: there are none to set once a
\* reload was adopted.
LEMMA LimitsForAdopt ==
    ASSUME Shape, PoolsInv, ServedInv, HookedInv, NEW t \in Tenants, LimitsFor(t)
    PROVE  PoolsInv' /\ ServedInv' /\ HookedInv'
<1>1. UNCHANGED <<world, tenants, store, pools, reload, result>> /\ limits[t] = Absent /\ Served(t)
  BY DEF LimitsFor, settings
<1>2. ~Limited0
  BY <1>1, WorldsAssumption DEF Limited0, ServedInv
<1>3. Placed0' <=> Placed0
  BY <1>1, PlacedStay
<1>4. HookedInv'
  BY <1>1, <1>2, <1>3 DEF HookedInv
<1>5. Tenants' = Tenants /\ \A u : Served(u)' <=> Served(u)
  BY <1>1, SameWorld DEF Served
<1>6. ServedInv'
  BY <1>1, <1>5 DEF ServedInv
<1> QED BY <1>1, <1>4, <1>6, PoolsStay

\* Every step keeps the pools within the ceiling, and adopted reconciled.
LEMMA AdoptNext ==
    ASSUME Shape, DocsInv, PoolsInv, ServedInv, HookedInv, [Next]_vars
    PROVE  PoolsInv' /\ ServedInv' /\ HookedInv'
<1>1. CASE UNCHANGED Adopted
  BY <1>1, AdoptedStays
<1>2. CASE UNCHANGED <<pools, limits>>
           /\ (\/ Edit \/ (\E g \in Triggers : Reload(g)) \/ (\E t \in Tenants : ReloadTenant(t))
               \/ AdoptDoc \/ Swap \/ Record \/ Watching)
  <2>1. CASE Edit \/ Watching
    <3>1. UNCHANGED Adopted
      BY <1>2, <2>1 DEF Edit, Watching, WatchDir, WatchParent, TakeEvent, TimerFires, Adopted
    <3> QED BY <1>1, <3>1
  <2> QED BY <1>2, <2>1, ReloadAdopt, SwapAdopt, RecordAdopt
<1>3. CASE Hooks
  BY <1>3, HookAdopt
<1>4. ASSUME NEW t \in Tenants,
             \/ RefreshStart(t) \/ RefreshEnd(t) \/ Report(t)
             \/ QueryBegin(t) \/ QueryRun(t) \/ QueryStore(t) \/ Insert(t) \/ Invalidate(t)
      PROVE  PoolsInv' /\ ServedInv' /\ HookedInv'
  <2>1. UNCHANGED Adopted
    BY <1>4 DEF RefreshStart, RefreshEnd, Report, QueryBegin, QueryRun, QueryStore, Insert, Invalidate,
                settings, Adopted
  <2> QED BY <1>1, <2>1
<1>5. ASSUME NEW t \in Tenants, LimitsFor(t) PROVE PoolsInv' /\ ServedInv' /\ HookedInv'
  BY <1>5, LimitsForAdopt
<1>6. CASE UNCHANGED vars \/ Certificates \/ RetiredEnds
  <2>1. UNCHANGED Adopted
    BY <1>6 DEF vars, Certificates, RetiredEnds, settings, Adopted
  <2> QED BY <1>1, <2>1
<1>7. CASE Watching
  BY <1>2, <1>7 DEF Watching, consumers
<1>8. CASE WatchReload
  BY <1>2, <1>8 DEF WatchReload, Triggers, consumers
<1>9. CASE Reloading
  BY <1>2, <1>3, <1>9 DEF Reloading, consumers
<1>10. CASE (Edit \/ (\E g \in Triggers : Reload(g)) \/ (\E t \in Tenants : ReloadTenant(t))) /\ UNCHANGED consumers
  BY <1>2, <1>10 DEF consumers
<1> QED BY <1>4, <1>5, <1>6, <1>7, <1>8, <1>9, <1>10 DEF Next

\* A directory that boots is reconciled from no pools.
LEMMA AdoptInit == ASSUME Init PROVE AdoptInv
<1>1. FitInv
  BY PlaceInit, FitInit DEF FitInv
<1>2. /\ reload.pc = "idle"
      /\ tenants = [t \in Tenants |-> IF t \notin DOMAIN Validate(W.boot).docs THEN "unknown"
                                      ELSE IF Validate(W.boot).docs[t] = Bad THEN "rejected" ELSE "served"]
      /\ store = [t \in Tenants |-> IF Served(t) THEN Validate(W.boot).docs[t] ELSE None]
  BY DEF Init, NoReload
<1>3. ServedInv
  <2>1. ASSUME NEW t \in Tenants, Served(t) PROVE store[t] \in DOMAIN Docs
    <3>1. t \in DOMAIN Validate(W.boot).docs /\ Validate(W.boot).docs[t] # Bad
      BY <1>2, <2>1 DEF Served
    <3>2. store[t] = Validate(W.boot).docs[t] /\ store[t] \in DOMAIN Docs \cup {None}
      BY <1>1, <1>2, <2>1 DEF FitInv, DocsInv
    <3>3. store[t] \in Adoptable
      BY <3>1, <3>2, BootDocs
    <3> QED BY <3>1, <3>2, <3>3 DEF Adoptable
  <2> QED BY <1>2, <2>1 DEF ServedInv
<1>4. PICK r : /\ r = Reconcile(NoPools(Tenants), Members, W.ceiling, W.unreadable) /\ pools = r.pools
               /\ result = IF Validate(W.boot).errs \/ r.errs \/ limitsRefused THEN "partial" ELSE "adopted"
  BY DEF Init
<1>5. Shape
  BY <1>1 DEF FitInv, PlaceInv
<1>6. /\ PoolsShape(pools, Tenants) /\ Ceiled(pools, W.ceiling)
      /\ ~r.errs => Placed0
  <2>1. /\ PoolsShape(r.pools, Tenants) /\ Ceiled(r.pools, W.ceiling)
        /\ ~r.errs => \A t \in Tenants : Served(t) =>
              r.pools.on[t] = store[t] /\ r.pools.size[Identity(store[t])] >= Docs[store[t]].open
    BY <1>3, <1>4, <1>5, NoneOpen, ReconcileAll
  <2> QED BY <1>4, <2>1 DEF Placed0
<1>7. ~limitsRefused => Limited0
  <2>1. limits = [t \in Tenants |-> IF ~Served(t) THEN Absent
                                    ELSE IF checkIngestLimits(store[t]) THEN store[t] ELSE None]
    BY DEF Init
  <2> QED BY <2>1 DEF limitsRefused, Limited0
<1>8. HookedInv
  BY <1>2, <1>4, <1>6, <1>7 DEF HookedInv, Hooked
<1> QED BY <1>1, <1>3, <1>6, <1>8 DEF AdoptInv, PoolsInv

LEMMA AdoptHolds == Spec => []AdoptInv
<1>1. Init => AdoptInv
  BY AdoptInit
<1>2. AdoptInv /\ [Next]_vars => AdoptInv'
  BY PlaceNext, DocsNext, LimitsNext, AdoptNext DEF AdoptInv, FitInv, PlaceInv
<1> QED BY <1>1, <1>2, PTL DEF Spec

\* The open pools' sizes together never pass the ceiling, whatever order
\* tenants leave, move, grow, are refused and placed again in, for any number
\* of tenants, documents and reloads (Pools.Reconcile, walk.fits).
THEOREM PoolsFit == Spec => []WithinCeiling
<1>1. AdoptInv => WithinCeiling
  BY DEF AdoptInv, PoolsInv, Ceiled, WithinCeiling
<1> QED BY <1>1, AdoptHolds, PTL

\* A reload recorded as adopted left no tenant on another pool, on one smaller
\* than it asks, or with other limits than its document's (ResultAdopted).
THEOREM AdoptedReconciled == Spec => []AdoptedMeansReconciled
<1>1. AdoptInv => AdoptedMeansReconciled
  BY DEF AdoptInv, HookedInv, Placed0, Limited0, AdoptedMeansReconciled
<1> QED BY <1>1, AdoptHolds, PTL
=============================================================================
