---------------------------- MODULE ControlPlane ----------------------------
(***************************************************************************)
(* What follows the settings a reload adopts (internal/app): the ClickHouse*)
(* pools, one schema registry per tenant with its refresh loop and the     *)
(* /livez diagnostic they drive, the ingest limits, and the answers cached *)
(* for each tenant.  The hooks run one after another under the registry's  *)
(* lock, while requests, refresh loops and the ingest worker go on.  The   *)
(* embedded queue's hook is EmbeddedQueue's.                               *)
(*                                                                         *)
(* The cache is reduced to the one answer stored for each tenant under its *)
(* current version; ResultCache models the versions and the bumps that do  *)
(* not land.                                                               *)
(***************************************************************************)
EXTENDS Settings, Integers

CONSTANT MaxDuration   \* the largest time.Duration

Contents == DOMAIN Docs \cup {Absent, Bad}

ASSUME WorldsAssumption ==
    /\ DOMAIN Docs \cap {None, Absent, Bad} = {}
    /\ \A doc \in DOMAIN Docs : Docs[doc].wait \in Int /\ Docs[doc].insert \in Int
    /\ \A w \in DOMAIN Worlds :
          /\ Worlds[w].ackWait \in Int /\ Worlds[w].ceiling \in Nat
          /\ Worlds[w].ids \in Seq(ToSet(Worlds[w].ids))
          /\ ToSet(Worlds[w].ids) \cap {"ok", "none yet"} = {}
          /\ \A d \in Worlds[w].disks \cup {Worlds[w].boot} :
                d.files \in Contents /\ d.folders \in [ToSet(Worlds[w].ids) -> Contents]

VARIABLES
    pools,        \* chconn.Pools: the snapshot
    unreadable,   \* identities whose certificate files cannot be read now
    disc,         \* discoveries.cur: each tenant's schema registry and loop
    retired,      \* discoveries.retired: loops stopped with work in flight
    livez,        \* BootState: "ok", "none yet", or the failing tenant
    limits,       \* ingestLimits.cur
    answer,       \* where the answer cached for each tenant was read
    query,        \* a query of each tenant
    insert        \* an INSERT of each tenant's batch

discovery == <<disc, retired, livez>>
caching == <<answer, query, insert>>
vars == <<settings, pools, unreadable, discovery, limits, caching>>

-----------------------------------------------------------------------------
(* Schema registries.  A loop is "idle" between attempts, "reading" with   *)
(* the connection and database it took, "reporting" a failed first attempt *)
(* or "announcing" its first success; loaded is the database its schema    *)
(* describes.                                                              *)

NoRegistry == [loop |-> "none", from |-> None, loaded |-> None]
NewRegistry == [loop |-> "idle", from |-> None, loaded |-> None]

\* What retiring tenant t's loop leaves: an attempt in flight ends on its
\* own time.  Only a first success or a failure already noticed has an effect,
\* and two loops of one tenant at the same point have the same one.
retire(ts) ==
    {[tenant |-> t, loop |-> disc[t].loop] : t \in
        {u \in ts : \/ disc[u].loop \in {"reporting", "announcing"}
                    \/ disc[u].loop = "reading" /\ disc[u].loaded = None}}

\* refresh reads the tenant's pool once; a tenant on none fails at once.
RefreshStart(t) ==
    /\ "discover" \in W.live
    /\ disc[t].loop = "idle"
    /\ LET from == Target(pools, t)
       IN disc' = [disc EXCEPT
            ![t].from = from,
            ![t].loop = IF from # None THEN "reading"
                        ELSE IF disc[t].loaded = None THEN "reporting" ELSE "idle"]
    /\ disc' # disc
    /\ UNCHANGED <<settings, pools, unreadable, retired, livez, limits, caching>>

\* The schema is published whole when every query of the refresh answered.
RefreshEnd(t) ==
    /\ disc[t].loop = "reading"
    /\ \/ disc' = [disc EXCEPT ![t].loaded = disc[t].from, ![t].from = None,
                     ![t].loop = IF disc[t].loaded = None THEN "announcing" ELSE "idle"]
       \/ disc' = [disc EXCEPT ![t].from = None,
                     ![t].loop = IF disc[t].loaded = None THEN "reporting" ELSE "idle"]
    /\ UNCHANGED <<settings, pools, unreadable, retired, livez, limits, caching>>

\* onAttempt, for a tenant that may be gone.
onAttemptBug(t) == livez' = IF livez # "ok" THEN t ELSE livez

\* onAttempt: the diagnostic names a tenant still served, until one loaded.
onAttempt(t) == livez' = IF livez # "ok" /\ Served(t) THEN t ELSE livez

onLoaded == livez' = "ok"

Report(t) ==
    /\ \/ disc[t].loop = "reporting" /\ onAttempt(t)
       \/ disc[t].loop = "announcing" /\ onLoaded
    /\ disc' = [disc EXCEPT ![t].loop = "idle"]
    /\ UNCHANGED <<settings, pools, unreadable, retired, limits, caching>>

\* A retired loop ends: its context is cancelled, so a failure it meets now
\* is not reported.
RetiredEnds ==
    /\ \E r \in retired :
          /\ retired' = retired \ {r}
          /\ CASE r.loop = "reporting" -> onAttempt(r.tenant)
               [] r.loop = "announcing" -> onLoaded
               [] OTHER -> onLoaded \/ UNCHANGED livez
    /\ UNCHANGED <<settings, pools, unreadable, disc, limits, caching>>

-----------------------------------------------------------------------------
(* Ingest limits, one entry per served tenant: its document's, or "none"   *)
(* when they were refused and it had none before.                          *)

Wrapped(n) == ((n + MaxDuration) % (2 * MaxDuration)) - MaxDuration

checkIngestLimitsBug(doc) ==
    LET d == Docs[doc] IN d.wait > 0 /\ d.insert > 0 /\ Wrapped(d.wait + d.insert) < W.ackWait

checkIngestLimits(doc) ==
    LET d == Docs[doc]
    IN d.wait > 0 /\ d.insert > 0 /\ d.wait < W.ackWait /\ d.insert < W.ackWait - d.wait

\* Every served tenant's limits, with l.mu held.
reconciledLimits ==
    [t \in Tenants |->
        IF ~Served(t) THEN Absent
        ELSE IF checkIngestLimits(store[t]) THEN store[t]
        ELSE IF limits[t] = Absent THEN None ELSE limits[t]]

limitsRefused == \E t \in Tenants : Served(t) /\ ~checkIngestLimits(store[t])

\* The worker asks before the hook has run for a tenant just adopted.
LimitsFor(t) ==
    /\ "limits" \in W.live
    /\ limits[t] = Absent
    /\ Served(t)
    /\ limits' = reconciledLimits
    /\ UNCHANGED <<settings, pools, unreadable, discovery, caching>>

-----------------------------------------------------------------------------
(* Cached answers.  A query snapshots its tenant's version ("fresh" until  *)
(* a bump), then takes the tenant's pool, runs, and stores its answer if   *)
(* the version is still that.                                              *)

NoQuery == [pc |-> "off", fresh |-> FALSE, at |-> None]

\* Bumps the versions of ts: their answers are out of reach.
Bump(ts) ==
    /\ answer' = [t \in Tenants |-> IF t \in ts THEN None ELSE answer[t]]
    /\ query' = [t \in Tenants |-> IF t \in ts THEN [query[t] EXCEPT !.fresh = FALSE] ELSE query[t]]

QueryBegin(t) ==
    /\ "query" \in W.live
    /\ Served(t)
    /\ query[t].pc = "off"
    /\ answer[t] = None
    /\ query' = [query EXCEPT ![t] = [NoQuery EXCEPT !.pc = "pool", !.fresh = TRUE]]
    /\ UNCHANGED <<settings, pools, unreadable, discovery, limits, answer, insert>>

\* The pool is taken, and the query runs on it; on none it is refused.
QueryRun(t) ==
    /\ query[t].pc = "pool"
    /\ LET at == Target(pools, t)
       IN query' = [query EXCEPT ![t] = IF at = None THEN NoQuery
                                        ELSE [@ EXCEPT !.pc = "ran", !.at = at]]
    /\ UNCHANGED <<settings, pools, unreadable, discovery, limits, answer, insert>>

\* The answer is stored whatever became of the version.
QueryStoreBug(t) ==
    /\ query[t].pc = "ran"
    /\ answer' = [answer EXCEPT ![t] = query[t].at]
    /\ query' = [query EXCEPT ![t] = NoQuery]
    /\ UNCHANGED <<settings, pools, unreadable, discovery, limits, insert>>

QueryStore(t) ==
    /\ query[t].pc = "ran"
    /\ answer' = IF query[t].fresh THEN [answer EXCEPT ![t] = query[t].at] ELSE answer
    /\ query' = [query EXCEPT ![t] = NoQuery]
    /\ UNCHANGED <<settings, pools, unreadable, discovery, limits, insert>>

\* A batch of tenant t is inserted into the tables of its target.
Insert(t) ==
    /\ "insert" \in W.live
    /\ insert[t] = None
    /\ Target(pools, t) # None
    /\ insert' = [insert EXCEPT ![t] = Target(pools, t)]
    /\ UNCHANGED <<settings, pools, unreadable, discovery, limits, answer, query>>

\* The worker invalidates the batch's tables, for every tenant sharing them
\* (sharedTables.Invalidate).
Invalidate(t) ==
    /\ insert[t] # None
    /\ insert' = [insert EXCEPT ![t] = None]
    /\ Bump({t} \cup SharingTables(pools, t))
    /\ UNCHANGED <<settings, pools, unreadable, discovery, limits>>

-----------------------------------------------------------------------------
(* The AfterAdopt hooks, in the order they are registered.                 *)

\* The served tenants and their documents, in id order.
addMember(want, t) ==
    IF Served(t) THEN Append(want, [tenant |-> t, doc |-> store[t]]) ELSE want

Members == FoldLeft(addMember, <<>>, Ids)

HookPools ==
    /\ reload.pc = "pools"
    /\ \E r \in {Reconcile(pools, Members, W.ceiling, unreadable)} :
          /\ pools' = r.pools
          /\ reload' = [reload EXCEPT !.pc = "drop", !.stale = r.stale, !.failed = r.errs]
    /\ UNCHANGED <<world, disk, store, tenants, result, watch, edits,
                   unreadable, discovery, limits, caching>>

\* The schemas of moved tenants are kept.
HookDropBug ==
    /\ reload.pc = "drop"
    /\ reload' = [reload EXCEPT !.pc = "orphan"]
    /\ UNCHANGED <<world, disk, store, tenants, result, watch, edits,
                   pools, unreadable, discovery, limits, caching>>

HookDrop ==
    /\ reload.pc = "drop"
    /\ retired' = retired \cup retire(reload.stale)
    /\ disc' = [t \in Tenants |-> IF t \in reload.stale THEN NoRegistry ELSE disc[t]]
    /\ reload' = [reload EXCEPT !.pc = "orphan"]
    /\ UNCHANGED <<world, disk, store, tenants, result, watch, edits,
                   pools, unreadable, livez, limits, caching>>

\* Cache.InvalidateTenant, one stale tenant after another.
HookOrphan ==
    /\ reload.pc = "orphan"
    /\ \/ \E t \in reload.stale :
             /\ Bump({t})
             /\ reload' = [reload EXCEPT !.stale = @ \ {t}]
       \/ /\ reload.stale = {}
          /\ reload' = [reload EXCEPT !.pc = "discover"]
          /\ UNCHANGED <<answer, query>>
    /\ UNCHANGED <<world, disk, store, tenants, result, watch, edits,
                   pools, unreadable, discovery, limits, insert>>

\* A loop for every served tenant without one, none for the rest; and the
\* diagnostic of a tenant no longer served goes with it.
HookDiscover ==
    /\ reload.pc = "discover"
    /\ retired' = retired \cup retire({t \in Tenants : ~Served(t)})
    /\ disc' = [t \in Tenants |-> IF ~Served(t) THEN NoRegistry
                                  ELSE IF disc[t] = NoRegistry THEN NewRegistry ELSE disc[t]]
    /\ livez' = IF livez \in Tenants /\ ~Served(livez) THEN "none yet" ELSE livez
    /\ reload' = [reload EXCEPT !.pc = "limits"]
    /\ UNCHANGED <<world, disk, store, tenants, result, watch, edits,
                   pools, unreadable, limits, caching>>

HookLimits ==
    /\ reload.pc = "limits"
    /\ limits' = reconciledLimits
    /\ reload' = [reload EXCEPT !.pc = "record", !.failed = @ \/ limitsRefused]
    /\ UNCHANGED <<world, disk, store, tenants, result, watch, edits,
                   pools, unreadable, discovery, caching>>

-----------------------------------------------------------------------------
(* Boot: the directory is opened, then each consumer applied once.  A flat *)
(* directory boots only when nothing was refused, a nested one with a      *)
(* tenant to serve.                                                        *)

served0 == {t \in Tenants : t \in DOMAIN Validate(W.boot).docs /\ Validate(W.boot).docs[t] # Bad}

Boots(r) ==
    /\ Validate(W.boot).ok
    /\ Validate(W.boot).nested = W.nested
    /\ served0 # {}
    /\ ~W.nested => ~r.errs /\ ~limitsRefused

Init ==
    /\ world \in DOMAIN Worlds
    /\ disk = W.boot
    /\ edits = 0
    /\ LET docs == Validate(W.boot).docs
       IN /\ tenants = [t \in Tenants |-> IF t \notin DOMAIN docs THEN "unknown"
                                          ELSE IF docs[t] = Bad THEN "rejected" ELSE "served"]
          /\ store = [t \in Tenants |-> IF Served(t) THEN docs[t] ELSE None]
    /\ unreadable = W.unreadable
    /\ \E r \in {Reconcile(NoPools(Tenants), Members, W.ceiling, W.unreadable)} :
          /\ Boots(r)
          /\ pools = r.pools
          /\ result = IF Validate(W.boot).errs \/ r.errs \/ limitsRefused
                      THEN "partial" ELSE "adopted"
    /\ limits = [t \in Tenants |-> IF ~Served(t) THEN Absent
                                   ELSE IF checkIngestLimits(store[t]) THEN store[t] ELSE None]
    \* A flat directory's tenant is refreshed before its loop starts.
    /\ \/ /\ livez = IF W.nested THEN "none yet" ELSE Default
          /\ disc = [t \in Tenants |-> IF Served(t) THEN NewRegistry ELSE NoRegistry]
       \/ /\ ~W.nested
          /\ livez = "ok"
          /\ disc = [t \in Tenants |-> [NewRegistry EXCEPT !.loaded = Target(pools, t)]]
    /\ reload = NoReload
    /\ watch = IF W.nested THEN NoWatch ELSE [NoWatch EXCEPT !.pc = "start"]
    /\ retired = {}
    /\ answer = [t \in Tenants |-> None]
    /\ query = [t \in Tenants |-> NoQuery]
    /\ insert = [t \in Tenants |-> None]

consumers == <<pools, unreadable, discovery, limits, caching>>

\* The operator repairs or loses certificate files.
Certificates ==
    /\ unreadable' \in {{}, W.unreadable} \ {unreadable}
    /\ UNCHANGED <<settings, pools, discovery, limits, caching>>

Hooks == HookPools \/ HookDrop \/ HookOrphan \/ HookDiscover \/ HookLimits

\* The steps of a reload once it holds the lock, and of the watcher.
Reloading ==
    \/ (AdoptDoc \/ Swap \/ Record) /\ UNCHANGED consumers
    \/ Hooks

WatchReload == Reload("watch") /\ UNCHANGED consumers

Watching == (WatchDir \/ WatchParent \/ TakeEvent \/ TimerFires) /\ UNCHANGED consumers

Next ==
    \/ (Edit \/ \E g \in Triggers \ {"watch"} : Reload(g)) /\ UNCHANGED consumers
    \/ (\E t \in Tenants : ReloadTenant(t)) /\ UNCHANGED consumers
    \/ Certificates
    \/ Reloading
    \/ Watching \/ WatchReload
    \/ \E t \in Tenants :
          \/ RefreshStart(t) \/ RefreshEnd(t) \/ Report(t)
          \/ LimitsFor(t)
          \/ QueryBegin(t) \/ QueryRun(t) \/ QueryStore(t)
          \/ Insert(t) \/ Invalidate(t)
    \/ RetiredEnds

\* The watcher's goroutine runs.  A reload in progress ends: one of its
\* steps can always be taken, and its hooks wait on nothing but locks held
\* briefly and a bounded cache call.  The registry's lock is a Go mutex,
\* which a waiter gets in the end.
Fairness ==
    /\ WF_vars(Watching)
    /\ []<>(reload.pc = "idle")
    /\ SF_vars(WatchReload)

Spec == Init /\ [][Next]_vars /\ Fairness

-----------------------------------------------------------------------------
(* Properties.                                                             *)

\* The sizes of the open pools together never pass clickhouse.max_total_conns,
\* whatever order tenants leave, move, grow and are refused in
\* (Pools.Reconcile, walk.fits).
WithinCeiling == W.ceiling > 0 => SumFunction(pools.size) <= W.ceiling

\* A reload recorded as adopted left nothing behind: every served tenant is
\* on the pool its document names, which is as large as it asks, and the
\* worker applies its document's limits.  A refusal placed again, a pool kept
\* at its size or limits kept from before make the reload partial
\* (ResultAdopted, Registry.Reconciled).
AdoptedMeansReconciled ==
    (reload.pc = "idle" /\ result = "adopted") =>
        \A t \in Tenants : Served(t) =>
            /\ pools.on[t] = store[t]
            /\ pools.size[Identity(store[t])] >= Docs[store[t]].open
            /\ limits[t] = store[t]

\* A schema is of the database its tenant's queries and inserts run against:
\* a tenant moved elsewhere answers "not loaded" from the moment its old
\* registry is dropped, also when a refresh of the old database was in flight
\* (discoveries.drop, discoverySource).
SchemaOfThePool ==
    \A t \in Tenants :
        (disc[t].loaded # None /\ pools.on[t] # None /\ reload.pc # "drop")
            => disc[t].loaded = Target(pools, t)

\* No answer in reach was read from a database its tenant has left: once a
\* moved tenant is orphaned, neither an answer stored before nor one of a
\* query that took the old pool is served (wireClickHouse's hook order, and
\* the snapshot taken before the pool).
AnswersOfThePool ==
    \A t \in Tenants \ reload.stale :
        (answer[t] # None /\ pools.on[t] # None) => answer[t] = Target(pools, t)

\* What the worker applies leaves a batch time to be flushed and inserted
\* before the queue redelivers it, with no sum wrapping past the largest
\* duration (checkIngestLimits).
LimitsWithinAckWait ==
    \A t \in Tenants : limits[t] \notin {None, Absent} =>
        LET d == Docs[limits[t]] IN d.wait > 0 /\ d.insert > 0 /\ d.wait + d.insert < W.ackWait

\* Between reloads /livez names no tenant that is not served, though a loop a
\* reload stopped may report once more; and it is 200 while a schema that was
\* announced is in use, whatever other loops report (wireDiscovery).
LivezTruthful ==
    /\ (reload.pc = "idle" /\ livez \in Tenants) => Served(livez)
    /\ (\E t \in Tenants : disc[t].loaded # None /\ disc[t].loop # "announcing") => livez = "ok"

\* Once the operator leaves a watched flat directory alone with a document
\* that validates, that document is adopted, however the directory came to
\* hold it: edited in place, removed and made again, or replaced, before,
\* during or after a reload (Registry.Watch).
WatchConverges ==
    <>[](watch.pc = "loop" /\ watch.parent /\ treeOf(disk).ok
            => store[Default] = treeOf(disk).docs[Default])
=============================================================================
