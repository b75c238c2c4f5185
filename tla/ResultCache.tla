----------------------------- MODULE ResultCache -----------------------------
(***************************************************************************)
(* The query result cache (internal/cache): the in-process one over its    *)
(* version index (local.go, version_manager.go), and the one in a Redis    *)
(* shared by several processes (redis.go, redis_codec.go, pending.go,      *)
(* breaker.go), with the read path of the query and pipe endpoints         *)
(* (internal/api) and the inserts and reloads that invalidate it.          *)
(*                                                                         *)
(* A scene says which of the two a behaviour uses.  Every change of what   *)
(* ClickHouse holds takes the next stamp; a result is the stamp of the     *)
(* last change it reflects.  A tenant's address in ClickHouse is a number: *)
(* a reload may move it to the next one.                                   *)
(***************************************************************************)
EXTENDS Integers, FiniteSets

CONSTANTS
    Procs,       \* processes
    Writers,     \* the ones that run the ingest worker and so invalidate
    Tables,      \* tables of the tenant
    Scopes,      \* named scopes of inserts
    Reqs,        \* requests under way at once
    Asks,        \* what a request may ask: [sql, table, deps]; an ask is the
                 \* sha of its SQL and the dependencies it is looked up with
    PendingMax,  \* undelivered bumps kept before they collapse
    Threshold,   \* BreakerThreshold
    MaxChanges,  \* bound: inserts and moves
    MaxPrunes,   \* bound: generations of the local index pruned
    Scenes       \* scene -> the backend, the scopes inserts name, and bounds on
                 \* moves, outages of the server, and lost replies or tokens

FaultKind == {"outage", "loss"}

None == "none"
Whole == ""  \* the scope of a write to the whole table

ASSUME CacheAssumption ==
    \* A structured query depends on its whole table, a pipe names nothing.
    /\ \A a \in Asks : a.table \in Tables /\ a.deps \in {{}, {<<a.table, Whole>>}}
    /\ None \notin Tables
    /\ Writers \subseteq Procs /\ IsFiniteSet(Reqs)
    /\ PendingMax \in Nat \ {0} /\ Threshold \in Nat \ {0}
    /\ MaxChanges \in Nat /\ MaxPrunes \in Nat
    /\ \A s \in DOMAIN Scenes :
         Scenes[s] \in [backend : {"local", "redis"}, inserts : SUBSET ({Whole} \cup Scopes), moves : Nat,
                       faults : [FaultKind -> Nat]]

VARIABLES
    scene,    \* never changed
    index,    \* the tenant's version index: gen (0 none), tables and scopes
    lastGen,  \* the last generation handed out
    kept,     \* Ristretto: key at its versions -> result
    server,   \* Redis: "up", or "down": it does not answer, or refuses writes
    token,    \* token key -> token, 0 if it is not there
    value,    \* value key -> [tokens, result]
    faults,   \* kind of fault -> how many so far
    proc,     \* process -> its client's breaker and pending bumps
    req,      \* request -> where it is
    inv,      \* process -> the invalidation it has under way
    addr,     \* the tenant's address
    db,       \* address -> table -> stamp of its last change
    stamp,    \* changes so far
    sure,     \* history: [t |-> stamp] whose invalidation returned without error
    told      \* history: process -> the same, of its own, deferred ones included

redis == <<server, token, value, faults>>
local == <<index, lastGen, kept>>
house == <<addr, db, stamp>>
past == <<sure, told>>
vars == <<scene, local, redis, proc, req, inv, house, past>>

Scene == Scenes[scene]
backend == Scene.backend

NoResult == -1
NoSnap == <<>>  \* the zero Snapshot
AnyScope == {Whole} \cup Scopes

-----------------------------------------------------------------------------
(* redis_codec.go, version_manager.go: the versions a result depends on.   *)

TenantKey == <<"T">>
TableKey(t) == <<"B", t>>
ScopeKey(t, s) == <<"S", t, s>>
TokenKey == {TenantKey} \cup UNION {{TableKey(t)} \cup {ScopeKey(t, s) : s \in AnyScope} : t \in Tables}

\* tokenKeys: the tokens a result for deps is filed under.
TokenKeys(deps) == {TenantKey} \cup UNION {{TableKey(d[1]), ScopeKey(d[1], d[2])} : d \in deps}

\* bumpKeys: a whole-table write replaces the table's token, a scoped one its
\* scope's and the whole-table view's.
BumpKeys(t, s) == IF s = Whole THEN {TableKey(t)} ELSE {ScopeKey(t, s), ScopeKey(t, Whole)}

NoIndex == [gen |-> 0, table |-> [t \in Tables |-> 0], scope |-> [t \in Tables |-> [s \in AnyScope |-> 0]]]

\* QueryKey: the sha folded with every version the result depends on.
QueryKey(ix, a) ==
    [query |-> a, gen |-> ix.gen, deps |-> [d \in a.deps |-> <<ix.table[d[1]], ix.scope[d[1]][d[2]]>>]]

\* BumpTable and BumpNamespace; without an index there is nothing to orphan.
Bumped(ix, t, s) ==
    IF ix.gen = 0 THEN ix
    ELSE IF s = Whole THEN [ix EXCEPT !.table[t] = @ + 1, !.scope[t] = [x \in AnyScope |-> 0]]
    ELSE [ix EXCEPT !.scope[t] = [x \in AnyScope |-> IF x \in {s, Whole} THEN @[x] + 1 ELSE @[x]]]

\* A new token: one nobody has.  Tokens are only ever compared with others of
\* their key.
Named(k) ==
    {token[k]} \cup {value[x].tokens[k] : x \in {y \in DOMAIN value : k \in DOMAIN value[y].tokens}}
               \cup {req[r].snap[k] : r \in {q \in Reqs : k \in DOMAIN req[q].snap}}

Nonce(k) == CHOOSE n \in 1..Cardinality(Named(k)) + 1 : n \notin Named(k)

-----------------------------------------------------------------------------
(* pending.go and breaker.go: one process's client.                        *)

\* owed: the keys owed a bump.  A drain under way: the keys it landed, and
\* the ones added since it looked (what pendingKey.gen tells apart).
Client == [open |-> FALSE, probing |-> FALSE, failures |-> 0,
           owed |-> {}, landed |-> {}, since |-> {}]

\* add; past PendingMax the set collapses to the tenant's token.
Owing(c, keys) ==
    LET collapse == Cardinality(c.owed \cup keys) > PendingMax
        added == IF collapse THEN {TenantKey} ELSE keys
    IN IF keys = {} THEN c
       ELSE [c EXCEPT !.owed = IF collapse THEN added ELSE @ \cup added,
                      !.since = IF c.landed = {} THEN {} ELSE @ \cup added]

DoneBug(c) == c.owed \ c.landed

\* done: drops the keys whose bump landed, unless one was added again since.
Done(c) == c.owed \ (c.landed \ c.since)

OwesAny(c, keys) == c.owed \cap keys # {}

\* While it is open the count of failures decides nothing.
Opened(c) == [c EXCEPT !.open = TRUE, !.probing = FALSE, !.failures = 0]

\* success: ignored while open, unless a probe is out.
Answered(c) ==
    IF c.open /\ ~c.probing THEN c
    ELSE [c EXCEPT !.failures = 0, !.open = FALSE, !.probing = FALSE]

\* failure, and trip for a reply refusing the work.
Missed(c) ==
    LET n == IF c.failures < Threshold THEN c.failures + 1 ELSE c.failures
    IN IF c.probing \/ n >= Threshold THEN Opened(c)
       ELSE [c EXCEPT !.failures = n]

\* record, of a call the server took; or of one it did not answer, refused,
\* answered with another error or with a reply that cannot be used, or whose
\* caller gave up first.
Recorded(c, ok) == IF ok THEN {Answered(c)} ELSE {Missed(c), Opened(c), Answered(c), c}

-----------------------------------------------------------------------------
\* pc: "free", "looking" (before the tokens), "reading" (before the value),
\* "conn", "leading", "following", "filling", "done".
Idle == [pc |-> "free", at |-> None, ask |-> None, snap |-> NoSnap, entry |-> NoResult, conn |-> 0,
         data |-> NoResult, since |-> 0, stale |-> FALSE]

Nothing == [step |-> "none", keys |-> {}, table |-> None, stamp |-> 0]

Zero == [t \in Tables |-> 0]

Init ==
    /\ scene \in DOMAIN Scenes
    /\ index = NoIndex /\ lastGen = 0 /\ kept = <<>>
    /\ server = "up" /\ token = [k \in TokenKey |-> 0] /\ value = <<>> /\ faults = [kind \in FaultKind |-> 0]
    /\ proc = [p \in Procs |-> Client]
    /\ req = [r \in Reqs |-> Idle] /\ inv = [p \in Procs |-> Nothing]
    /\ addr = 0 /\ db = [a \in 0..MaxChanges |-> Zero] /\ stamp = 0
    /\ sure = [move |-> 0, t |-> Zero] /\ told = [p \in Procs |-> [move |-> 0, t |-> Zero]]

Max2(a, b) == IF a > b THEN a ELSE b

\* What a result for the ask must at least reflect, looked up at p now.
Floor(p, a) ==
    LET moved == Max2(sure.move, told[p].move)
        insert == Max2(sure.t[a.table], told[p].t[a.table])
    IN IF \E d \in a.deps : d[1] = a.table THEN Max2(moved, insert) ELSE moved

-----------------------------------------------------------------------------
(* Requests: the read path of StructuredQueryHandler and PipesHandler.     *)

Set(r, q) == req' = [req EXCEPT ![r] = q]
Client_(p, c) == proc' = [proc EXCEPT ![p] = c]
Called(p, ok) == \E c \in Recorded(proc[p], ok) : Client_(p, c)

\* The request has been authorized and its SQL built.
Ask(r, p, a) ==
    /\ req[r].pc = "free"
    /\ Set(r, [Idle EXCEPT !.pc = "looking", !.at = p, !.ask = a, !.since = Floor(p, a)])
    /\ UNCHANGED <<scene, local, redis, proc, inv, house, past>>

\* The request is answered; what it held is gone.  stale is history: the
\* answer was a hit older than what it had to reflect.
Gone == [Idle EXCEPT !.pc = "done"]
AnswerHit(q) == [Gone EXCEPT !.stale = q.entry < q.since]

Miss(q) == [q EXCEPT !.pc = "conn", !.snap = NoSnap, !.since = 0]

\* LocalCache.Lookup: the key at the versions read under one lock; the first
\* key of a tenant creates its index.
LookupLocal(r) ==
    LET q == req[r]
        ix == IF index.gen = 0 THEN [index EXCEPT !.gen = lastGen + 1] ELSE index
        key == QueryKey(ix, q.ask)
    IN /\ backend = "local" /\ q.pc = "looking"
       /\ index' = ix /\ lastGen' = Max2(lastGen, ix.gen)
       /\ Set(r, [q EXCEPT !.pc = "conn", !.snap = key,
                           !.entry = IF key \in DOMAIN kept THEN kept[key] ELSE NoResult])
       /\ UNCHANGED <<scene, kept, redis, proc, inv, house, past>>

\* RedisCache.Lookup skips the server: a bump is owed, or the breaker is open.
LookupBypassed(r) ==
    LET q == req[r]
        c == proc[q.at]
        keys == TokenKeys(q.ask.deps)
    IN /\ backend = "redis" /\ q.pc = "looking"
       /\ OwesAny(c, keys) \/ c.open
       /\ Set(r, Miss(q))
       /\ UNCHANGED <<scene, local, redis, proc, inv, house, past>>

\* Its MGET; tokens that are not there are created, which is a miss.
LookupTokens(r) ==
    LET q == req[r]
        c == proc[q.at]
        keys == TokenKeys(q.ask.deps)
        missing == {k \in keys : token[k] = 0}
        all == [k \in TokenKey |-> IF k \in missing THEN Nonce(k) ELSE token[k]]
    IN /\ backend = "redis" /\ q.pc = "looking"
       /\ ~OwesAny(c, keys) /\ ~c.open /\ server = "up"
       /\ token' = all
       /\ Set(r, [q EXCEPT !.pc = IF missing = {} THEN "reading" ELSE "conn", !.snap = [k \in keys |-> all[k]]])
       /\ Client_(q.at, Answered(c))
       /\ UNCHANGED <<scene, local, server, value, faults, inv, house, past>>

\* A value is a hit only while every token it was filed under is current.
Hit(q) == q.ask \in DOMAIN value /\ value[q.ask].tokens = q.snap

\* ... and the GET of the same round trip.
LookupValue(r) ==
    LET q == req[r]
    IN /\ q.pc = "reading" /\ server = "up"
       /\ Set(r, [q EXCEPT !.pc = "conn", !.entry = IF Hit(q) THEN value[q.ask].result ELSE NoResult])
       /\ UNCHANGED <<scene, local, redis, proc, inv, house, past>>

\* The server does not answer, or refuses to create a token.
LookupFailed(r) ==
    LET q == req[r]
        c == proc[q.at]
    IN /\ backend = "redis"
       /\ \/ q.pc = "looking" /\ ~OwesAny(c, TokenKeys(q.ask.deps)) /\ ~c.open /\ server # "up"
          \/ q.pc = "reading" /\ server # "up"
       /\ Set(r, Miss(q))
       /\ Called(q.at, FALSE)
       /\ UNCHANGED <<scene, local, redis, inv, house, past>>

\* connOf: a tenant on no pool, since some reload, is a 503 even with a hit in
\* hand.
NoPool(r) ==
    /\ req[r].pc = "conn"
    /\ Set(r, Gone)
    /\ UNCHANGED <<scene, local, redis, proc, inv, house, past>>

\* Otherwise a hit is answered; and singleflight makes one request of a
\* process run a query, the others wait for it.
TakeConn(r) ==
    LET q == req[r]
        lead == {s \in Reqs : /\ req[s].pc \in {"leading", "filling"}
                              /\ req[s].at = q.at /\ req[s].ask = q.ask}
    IN /\ q.pc = "conn"
       /\ Set(r, IF q.entry # NoResult THEN AnswerHit(q)
                 ELSE [q EXCEPT !.pc = IF lead = {} THEN "leading" ELSE "following",
                                !.conn = IF lead = {} THEN addr ELSE 0, !.snap = IF lead = {} THEN @ ELSE NoSnap, !.since = 0])
       /\ UNCHANGED <<scene, local, redis, proc, inv, house, past>>

\* ClickHouse answers over the connection taken, whatever the address is now.
RunQuery(r) ==
    LET q == req[r]
    IN /\ q.pc = "leading"
       /\ Set(r, [q EXCEPT !.pc = "filling", !.data = db[q.conn][q.ask.table], !.conn = 0])
       /\ UNCHANGED <<scene, local, redis, proc, inv, house, past>>

Followers(r) == {s \in Reqs : /\ req[s].pc = "following" /\ req[s].at = req[r].at
                              /\ req[s].ask = req[r].ask}

\* The flight ends: everyone waiting gets the leader's answer.
Ends(r) ==
    req' = [s \in Reqs |-> IF s = r \/ s \in Followers(r)
                           THEN Gone ELSE req[s]]

QueryFails(r) ==
    /\ req[r].pc = "leading"
    /\ Ends(r)
    /\ UNCHANGED <<scene, local, redis, proc, inv, house, past>>

SnapBug(q) == IF backend = "redis" THEN [k \in TokenKeys(q.ask.deps) |-> token[k]] ELSE QueryKey(index, q.ask)

\* The snapshot the Lookup took, before anything the query read was chosen.
Snap(q) == q.snap

\* f with v under k.
With(f, k, v) == [x \in DOMAIN f \cup {k} |-> IF x = k THEN v ELSE f[x]]

\* Set.
Fill(r) ==
    LET q == req[r]
        c == proc[q.at]
        snap == Snap(q)
    IN /\ q.pc = "filling"
       /\ Ends(r)
       /\ \/ /\ backend = "local"
             /\ kept' = With(kept, snap, q.data)
             /\ UNCHANGED <<redis, proc>>
          \/ /\ backend = "redis" /\ (q.snap = NoSnap \/ c.open)
             /\ UNCHANGED <<kept, redis, proc>>
          \/ /\ backend = "redis" /\ q.snap # NoSnap /\ ~c.open
             /\ Called(q.at, server = "up")
             /\ value' = IF server = "up" THEN With(value, q.ask, [tokens |-> snap, result |-> q.data]) ELSE value
             /\ UNCHANGED <<kept, server, token, faults>>
       /\ UNCHANGED <<scene, index, lastGen, inv, house, past>>

-----------------------------------------------------------------------------
(* Invalidations: an insert's (ingest worker), and a tenant's (a reload    *)
(* that moved it, wireClickHouse).                                         *)

Changes(p, keys, t) ==
    /\ p \in Writers /\ inv[p].step = "none" /\ stamp < MaxChanges
    /\ stamp' = stamp + 1
    /\ inv' = [inv EXCEPT ![p] = [step |-> "bump", keys |-> keys, table |-> t, stamp |-> stamp + 1]]
    /\ UNCHANGED <<scene, redis, proc, req, past>>

\* Rows reach ClickHouse; the invalidation follows.
Insert(p, t, s) ==
    /\ Changes(p, BumpKeys(t, s), t)
    /\ db' = [db EXCEPT ![addr][t] = stamp + 1]
    /\ UNCHANGED <<local, addr>>

\* A reload moves the tenant: its pool is switched, then the cache told.
Move(p) ==
    /\ addr < Scene.moves
    /\ Changes(p, {TenantKey}, None)
    /\ addr' = addr + 1 /\ db' = [db EXCEPT ![addr + 1] = [t \in Tables |-> stamp + 1]]
    /\ UNCHANGED local

\* The call returns: from here on its change must show.
Returned(p, acked) ==
    LET i == inv[p]
        After(h) == IF i.table = None THEN [h EXCEPT !.move = Max2(@, i.stamp)]
                    ELSE [h EXCEPT !.t[i.table] = Max2(@, i.stamp)]
    IN /\ inv' = [inv EXCEPT ![p] = Nothing]
       /\ told' = [told EXCEPT ![p] = After(@)]
       /\ sure' = IF acked THEN After(sure) ELSE sure

\* BumpTenant drops the tenant's index.
Dropped(ix) == NoIndex

InvalidateLocal(p) ==
    LET i == inv[p]
        scoped == {s \in AnyScope : i.keys = BumpKeys(i.table, s)}
    IN /\ backend = "local" /\ i.step = "bump"
       /\ index' = IF i.table = None THEN Dropped(index) ELSE Bumped(index, i.table, CHOOSE s \in scoped : TRUE)
       /\ Returned(p, TRUE)
       /\ UNCHANGED <<scene, lastGen, kept, redis, proc, req, house>>

Fault(kind) == faults[kind] < Scene.faults[kind] /\ faults' = [faults EXCEPT ![kind] = @ + 1]

\* sendBumps: the server takes the keys in took, and says so for acked: all of
\* them, or none if it is down, unless replies are lost.
Delivery(keys, took, acked) ==
    \/ took = (IF server = "up" THEN keys ELSE {}) /\ acked = took /\ UNCHANGED faults
    \/ server = "up" /\ acked # keys /\ Fault("loss")

Sent(took) ==
    /\ server = "up" \/ took = {}
    /\ token' = [k \in TokenKey |-> IF k \in took THEN Nonce(k) ELSE token[k]]
    /\ UNCHANGED <<server, value>>

\* bump: what the server did not acknowledge is owed.
InvalidateRedis(p, took, acked) ==
    LET i == inv[p]
        c == proc[p]
    IN /\ backend = "redis" /\ i.step = "bump" /\ ~c.open
       /\ Delivery(i.keys, took, acked)
       /\ Sent(took)
       /\ \E d \in Recorded(c, acked = i.keys) : Client_(p, Owing(d, i.keys \ acked))
       /\ Returned(p, acked = i.keys)
       /\ UNCHANGED <<scene, local, req, house>>

\* ... or the server is bypassed, and all of it is.
InvalidateDeferred(p) ==
    LET i == inv[p]
        c == proc[p]
    IN /\ backend = "redis" /\ i.step = "bump" /\ c.open
       /\ Client_(p, Owing(c, i.keys))
       /\ Returned(p, FALSE)
       /\ UNCHANGED <<scene, local, redis, req, house>>

-----------------------------------------------------------------------------
(* drainLoop and probe.                                                    *)

\* drain sends what is owed now, and has the server's answer for acked.
DrainSent(p, took, acked) ==
    LET c == proc[p]
        keys == c.owed
    IN /\ keys # {} /\ c.landed = {} /\ ~c.open
       /\ Delivery(keys, took, acked)
       /\ Sent(took)
       /\ \E d \in Recorded(c, acked = keys) : Client_(p, [d EXCEPT !.landed = acked])
       /\ UNCHANGED <<scene, local, req, inv, house, past>>

DrainDone(p) ==
    LET c == proc[p]
    IN /\ c.landed # {}
       /\ Client_(p, [c EXCEPT !.owed = Done(c), !.landed = {}, !.since = {}])
       /\ UNCHANGED <<scene, local, redis, req, inv, house, past>>

\* openFor has passed: the next caller, or drainLoop, starts the one probe.
StartProbe(p) ==
    LET c == proc[p]
    IN /\ c.open /\ ~c.probing
       /\ Client_(p, [c EXCEPT !.probing = TRUE])
       /\ UNCHANGED <<scene, local, redis, req, inv, house, past>>

Probe(p) ==
    LET c == proc[p]
    IN /\ c.probing
       /\ Called(p, server = "up")
       /\ UNCHANGED <<scene, local, redis, req, inv, house, past>>

-----------------------------------------------------------------------------
(* The server, the settings and the process.                               *)

ServerFails ==
    /\ backend = "redis" /\ server = "up" /\ server' = "down" /\ Fault("outage")
    /\ UNCHANGED <<scene, local, token, value, proc, req, inv, house, past>>

ServerBack ==
    /\ server # "up" /\ server' = "up"
    /\ UNCHANGED <<scene, local, token, value, faults, proc, req, inv, house, past>>

\* A token is evicted or expires.
TokenLost(k) ==
    /\ token[k] # 0 /\ Fault("loss")
    /\ token' = [token EXCEPT ![k] = 0]
    /\ UNCHANGED <<scene, local, server, value, proc, req, inv, house, past>>

\* Prune: the tenant was not served for a while.
Prune ==
    /\ backend = "local" /\ index.gen # 0 /\ lastGen <= MaxPrunes
    /\ index' = NoIndex
    /\ UNCHANGED <<scene, lastGen, kept, redis, proc, req, inv, house, past>>

Step(r) ==
    \/ LookupLocal(r) \/ LookupBypassed(r) \/ LookupTokens(r) \/ LookupValue(r) \/ LookupFailed(r)
    \/ NoPool(r) \/ TakeConn(r) \/ RunQuery(r) \/ QueryFails(r) \/ Fill(r)

Invalidate(p) ==
    \/ InvalidateLocal(p) \/ InvalidateDeferred(p)
    \/ \E took \in SUBSET inv[p].keys : \E acked \in SUBSET took : InvalidateRedis(p, took, acked)

DrainStep(p) ==
    \/ DrainDone(p)
    \/ \E took \in SUBSET proc[p].owed : \E acked \in SUBSET took : DrainSent(p, took, acked)

Others ==
    \/ \E r \in Reqs : Step(r)
    \/ \E p \in Procs :
         \/ \E t \in Tables, s \in Scene.inserts : Insert(p, t, s)
         \/ Move(p) \/ Invalidate(p) \/ DrainStep(p) \/ StartProbe(p) \/ Probe(p)
    \/ ServerFails \/ ServerBack \/ Prune \/ \E k \in TokenKey : TokenLost(k)

Next == Others \/ \E r \in Reqs, p \in Procs, a \in Asks : Ask(r, p, a)

Spec == Init /\ [][Next]_vars

-----------------------------------------------------------------------------
(* Properties.                                                             *)

\* "A bump that lands after the Lookup orphans the fill", and a bump that is
\* owed bypasses the cache: a cached result answered reflects every change
\* whose invalidation had returned when its lookup began, in any process if
\* it returned without error, and in this one even if it was deferred.
NoStaleHit == \A r \in Reqs : ~req[r].stale

\* A cached result that would be a hit now for the ask.
Servable(a) ==
    IF backend = "redis"
    THEN {value[k].result : k \in {x \in DOMAIN value : x = a
                               /\ value[x].tokens = [y \in TokenKeys(a.deps) |-> token[y]]}}
    ELSE {kept[k] : k \in {x \in DOMAIN kept : x = QueryKey(index, a)}}

\* "Landing a bump late is still correct", and done keeps a key added again:
\* while a stale result is servable, each process that knows of the change
\* still owes a bump that orphans it, and so does not serve it.
StaleIsOwed ==
    \A p \in Procs, a \in Asks : \A result \in Servable(a) :
        result < Floor(p, a) => OwesAny(proc[p], TokenKeys(a.deps))
=============================================================================
