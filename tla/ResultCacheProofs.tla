-------------------------- MODULE ResultCacheProofs --------------------------
(***************************************************************************)
(* Proofs about ResultCache, for any processes, tables, scopes, asks,      *)
(* requests and scenes, and every bound: no hit is stale, and a stale      *)
(* result that could still be one is owed a bump by every process that     *)
(* knows of the change.                                                    *)
(*                                                                         *)
(* Both rest on the same statement about every result filed or on its way  *)
(* to be filed under some versions: while those versions are current, the  *)
(* result reflects all it must, or the process that knows better owes a    *)
(* bump.  Versions once left behind never come back: a token is new to     *)
(* everyone who could compare it, and the in-process index only counts up. *)
(***************************************************************************)
EXTENDS ResultCache, FiniteSetTheorems, TLAPS

-----------------------------------------------------------------------------
(* The shape of the state.                                                 *)

Waiting == {"reading", "conn", "leading", "filling"}
Going == {"looking", "following"} \cup Waiting

ReqType(q) ==
    /\ DOMAIN q = {"pc", "at", "ask", "snap", "entry", "conn", "data", "since", "stale"}
    /\ q.pc \in {"free", "done"} \cup Going
    /\ q.pc \in Going => q.at \in Procs /\ q.ask \in Asks
    /\ q.entry \in Int /\ q.data \in Int /\ q.since \in Int
    /\ q.conn \in 0..MaxChanges

ClientType(c) == DOMAIN c = {"open", "probing", "failures", "owed", "landed", "since"}

\* The asks an insert or a move is about.
Concerns(i, a) == i.table = None \/ (i.table = a.table /\ a.deps # {})

InvType(i) ==
    /\ DOMAIN i = {"step", "keys", "table", "stamp"}
    /\ i.stamp \in Nat /\ i.keys \subseteq TokenKey
    /\ i.step # "none" =>
          /\ i.step = "bump" /\ i.table \in Tables \cup {None}
          /\ \A a \in Asks : Concerns(i, a) => i.keys \cap TokenKeys(a.deps) # {}

History == [move : Nat, t : [Tables -> Nat]]

TypeInv ==
    /\ scene \in DOMAIN Scenes
    /\ addr \in Nat /\ stamp \in Nat /\ addr <= stamp /\ stamp <= MaxChanges
    /\ db \in [0..MaxChanges -> [Tables -> Nat]]
    /\ \A x \in 0..MaxChanges, t \in Tables : db[x][t] <= stamp
    /\ sure \in History /\ told \in [Procs -> History]
    /\ DOMAIN req = Reqs /\ \A r \in Reqs : ReqType(req[r])
    /\ DOMAIN inv = Procs /\ \A p \in Procs : InvType(inv[p])
    /\ DOMAIN proc = Procs /\ \A p \in Procs : ClientType(proc[p])

-----------------------------------------------------------------------------
(* What the tenant's address holds reflects every change an invalidation   *)
(* was called for.                                                         *)

Reflects(n, h, t) == h.move <= n /\ h.t[t] <= n

HouseInv ==
    \A t \in Tables :
        /\ Reflects(db[addr][t], sure, t)
        /\ \A p \in Procs :
              /\ Reflects(db[addr][t], told[p], t)
              /\ inv[p].step # "none" /\ inv[p].table \in {t, None} => inv[p].stamp <= db[addr][t]

-----------------------------------------------------------------------------
(* Answers of hits.                                                        *)

Honest(q) ==
    /\ q.stale = FALSE
    /\ q.pc \in {"looking", "reading"} => q.since <= Floor(q.at, q.ask) /\ q.entry = NoResult
    /\ q.pc = "conn" /\ q.entry # NoResult => q.since <= q.entry

HitInv == \A r \in Reqs : Honest(req[r])

\* The result a request is to file: what it has read, or would read now.
Pending(q) ==
    IF q.pc = "filling" THEN q.data
    ELSE IF q.pc = "leading" THEN db[q.conn][q.ask.table]
    ELSE db[addr][q.ask.table]

-----------------------------------------------------------------------------
(* The shared cache.                                                       *)

\* Tokens a result for the ask is filed under.
Filed(tokens, a) ==
    /\ DOMAIN tokens = TokenKeys(a.deps)
    /\ tokens = [k \in TokenKeys(a.deps) |-> tokens[k]]
    /\ \A k \in TokenKeys(a.deps) : tokens[k] \in Nat /\ tokens[k] # 0

Current(tokens, a) == \A k \in TokenKeys(a.deps) : tokens[k] = token[k]

\* The process owes a bump that no drain has landed yet.
Due(c, a) == Done(c) \cap TokenKeys(a.deps) # {}

\* The result shows all it must, or the process knows and bypasses it.
Fresh(result, a) == \A p \in Procs : Floor(p, a) <= result \/ Due(proc[p], a)

\* Without versions there is nothing to file.
Versioned(q) ==
    q.pc \in Waiting => (q.pc # "reading" /\ q.snap = NoSnap) \/ Filed(q.snap, q.ask)

FiledInv ==
    /\ token \in [TokenKey -> Nat]
    /\ IsFiniteSet(DOMAIN value) /\ DOMAIN value \subseteq Asks
    /\ \A a \in DOMAIN value : Filed(value[a].tokens, a) /\ value[a].result \in Int
    /\ \A r \in Reqs : Versioned(req[r])

ValuesFresh ==
    \A a \in DOMAIN value : Current(value[a].tokens, a) => Fresh(value[a].result, a)

Sound(q) ==
    q.pc \in Waiting /\ q.snap # NoSnap /\ Current(q.snap, q.ask) => Fresh(Pending(q), q.ask)

PendingFresh == \A r \in Reqs : Sound(req[r])

\* Between the tokens and the value of one lookup, whatever is filed under
\* those tokens shows all the lookup must.
ReadersSafe ==
    \A r \in Reqs : req[r].pc = "reading" =>
        /\ req[r].ask \in DOMAIN value /\ value[req[r].ask].tokens = req[r].snap
              => req[r].since <= value[req[r].ask].result
        /\ \A s \in Reqs : req[s].pc \in Waiting /\ req[s].ask = req[r].ask /\ req[s].snap = req[r].snap
              => req[r].since <= Pending(req[s])

RedisInv == backend = "redis" => FiledInv /\ ValuesFresh /\ PendingFresh /\ ReadersSafe

-----------------------------------------------------------------------------
(* The in-process cache.                                                   *)

IndexType ==
    /\ index \in [gen : Nat, table : [Tables -> Nat], scope : [Tables -> [AnyScope -> Nat]]]
    /\ lastGen \in Nat /\ index.gen <= lastGen

\* Versions of the table and its whole-table view, not after x and y.
NotAfter(v, x, y) ==
    v[1] \in Nat /\ v[2] \in Nat /\ (v[1] < x \/ (v[1] = x /\ v[2] <= y))

\* A key that was current once.
Passed(key, a) ==
    /\ key.query = a /\ key.gen \in Nat /\ key.gen # 0 /\ key.gen <= lastGen
    /\ key.gen = index.gen /\ a.deps # {} =>
          NotAfter(key.deps[<<a.table, Whole>>], index.table[a.table], index.scope[a.table][Whole])

Shows(result, a) == \A p \in Procs : Floor(p, a) <= result

KeptShown ==
    \A key \in DOMAIN kept :
        /\ key.query \in Asks /\ Passed(key, key.query) /\ kept[key] \in Int
        /\ key = QueryKey(index, key.query) => Shows(kept[key], key.query)

Holding == {"conn", "leading", "filling"}

Shown(q) ==
    q.pc \in Holding =>
        /\ Passed(q.snap, q.ask)
        /\ q.snap = QueryKey(index, q.ask) => Shows(Pending(q), q.ask)

PendingShown == \A r \in Reqs : Shown(req[r])

LocalInv ==
    backend = "local" =>
        /\ \A p \in Procs : proc[p].owed = {}
        /\ \A r \in Reqs : req[r].pc # "reading"
        /\ IndexType /\ KeptShown /\ PendingShown

CacheInv == TypeInv /\ HouseInv /\ HitInv /\ RedisInv /\ LocalInv

-----------------------------------------------------------------------------
(* Keys.                                                                   *)

LEMMA KeysAre ==
    /\ TenantKey \in TokenKey /\ Whole \in AnyScope
    /\ \A t \in Tables : TableKey(t) \in TokenKey
    /\ \A t \in Tables, s \in AnyScope : ScopeKey(t, s) \in TokenKey
<1>1. \A t \in Tables : {TableKey(t)} \cup {ScopeKey(t, s) : s \in AnyScope} \subseteq TokenKey
  BY DEF TokenKey
<1>2. Whole \in AnyScope
  BY DEF AnyScope
<1>3. TenantKey \in TokenKey
  BY DEF TokenKey
<1> QED
  BY <1>1, <1>2, <1>3

\* Every result for an ask is filed under the tenant's token.
LEMMA TenantFiled == \A a \in Asks : TenantKey \in TokenKeys(a.deps) /\ TokenKeys(a.deps) \subseteq TokenKey
<1> TAKE a \in Asks
<1>1. a.table \in Tables /\ a.deps \subseteq {<<a.table, Whole>>}
  BY CacheAssumption DEF CacheAssumption
<1>2. \A d \in a.deps : TableKey(d[1]) \in TokenKey /\ ScopeKey(d[1], d[2]) \in TokenKey
  <2> TAKE d \in a.deps
  <2>1. d[1] = a.table /\ d[2] = Whole
    BY <1>1
  <2> QED
    BY <1>1, <2>1, KeysAre
<1> QED
  BY <1>2, KeysAre DEF TokenKeys

\* A write's keys reach every ask about its table.
LEMMA BumpReaches ==
    \A t \in Tables, s \in AnyScope :
        /\ BumpKeys(t, s) \subseteq TokenKey
        /\ \A a \in Asks : a.table = t /\ a.deps # {} => BumpKeys(t, s) \cap TokenKeys(a.deps) # {}
<1> TAKE t \in Tables, s \in AnyScope
<1>1. BumpKeys(t, s) \subseteq TokenKey
  BY KeysAre DEF BumpKeys
<1>2. ASSUME NEW a \in Asks, a.table = t, a.deps # {}
      PROVE  BumpKeys(t, s) \cap TokenKeys(a.deps) # {}
  <2>1. a.deps = {<<t, Whole>>}
    BY <1>2, CacheAssumption DEF CacheAssumption
  <2>2. <<t, Whole>> \in a.deps /\ <<t, Whole>>[1] = t /\ <<t, Whole>>[2] = Whole
    BY <2>1
  <2>3. PICK d \in a.deps : d[1] = t /\ d[2] = Whole
    BY <2>2
  <2>4. {TableKey(d[1]), ScopeKey(d[1], d[2])} \subseteq TokenKeys(a.deps)
    BY Zenon DEF TokenKeys
  <2>5. TableKey(t) \in TokenKeys(a.deps) /\ ScopeKey(t, Whole) \in TokenKeys(a.deps)
    BY <2>3, <2>4
  <2> QED
    BY <2>5 DEF BumpKeys
<1> QED
  BY <1>1, <1>2

LEMMA NumbersAre == None \notin Tables /\ MaxChanges \in Nat /\ IsFiniteSet(Reqs)
  BY CacheAssumption DEF CacheAssumption

\* A new token is one that nobody who could compare it has.
LEMMA NonceNew ==
    ASSUME NEW k, IsFiniteSet(Named(k))
    PROVE  Nonce(k) \in Nat \ {0} /\ Nonce(k) \notin Named(k)
<1> DEFINE N == Cardinality(Named(k))
<1>1. N \in Nat
  BY FS_CardinalityType
<1>2. \E n \in 1..N + 1 : n \notin Named(k)
  <2> SUFFICES ASSUME 1..N + 1 \subseteq Named(k) PROVE FALSE
    OBVIOUS
  <2>1. Cardinality(1..N + 1) <= N
    BY FS_Subset
  <2>2. Cardinality(1..N + 1) = N + 1
    <3> HIDE DEF N
    <3>1. 1 \in Int /\ N + 1 \in Int /\ ~(1 > N + 1) /\ (N + 1) - 1 + 1 = N + 1
      BY <1>1
    <3>2. Cardinality(1..N + 1) = IF 1 > N + 1 THEN 0 ELSE (N + 1) - 1 + 1
      BY <3>1, FS_Interval
    <3> QED
      BY <3>1, <3>2
  <2> QED
    BY <1>1, <2>1, <2>2
<1>3. Nonce(k) \in 1..N + 1 /\ Nonce(k) \notin Named(k)
  BY <1>2 DEF Nonce
<1> QED
  BY <1>1, <1>3

\* The image of a finite set is finite.
LEMMA ImageFinite ==
    ASSUME NEW S, IsFiniteSet(S), NEW f, DOMAIN f = S
    PROVE  IsFiniteSet({f[x] : x \in S})
<1> DEFINE T == {f[x] : x \in S}
          g == [x \in S |-> f[x]]
<1>1. g \in Surjection(S, T)
  BY DEF Surjection
<1> QED
  BY <1>1, FS_Surjection

LEMMA NamedFinite ==
    ASSUME IsFiniteSet(DOMAIN value), NEW k
    PROVE  IsFiniteSet(Named(k))
<1> DEFINE V == {y \in DOMAIN value : k \in DOMAIN value[y].tokens}
          R == {q \in Reqs : k \in DOMAIN req[q].snap}
          v == [x \in V |-> value[x].tokens[k]]
          s == [x \in R |-> req[x].snap[k]]
<1>1. IsFiniteSet(V) /\ IsFiniteSet(R)
  BY FS_Subset, CacheAssumption DEF CacheAssumption
<1>2. IsFiniteSet({v[x] : x \in V})
  BY <1>1, ImageFinite
<1>3. IsFiniteSet({s[x] : x \in R})
  BY <1>1, ImageFinite
<1>4. {v[x] : x \in V} = {value[x].tokens[k] : x \in V}
  OBVIOUS
<1>5. {s[x] : x \in R} = {req[x].snap[k] : x \in R}
  OBVIOUS
<1>6. IsFiniteSet({token[k]})
  BY FS_Singleton
<1>7. IsFiniteSet({token[k]} \cup {value[x].tokens[k] : x \in V})
  BY <1>2, <1>4, <1>6, FS_Union
<1>8. IsFiniteSet(({token[k]} \cup {value[x].tokens[k] : x \in V}) \cup {req[x].snap[k] : x \in R})
  BY <1>3, <1>5, <1>7, FS_Union
<1> QED
  BY <1>8 DEF Named

-----------------------------------------------------------------------------
(* A client.                                                               *)

\* The client owes and drains what it did.
Same(c, d) == ClientType(d) /\ d.owed = c.owed /\ d.landed = c.landed /\ d.since = c.since

\* What a call's outcome does to the breaker leaves the owed bumps alone.
LEMMA RecordedSame ==
    ASSUME NEW c, ClientType(c), NEW ok, NEW d \in Recorded(c, ok)
    PROVE  Same(c, d)
<1>1. Same(c, Opened(c))
  BY DEF Opened, Same, ClientType
<1>2. Same(c, Answered(c))
  BY DEF Answered, Same, ClientType
<1>3. Same(c, Missed(c))
  BY <1>1 DEF Missed, Same, ClientType
<1> QED
  BY <1>1, <1>2, <1>3 DEF Recorded, Same

\* What is added is due, unless it collapses; the tenant's token is then, and
\* every ask is filed under it.
LEMMA OwingType == \A c, keys : ClientType(c) => ClientType(Owing(c, keys))
  BY DEF Owing, ClientType

LEMMA OwingDue ==
    ASSUME NEW c, ClientType(c), NEW keys, NEW K, TenantKey \in K,
           keys \cap K # {} \/ Done(c) \cap K # {}
    PROVE  Done(Owing(c, keys)) \cap K # {}
<1>1. CASE keys = {}
  BY <1>1 DEF Owing
<1>2. CASE keys # {}
  <2> DEFINE collapse == Cardinality(c.owed \cup keys) > PendingMax
            added == IF collapse THEN {TenantKey} ELSE keys
            d == Owing(c, keys)
  <2>1. /\ d.owed = IF collapse THEN added ELSE c.owed \cup added
        /\ d.since = IF c.landed = {} THEN {} ELSE c.since \cup added
        /\ d.landed = c.landed
    BY <1>2 DEF Owing, ClientType
  <2>2. \A x \in added : x \in Done(d)
    <3> HIDE DEF collapse, d
    <3> QED
      BY <2>1 DEF Done
  <2>3. CASE collapse
    BY <2>2, <2>3
  <2>4. CASE ~collapse
    <3>1. \A x \in Done(c) : x \in Done(d)
      <4> HIDE DEF collapse, d
      <4> QED
        BY <2>1, <2>4 DEF Done
    <3>2. \A x \in keys : x \in Done(d)
      BY <2>2, <2>4
    <3> HIDE DEF d
    <3>3. Done(d) \cap K # {}
      BY <3>1, <3>2
    <3> QED
      BY <3>3 DEF d
  <2> QED
    BY <2>3, <2>4
<1> QED
  BY <1>1, <1>2

-----------------------------------------------------------------------------
(* What a result must reflect.                                             *)

FloorOf(s, h, a) ==
    LET moved == Max2(s.move, h.move)
        insert == Max2(s.t[a.table], h.t[a.table])
    IN IF a.deps # {} THEN Max2(moved, insert) ELSE moved

\* An ask depends on its table or on nothing.
LEMMA WholeTable == \A a \in Asks : a.deps # {} <=> \E d \in a.deps : d[1] = a.table
<1> TAKE a \in Asks
<1>1. a.deps = {} \/ a.deps = {<<a.table, Whole>>}
  BY CacheAssumption DEF CacheAssumption
<1>2. <<a.table, Whole>>[1] = a.table
  OBVIOUS
<1> QED
  BY <1>1, <1>2

LEMMA FloorIs == \A p \in Procs, a \in Asks : Floor(p, a) = FloorOf(sure, told[p], a)
  BY WholeTable DEF Floor, FloorOf

LEMMA FloorMeans ==
    ASSUME NEW s \in History, NEW h \in History, NEW a \in Asks
    PROVE  /\ FloorOf(s, h, a) \in Nat
           /\ \A n \in Int : FloorOf(s, h, a) <= n <=>
                 /\ s.move <= n /\ h.move <= n
                 /\ a.deps # {} => s.t[a.table] <= n /\ h.t[a.table] <= n
<1>1. /\ s.move \in Nat /\ h.move \in Nat
      /\ s.t[a.table] \in Nat /\ h.t[a.table] \in Nat
  BY CacheAssumption DEF CacheAssumption, History
<1> QED
  BY <1>1 DEF FloorOf, Max2

\* The tenant's address holds all a result must reflect.
LEMMA FloorBelow ==
    TypeInv /\ HouseInv => \A p \in Procs, a \in Asks :
        Floor(p, a) \in Nat /\ db[addr][a.table] \in Nat /\ Floor(p, a) <= db[addr][a.table]
<1> SUFFICES ASSUME TypeInv, HouseInv, NEW p \in Procs, NEW a \in Asks
             PROVE  Floor(p, a) \in Nat /\ db[addr][a.table] \in Nat /\ Floor(p, a) <= db[addr][a.table]
  OBVIOUS
<1>1. a.table \in Tables
  BY CacheAssumption DEF CacheAssumption
<1>4. addr \in 0..MaxChanges /\ db[addr][a.table] \in Nat
  <2>1. /\ addr \in Nat /\ stamp \in Nat /\ addr <= stamp /\ stamp <= MaxChanges
        /\ db \in [0..MaxChanges -> [Tables -> Nat]]
    BY DEF TypeInv
  <2>2. addr \in 0..MaxChanges
    BY <2>1, NumbersAre
  <2> QED
    BY <1>1, <2>1, <2>2
<1>2. Reflects(db[addr][a.table], sure, a.table) /\ Reflects(db[addr][a.table], told[p], a.table)
  BY <1>1 DEF HouseInv
<1>3. sure \in History /\ told[p] \in History
  BY DEF TypeInv
<1> QED
  BY <1>2, <1>3, <1>4, FloorMeans, FloorIs DEF Reflects

-----------------------------------------------------------------------------
(* What the steps of a request do, once and for all.                       *)

ClientsKept == DOMAIN proc' = Procs /\ \A p \in Procs : Same(proc[p], proc'[p])

LEMMA ClientSet ==
    ASSUME TypeInv, NEW p \in Procs, NEW c, Same(proc[p], c), Client_(p, c)
    PROVE  ClientsKept
<1>1. \A x \in Procs : Same(proc[x], proc[x])
  BY DEF TypeInv, Same
<1> QED
  BY <1>1 DEF TypeInv, Client_, ClientsKept

LEMMA ClientsStay == TypeInv /\ UNCHANGED proc => ClientsKept
  BY DEF TypeInv, ClientsKept, Same

LEMMA CalledKept ==
    ASSUME TypeInv, NEW p \in Procs, NEW ok, Called(p, ok)
    PROVE  ClientsKept
<1>1. PICK c \in Recorded(proc[p], ok) : Client_(p, c)
  BY DEF Called
<1>2. ClientType(proc[p])
  BY DEF TypeInv
<1>3. Same(proc[p], c)
  BY <1>1, <1>2, RecordedSame
<1> QED
  BY <1>1, <1>3, ClientSet

\* The other requests stay as they are, or their flight has ended.
OthersStay(r) ==
    DOMAIN req' = Reqs /\ \A s \in Reqs \ {r} : req'[s] = req[s] \/ req'[s] = Gone

LEMMA SetReq ==
    ASSUME TypeInv, NEW r \in Reqs, NEW q, Set(r, q)
    PROVE  OthersStay(r) /\ req'[r] = q /\ \A s \in Reqs \ {r} : req'[s] = req[s]
  BY DEF TypeInv, Set, OthersStay

LEMMA EndsReq ==
    ASSUME TypeInv, NEW r \in Reqs, Ends(r)
    PROVE  OthersStay(r) /\ req'[r] = Gone
  BY DEF TypeInv, Ends, OthersStay

LEMMA GoneIs ==
    /\ ReqType(Gone) /\ Gone.pc = "done" /\ Gone.stale = FALSE /\ Gone.snap = NoSnap
    /\ ReqType(Idle) /\ Idle.pc = "free" /\ Idle.stale = FALSE
  BY NumbersAre DEF Gone, Idle, ReqType, Going, Waiting, NoResult

\* A request keeps who it is for.
Keeps(q, d) ==
    /\ DOMAIN d = DOMAIN q /\ d.at = q.at /\ d.ask = q.ask /\ d.stale = q.stale

\* What a request is once it has asked.
Asked(d, p, a) ==
    /\ ReqType(d) /\ d.pc = "looking" /\ d.at = p /\ d.ask = a /\ d.since = Floor(p, a)
    /\ d.entry = NoResult /\ d.stale = FALSE

LEMMA AskShape ==
    ASSUME TypeInv, HouseInv, NEW r \in Reqs, NEW p \in Procs, NEW a \in Asks, Ask(r, p, a)
    PROVE  /\ Asked(req'[r], p, a)
           /\ OthersStay(r) /\ UNCHANGED <<scene, local, redis, proc, inv, house, past>>
<1> DEFINE n == Floor(p, a)
          d == [Idle EXCEPT !.pc = "looking", !.at = p, !.ask = a, !.since = n]
<1>1. req'[r] = d /\ OthersStay(r)
  BY SetReq DEF Ask
<1>2. n \in Int
  BY FloorBelow
<1>3. UNCHANGED <<scene, local, redis, proc, inv, house, past>>
  BY DEF Ask
<1>4. Asked(d, p, a)
  <2> HIDE DEF n
  <2>1. ReqType(Idle) /\ Idle.entry = NoResult /\ Idle.stale = FALSE
    BY GoneIs DEF Idle
  <2>2. /\ ReqType(d) /\ d.pc = "looking" /\ d.at = p /\ d.ask = a /\ d.since = n
        /\ d.entry = NoResult /\ d.stale = FALSE
    BY <1>2, <2>1 DEF ReqType, Going
  <2> QED
    BY <2>2 DEF Asked, n
<1> QED
  BY <1>1, <1>3, <1>4

\* A lookup that found nothing to file under.
Missing(q, d) ==
    /\ q.pc \in {"looking", "reading"} /\ Keeps(q, d)
    /\ d.pc = "conn" /\ d.snap = NoSnap /\ d.since = 0
    /\ d.entry = q.entry /\ d.conn = q.conn /\ d.data = q.data

LEMMA MissIs ==
    ASSUME NEW q, ReqType(q), q.pc \in {"looking", "reading"}
    PROVE  Missing(q, Miss(q))
  BY DEF ReqType, Missing, Miss, Keeps

\* A lookup with the versions it is filed under.
Looked(q, d) ==
    /\ Keeps(q, d)
    /\ d.conn = q.conn /\ d.data = q.data /\ d.since = q.since

LEMMA BypassShape ==
    ASSUME TypeInv, NEW r \in Reqs, LookupBypassed(r)
    PROVE  /\ backend = "redis" /\ req[r].pc = "looking" /\ Missing(req[r], req'[r])
           /\ OthersStay(r) /\ UNCHANGED <<scene, local, redis, proc, inv, house, past>>
<1>1. ReqType(req[r])
  BY DEF TypeInv
<1>2. req[r].pc = "looking" /\ backend = "redis" /\ Set(r, Miss(req[r]))
      /\ UNCHANGED <<scene, local, redis, proc, inv, house, past>>
  BY DEF LookupBypassed
<1> QED
  BY <1>1, <1>2, MissIs, SetReq

LEMMA FailedShape ==
    ASSUME TypeInv, NEW r \in Reqs, LookupFailed(r)
    PROVE  /\ backend = "redis" /\ req[r].pc \in {"looking", "reading"} /\ Missing(req[r], req'[r])
           /\ ClientsKept /\ OthersStay(r) /\ UNCHANGED <<scene, local, redis, inv, house, past>>
<1>1. ReqType(req[r])
  BY DEF TypeInv
<1>2. req[r].pc \in {"looking", "reading"} /\ backend = "redis" /\ Set(r, Miss(req[r]))
      /\ Called(req[r].at, FALSE) /\ UNCHANGED <<scene, local, redis, inv, house, past>>
  BY DEF LookupFailed
<1>3. req[r].at \in Procs
  BY <1>1, <1>2 DEF ReqType, Going
<1> QED
  BY <1>1, <1>2, <1>3, MissIs, SetReq, CalledKept

LEMMA TokensShape ==
    ASSUME TypeInv, NEW r \in Reqs, LookupTokens(r)
    PROVE  LET q == req[r]
               d == req'[r]
               keys == TokenKeys(q.ask.deps)
           IN  /\ backend = "redis" /\ q.pc = "looking" /\ proc[q.at].owed \cap keys = {}
               /\ token' = [k \in TokenKey |-> IF k \in keys /\ token[k] = 0 THEN Nonce(k) ELSE token[k]]
               /\ Looked(q, d) /\ d.entry = q.entry /\ d.snap = [k \in keys |-> token'[k]]
               /\ d.pc = "conn" \/ (d.pc = "reading" /\ \A k \in keys : token[k] # 0)
               /\ ClientsKept /\ OthersStay(r) /\ \A s \in Reqs \ {r} : req'[s] = req[s]
               /\ UNCHANGED <<scene, local, value, inv, house, past>>
<1> DEFINE q == req[r]
          keys == TokenKeys(q.ask.deps)
          missing == {k \in keys : token[k] = 0}
          all == [k \in TokenKey |-> IF k \in missing THEN Nonce(k) ELSE token[k]]
          new == [q EXCEPT !.pc = IF missing = {} THEN "reading" ELSE "conn", !.snap = [k \in keys |-> all[k]]]
<1>1. ReqType(q)
  BY DEF TypeInv
<1>2. /\ backend = "redis" /\ q.pc = "looking" /\ ~OwesAny(proc[q.at], keys)
      /\ token' = all /\ Set(r, new) /\ Client_(q.at, Answered(proc[q.at]))
      /\ UNCHANGED <<scene, local, value, inv, house, past>>
  BY DEF LookupTokens
<1>3. ReqType(q) /\ q.at \in Procs /\ q.ask \in Asks
  BY <1>2 DEF TypeInv, ReqType, Going
<1>4. ClientType(proc[q.at])
  BY <1>3 DEF TypeInv
<1>5. Same(proc[q.at], Answered(proc[q.at]))
  BY <1>4 DEF Answered, Same, ClientType
<1>6. ClientsKept
  BY <1>2, <1>3, <1>5, ClientSet
<1>7. all = [k \in TokenKey |-> IF k \in keys /\ token[k] = 0 THEN Nonce(k) ELSE token[k]]
  OBVIOUS
<1>8. req'[r] = new /\ OthersStay(r) /\ \A s \in Reqs \ {r} : req'[s] = req[s]
  BY <1>2, SetReq
<1>9. /\ Looked(q, new) /\ new.entry = q.entry /\ new.snap = [k \in keys |-> all[k]]
      /\ new.pc = IF missing = {} THEN "reading" ELSE "conn"
  <2> HIDE DEF missing, all, keys
  <2> QED
    BY <1>3 DEF ReqType, Looked, Keeps
<1>10. proc[q.at].owed \cap keys = {}
  BY <1>2 DEF OwesAny
<1>11. new.snap = [k \in keys |-> token'[k]]
  BY <1>2, <1>9
<1>12. new.pc = "conn" \/ (new.pc = "reading" /\ \A k \in keys : token[k] # 0)
  BY <1>9
<1> HIDE DEF new, all
<1>13. Looked(q, req'[r]) /\ req'[r].entry = q.entry
  BY <1>8, <1>9
<1>14. req'[r].snap = [k \in keys |-> token'[k]]
  BY <1>8, <1>11
<1>15. req'[r].pc = "conn" \/ (req'[r].pc = "reading" /\ \A k \in keys : token[k] # 0)
  BY <1>8, <1>12
<1>16. token' = [k \in TokenKey |-> IF k \in keys /\ token[k] = 0 THEN Nonce(k) ELSE token[k]]
  BY <1>2, <1>7
<1> QED
  BY <1>2, <1>6, <1>8, <1>10, <1>13, <1>14, <1>15, <1>16

LEMMA ValueShape ==
    ASSUME TypeInv, NEW r \in Reqs, LookupValue(r)
    PROVE  LET q == req[r]
               d == req'[r]
           IN  /\ q.pc = "reading" /\ Looked(q, d) /\ d.pc = "conn" /\ d.snap = q.snap
               /\ d.entry = IF Hit(q) THEN value[q.ask].result ELSE NoResult
               /\ OthersStay(r) /\ UNCHANGED <<scene, local, redis, proc, inv, house, past>>
<1> DEFINE q == req[r]
          e == IF Hit(q) THEN value[q.ask].result ELSE NoResult
<1>1. ReqType(q)
  BY DEF TypeInv
<1>2. /\ q.pc = "reading" /\ Set(r, [q EXCEPT !.pc = "conn", !.entry = e])
      /\ UNCHANGED <<scene, local, redis, proc, inv, house, past>>
  BY DEF LookupValue
<1>3. req'[r] = [q EXCEPT !.pc = "conn", !.entry = e] /\ OthersStay(r)
  BY <1>2, SetReq
<1> HIDE DEF e
<1>4. Looked(q, req'[r]) /\ req'[r].pc = "conn" /\ req'[r].snap = q.snap /\ req'[r].entry = e
  BY <1>1, <1>3 DEF ReqType, Looked, Keeps
<1> QED
  BY <1>2, <1>3, <1>4 DEF e

LEMMA LocalShape ==
    ASSUME TypeInv, NEW r \in Reqs, LookupLocal(r)
    PROVE  LET q == req[r]
               d == req'[r]
               key == QueryKey(index', q.ask)
           IN  /\ backend = "local" /\ q.pc = "looking" /\ Looked(q, d) /\ d.pc = "conn" /\ d.snap = key
               /\ d.entry = IF key \in DOMAIN kept THEN kept[key] ELSE NoResult
               /\ index' = (IF index.gen = 0 THEN [index EXCEPT !.gen = lastGen + 1] ELSE index)
               /\ lastGen' = Max2(lastGen, index'.gen)
               /\ OthersStay(r) /\ \A s \in Reqs \ {r} : req'[s] = req[s]
               /\ UNCHANGED <<scene, kept, redis, proc, inv, house, past>>
<1> DEFINE q == req[r]
          ix == IF index.gen = 0 THEN [index EXCEPT !.gen = lastGen + 1] ELSE index
          key == QueryKey(ix, q.ask)
          e == IF key \in DOMAIN kept THEN kept[key] ELSE NoResult
<1>1. ReqType(q)
  BY DEF TypeInv
<1>2. /\ backend = "local" /\ q.pc = "looking" /\ Set(r, [q EXCEPT !.pc = "conn", !.snap = key, !.entry = e])
      /\ index' = ix /\ lastGen' = Max2(lastGen, ix.gen)
      /\ UNCHANGED <<scene, kept, redis, proc, inv, house, past>>
  BY DEF LookupLocal
<1>3. /\ req'[r] = [q EXCEPT !.pc = "conn", !.snap = key, !.entry = e]
      /\ OthersStay(r) /\ \A s \in Reqs \ {r} : req'[s] = req[s]
  BY <1>2, SetReq
<1>4. Looked(q, req'[r]) /\ req'[r].pc = "conn" /\ req'[r].snap = key /\ req'[r].entry = e
  <2> HIDE DEF e, key
  <2> QED
    BY <1>1, <1>3 DEF ReqType, Looked, Keeps
<1>5. index' = ix
  BY <1>2
<1> HIDE DEF ix
<1>6. key = QueryKey(index', q.ask) /\ lastGen' = Max2(lastGen, index'.gen)
  BY <1>2, <1>5
<1>7. index' = (IF index.gen = 0 THEN [index EXCEPT !.gen = lastGen + 1] ELSE index)
  BY <1>5 DEF ix
<1> HIDE DEF key
<1> QED
  BY <1>2, <1>3, <1>4, <1>6, <1>7

LEMMA PoolShape ==
    ASSUME TypeInv, NEW r \in Reqs, NoPool(r)
    PROVE  /\ req[r].pc = "conn" /\ req'[r] = Gone
           /\ OthersStay(r) /\ UNCHANGED <<scene, local, redis, proc, inv, house, past>>
  BY SetReq DEF NoPool

\* What becomes of one the request runs, or waits for.
Leading(q, d) ==
    Keeps(q, d) /\ d.pc = "leading" /\ d.snap = q.snap /\ d.conn = addr /\ d.entry = q.entry
    /\ d.data = q.data /\ d.since = 0

Following(q, d) ==
    Keeps(q, d) /\ d.pc = "following" /\ d.snap = NoSnap /\ d.conn = 0 /\ d.entry = q.entry
    /\ d.data = q.data /\ d.since = 0

LEMMA TakeShape ==
    ASSUME TypeInv, NEW r \in Reqs, TakeConn(r)
    PROVE  LET q == req[r]
               d == req'[r]
           IN  /\ q.pc = "conn"
               /\ \/ q.entry # NoResult /\ d = AnswerHit(q)
                  \/ Leading(q, d)
                  \/ Following(q, d)
               /\ OthersStay(r) /\ UNCHANGED <<scene, local, redis, proc, inv, house, past>>
<1> DEFINE q == req[r]
          lead == {s \in Reqs : /\ req[s].pc \in {"leading", "filling"}
                                /\ req[s].at = q.at /\ req[s].ask = q.ask}
          new == [q EXCEPT !.pc = IF lead = {} THEN "leading" ELSE "following",
                           !.conn = IF lead = {} THEN addr ELSE 0,
                           !.snap = IF lead = {} THEN @ ELSE NoSnap, !.since = 0]
          d == IF q.entry # NoResult THEN AnswerHit(q) ELSE new
<1>1. ReqType(q)
  BY DEF TypeInv
<1>2. q.pc = "conn" /\ Set(r, d) /\ UNCHANGED <<scene, local, redis, proc, inv, house, past>>
  BY DEF TakeConn
<1>3. req'[r] = d /\ OthersStay(r)
  BY <1>2, SetReq
<1>4. CASE q.entry # NoResult
  BY <1>2, <1>3, <1>4
<1>5. CASE q.entry = NoResult /\ lead = {}
  <2>1. new = [q EXCEPT !.pc = "leading", !.conn = addr, !.snap = q.snap, !.since = 0]
    BY <1>5
  <2>2. Leading(q, new)
    <3> HIDE DEF new
    <3> QED
      BY <1>1, <2>1 DEF ReqType, Leading, Keeps
  <2> QED
    BY <1>2, <1>3, <1>5, <2>2
<1>6. CASE q.entry = NoResult /\ lead # {}
  <2>1. new = [q EXCEPT !.pc = "following", !.conn = 0, !.snap = NoSnap, !.since = 0]
    BY <1>6
  <2>2. Following(q, new)
    <3> HIDE DEF new
    <3> QED
      BY <1>1, <2>1 DEF ReqType, Following, Keeps
  <2> QED
    BY <1>2, <1>3, <1>6, <2>2
<1> QED
  BY <1>4, <1>5, <1>6

LEMMA RunShape ==
    ASSUME TypeInv, NEW r \in Reqs, RunQuery(r)
    PROVE  LET q == req[r]
               d == req'[r]
           IN  /\ q.pc = "leading" /\ Keeps(q, d) /\ d.pc = "filling" /\ d.snap = q.snap
               /\ d.data = db[q.conn][q.ask.table] /\ d.conn = 0 /\ d.entry = q.entry /\ d.since = q.since
               /\ OthersStay(r) /\ UNCHANGED <<scene, local, redis, proc, inv, house, past>>
<1> DEFINE q == req[r]
          n == db[q.conn][q.ask.table]
<1>1. ReqType(q)
  BY DEF TypeInv
<1>2. /\ q.pc = "leading" /\ Set(r, [q EXCEPT !.pc = "filling", !.data = n, !.conn = 0])
      /\ UNCHANGED <<scene, local, redis, proc, inv, house, past>>
  BY DEF RunQuery
<1>3. req'[r] = [q EXCEPT !.pc = "filling", !.data = n, !.conn = 0] /\ OthersStay(r)
  BY <1>2, SetReq
<1> HIDE DEF n
<1>4. /\ Keeps(q, req'[r]) /\ req'[r].pc = "filling" /\ req'[r].snap = q.snap
      /\ req'[r].data = n /\ req'[r].conn = 0 /\ req'[r].entry = q.entry /\ req'[r].since = q.since
  BY <1>1, <1>3 DEF ReqType, Keeps
<1> QED
  BY <1>2, <1>3, <1>4 DEF n

LEMMA FailsShape ==
    ASSUME TypeInv, NEW r \in Reqs, QueryFails(r)
    PROVE  /\ req'[r] = Gone
           /\ OthersStay(r) /\ UNCHANGED <<scene, local, redis, proc, inv, house, past>>
  BY EndsReq DEF QueryFails

LEMMA FillShape ==
    ASSUME TypeInv, NEW r \in Reqs, Fill(r)
    PROVE  LET q == req[r]
           IN  /\ q.pc = "filling" /\ req'[r] = Gone
               /\ \/ /\ backend = "local" /\ UNCHANGED redis
                     /\ kept' = With(kept, q.snap, q.data)
                  \/ backend = "redis" /\ UNCHANGED <<kept, redis>>
                  \/ /\ backend = "redis" /\ q.snap # NoSnap /\ UNCHANGED <<kept, token>>
                     /\ value' = With(value, q.ask, [tokens |-> q.snap, result |-> q.data])
               /\ ClientsKept /\ OthersStay(r) /\ UNCHANGED <<scene, index, lastGen, inv, house, past>>
<1> DEFINE q == req[r]
<1>1. /\ q.pc = "filling" /\ Ends(r) /\ UNCHANGED <<scene, index, lastGen, inv, house, past>>
      /\ \/ /\ backend = "local"
            /\ kept' = With(kept, q.snap, q.data)
            /\ UNCHANGED <<redis, proc>>
         \/ backend = "redis" /\ UNCHANGED <<kept, redis, proc>>
         \/ /\ backend = "redis" /\ q.snap # NoSnap
            /\ Called(q.at, server = "up")
            /\ value' = IF server = "up" THEN With(value, q.ask, [tokens |-> q.snap, result |-> q.data]) ELSE value
            /\ UNCHANGED <<kept, server, token, faults>>
  BY DEF Fill, Snap
<1>2. req'[r] = Gone /\ OthersStay(r)
  BY <1>1, EndsReq
<1>3. q.at \in Procs
  BY <1>1 DEF TypeInv, ReqType, Going, Waiting
<1>4. Called(q.at, server = "up") => ClientsKept
  BY <1>3, CalledKept
<1> QED
  BY <1>1, <1>2, <1>4, ClientsStay DEF redis

-----------------------------------------------------------------------------
(* Types.                                                                  *)

LEMMA BackendIs == TypeInv => backend \in {"local", "redis"}
<1>1. \A s \in DOMAIN Scenes :
         Scenes[s] \in [backend : {"local", "redis"}, inserts : SUBSET ({Whole} \cup Scopes), moves : Nat,
                        faults : [FaultKind -> Nat]]
  BY CacheAssumption DEF CacheAssumption
<1> QED
  BY <1>1 DEF TypeInv, backend, Scene

\* What a result on its way, and what the houses hold, are numbers.
LEMMA HoldsNat ==
    TypeInv => /\ addr \in 0..MaxChanges
               /\ \A x \in 0..MaxChanges, a \in Asks : db[x][a.table] \in Nat /\ db[x][a.table] <= stamp
<1> SUFFICES ASSUME TypeInv
             PROVE  /\ addr \in 0..MaxChanges
                    /\ \A x \in 0..MaxChanges, a \in Asks : db[x][a.table] \in Nat /\ db[x][a.table] <= stamp
  OBVIOUS
<1>1. \A a \in Asks : a.table \in Tables
  BY CacheAssumption DEF CacheAssumption
<1>2. /\ addr \in Nat /\ stamp \in Nat /\ addr <= stamp /\ stamp <= MaxChanges
      /\ db \in [0..MaxChanges -> [Tables -> Nat]]
      /\ \A x \in 0..MaxChanges, t \in Tables : db[x][t] <= stamp
  BY DEF TypeInv
<1>3. addr \in 0..MaxChanges
  BY <1>2, NumbersAre
<1> QED
  BY <1>1, <1>2, <1>3

LEMMA PendingNat == TypeInv => \A r \in Reqs : req[r].pc \in Waiting => Pending(req[r]) \in Int
<1> SUFFICES ASSUME TypeInv, NEW r \in Reqs, req[r].pc \in Waiting PROVE Pending(req[r]) \in Int
  OBVIOUS
<1>1. req[r].ask \in Asks /\ req[r].conn \in 0..MaxChanges /\ req[r].data \in Int
  BY DEF TypeInv, ReqType, Going
<1> QED
  BY <1>1, HoldsNat DEF Pending

LEMMA TypeRequest ==
    ASSUME CacheInv, NEW r \in Reqs,
           Step(r) \/ \E p \in Procs, a \in Asks : Ask(r, p, a)
    PROVE  TypeInv' /\ ClientsKept /\ OthersStay(r) /\ UNCHANGED <<scene, inv, house, past>>
<1> DEFINE q == req[r]
          d == req'[r]
          Frame == ClientsKept /\ OthersStay(r) /\ UNCHANGED <<scene, inv, house, past>>
<1> USE DEF CacheInv
<1>0. ASSUME ReqType(d), Frame PROVE TypeInv'
  <2>1. DOMAIN req' = Reqs /\ \A s \in Reqs : ReqType(req'[s])
    BY <1>0, GoneIs DEF OthersStay, TypeInv
  <2>2. DOMAIN proc' = Procs /\ \A p \in Procs : ClientType(proc'[p])
    BY <1>0 DEF ClientsKept, Same
  <2> QED
    BY <1>0, <2>1, <2>2 DEF TypeInv, house, past
<1> SUFFICES ReqType(d) /\ Frame
  BY <1>0
<1>1. ReqType(q)
  BY DEF TypeInv
<1>2. ASSUME NEW p \in Procs, NEW a \in Asks, Ask(r, p, a) PROVE ReqType(d) /\ Frame
  <2>1. Asked(d, p, a)
    BY <1>2, AskShape
  <2>2. OthersStay(r) /\ UNCHANGED <<scene, proc, inv, house, past>>
    BY <1>2, AskShape
  <2> QED
    BY <2>1, <2>2, ClientsStay DEF Asked
<1>3. ASSUME NEW x, Missing(q, x) PROVE ReqType(x)
  BY <1>1, <1>3 DEF Missing, Keeps, ReqType, Going, Waiting
<1>4. CASE LookupBypassed(r)
  BY <1>3, <1>4, BypassShape, ClientsStay
<1>5. CASE LookupFailed(r)
  BY <1>3, <1>5, FailedShape
<1>6. CASE LookupTokens(r)
  <2>1. q.pc = "looking" /\ Looked(q, d) /\ d.entry = q.entry /\ d.pc \in {"conn", "reading"} /\ Frame
    BY <1>6, TokensShape
  <2>2. ReqType(d)
    BY <1>1, <2>1 DEF Looked, Keeps, ReqType, Going, Waiting
  <2> QED
    BY <2>1, <2>2
<1>7. CASE LookupValue(r)
  <2>1. /\ q.pc = "reading" /\ Looked(q, d) /\ d.pc = "conn" /\ Frame
        /\ d.entry = IF Hit(q) THEN value[q.ask].result ELSE NoResult
    BY <1>7, ValueShape, ClientsStay
  <2>2. backend = "redis"
    BY <2>1, BackendIs DEF LocalInv
  <2>3. d.entry \in Int
    BY <2>1, <2>2 DEF RedisInv, FiledInv, Hit, NoResult
  <2>4. ReqType(d)
    BY <1>1, <2>1, <2>3 DEF Looked, Keeps, ReqType, Going, Waiting
  <2> QED
    BY <2>1, <2>4
<1>8. CASE LookupLocal(r)
  <2> DEFINE key == QueryKey(index', q.ask)
  <2>1. /\ backend = "local" /\ q.pc = "looking" /\ Looked(q, d) /\ d.pc = "conn" /\ Frame
        /\ d.entry = IF key \in DOMAIN kept THEN kept[key] ELSE NoResult
    BY <1>8, LocalShape, ClientsStay
  <2> HIDE DEF key
  <2>2. d.entry \in Int
    BY <2>1 DEF LocalInv, KeptShown, NoResult
  <2>3. ReqType(d)
    BY <1>1, <2>1, <2>2 DEF Looked, Keeps, ReqType, Going, Waiting
  <2> QED
    BY <2>1, <2>3
<1>9. CASE NoPool(r)
  BY <1>9, PoolShape, GoneIs, ClientsStay
<1>10. CASE TakeConn(r)
  <2>1. ReqType(AnswerHit(q))
    BY GoneIs DEF AnswerHit, ReqType
  <2>2. Frame /\ q.pc = "conn" /\ (d = AnswerHit(q) \/ Leading(q, d) \/ Following(q, d))
    BY <1>10, TakeShape, ClientsStay
  <2>3. Leading(q, d) \/ Following(q, d) => ReqType(d)
    BY <1>1, <2>2, HoldsNat, NumbersAre DEF Leading, Following, Keeps, ReqType, Going, Waiting
  <2> QED
    BY <2>1, <2>2, <2>3
<1>11. CASE RunQuery(r)
  <2>1. /\ q.pc = "leading" /\ Keeps(q, d) /\ d.pc = "filling" /\ Frame
        /\ d.data = db[q.conn][q.ask.table] /\ d.conn = 0 /\ d.entry = q.entry /\ d.since = q.since
    BY <1>11, RunShape, ClientsStay
  <2>2. q.ask \in Asks /\ q.conn \in 0..MaxChanges
    BY <1>1, <2>1 DEF ReqType, Going, Waiting
  <2>3. d.data \in Int
    BY <2>1, <2>2, HoldsNat
  <2>4. ReqType(d)
    BY <1>1, <2>1, <2>3, NumbersAre DEF Keeps, ReqType, Going, Waiting
  <2> QED
    BY <2>1, <2>4
<1>12. CASE QueryFails(r)
  BY <1>12, FailsShape, GoneIs, ClientsStay
<1>13. CASE Fill(r)
  BY <1>13, FillShape, GoneIs
<1> QED
  BY <1>2, <1>4, <1>5, <1>6, <1>7, <1>8, <1>9, <1>10, <1>11, <1>12, <1>13 DEF Step

-----------------------------------------------------------------------------
(* A request's step leaves the houses alone and answers no stale hit.      *)

LEMMA FloorStays == UNCHANGED past => \A p, a : Floor(p, a)' = Floor(p, a)
  BY DEF past, Floor

LEMMA HouseStays == HouseInv /\ UNCHANGED <<inv, house, past>> => HouseInv'
  BY DEF HouseInv, house, past

LEMMA DoneOwed == \A c : Done(c) \subseteq c.owed
  BY DEF Done

LEMMA KeyIs == \A ix, a : QueryKey(ix, a).query = a /\ QueryKey(ix, a).gen = ix.gen
  BY DEF QueryKey

\* A key of the index as it is found, or made, by a lookup: what is kept under
\* it shows all a result must.
LEMMA FoundShows ==
    ASSUME TypeInv, LocalInv, backend = "local", NEW r \in Reqs, LookupLocal(r),
           NEW a \in Asks, QueryKey(index', a) \in DOMAIN kept
    PROVE  Shows(kept[QueryKey(index', a)], a)
<1> DEFINE key == QueryKey(index', a)
<1>1. key.query = a /\ key.gen = index'.gen
  BY KeyIs
<1>2. Passed(key, a) /\ (key = QueryKey(index, a) => Shows(kept[key], a))
  <2> HIDE DEF key
  <2> QED
    BY <1>1 DEF LocalInv, KeptShown, key
<1>3. IndexType
  BY DEF LocalInv
<1>4. index.gen # 0
  <2> SUFFICES ASSUME index.gen = 0 PROVE FALSE
    OBVIOUS
  <2>1. index' = [index EXCEPT !.gen = lastGen + 1]
    BY LocalShape
  <2>2. index'.gen = lastGen + 1
    BY <2>1, <1>3 DEF IndexType
  <2> QED
    BY <1>1, <1>2, <1>3, <2>2 DEF Passed, IndexType
<1>5. index' = index
  BY <1>4, LocalShape
<1> QED
  BY <1>2, <1>5

LEMMA HitRequest ==
    ASSUME CacheInv, NEW r \in Reqs,
           Step(r) \/ \E p \in Procs, a \in Asks : Ask(r, p, a)
    PROVE  HitInv'
<1> DEFINE q == req[r]
          d == req'[r]
<1> USE DEF CacheInv

<1>1. OthersStay(r) /\ UNCHANGED past /\ TypeInv'
  BY TypeRequest
<1>2. \A x : Honest(x)' <=> Honest(x)
  BY <1>1, FloorStays DEF Honest
<1>3. Honest(Gone)
  BY GoneIs DEF Honest
<1> SUFFICES Honest(d)
  BY <1>1, <1>2, <1>3 DEF HitInv, OthersStay
<1>4. ReqType(q) /\ Honest(q)
  BY DEF TypeInv, HitInv
<1>5. ASSUME Missing(q, d) PROVE Honest(d)
  BY <1>4, <1>5 DEF Missing, Keeps, Honest
<1>6. ASSUME NEW p \in Procs, NEW a \in Asks, Ask(r, p, a) PROVE Honest(d)
  <2>1. Asked(d, p, a)
    BY <1>6, AskShape
  <2> QED
    BY <2>1, FloorBelow DEF Asked, Honest
<1>7. CASE LookupBypassed(r)
  BY <1>5, <1>7, BypassShape
<1>8. CASE LookupFailed(r)
  BY <1>5, <1>8, FailedShape
<1>9. CASE LookupTokens(r)
  <2>1. q.pc = "looking" /\ Looked(q, d) /\ d.entry = q.entry /\ d.pc \in {"conn", "reading"}
    BY <1>9, TokensShape
  <2> QED
    BY <1>4, <2>1 DEF Looked, Keeps, Honest
<1>10. CASE LookupValue(r)
  <2>1. /\ q.pc = "reading" /\ Looked(q, d) /\ d.pc = "conn"
        /\ d.entry = IF Hit(q) THEN value[q.ask].result ELSE NoResult
    BY <1>10, ValueShape
  <2>2. backend = "redis"
    BY <2>1, BackendIs DEF LocalInv
  <2>3. Hit(q) => q.since <= value[q.ask].result
    BY <2>1, <2>2 DEF RedisInv, ReadersSafe, Hit
  <2> QED
    BY <1>4, <2>1, <2>3 DEF Looked, Keeps, Honest
<1>11. CASE LookupLocal(r)
  <2> DEFINE key == QueryKey(index', q.ask)
  <2>1. /\ backend = "local" /\ q.pc = "looking" /\ Looked(q, d) /\ d.pc = "conn"
        /\ d.entry = IF key \in DOMAIN kept THEN kept[key] ELSE NoResult
    BY <1>11, LocalShape
  <2>2. q.at \in Procs /\ q.ask \in Asks
    BY <1>4, <2>1 DEF ReqType, Going
  <2>3. key \in DOMAIN kept => Shows(kept[key], q.ask)
    BY <1>11, <2>1, <2>2, FoundShows
  <2>4. key \in DOMAIN kept => Floor(q.at, q.ask) <= kept[key] /\ kept[key] \in Int
    <3> HIDE DEF key
    <3> QED
      BY <2>1, <2>2, <2>3 DEF Shows, LocalInv, KeptShown
  <2>5. Floor(q.at, q.ask) \in Int
    BY <2>2, FloorBelow
  <2>6. q.since \in Int /\ q.since <= Floor(q.at, q.ask)
    BY <1>4, <2>1 DEF ReqType, Honest
  <2> HIDE DEF key
  <2>7. d.entry # NoResult => q.since <= d.entry
    BY <2>1, <2>4, <2>5, <2>6
  <2> QED
    BY <1>4, <2>1, <2>7 DEF Looked, Keeps, Honest
<1>12. CASE NoPool(r)
  BY <1>3, <1>12, PoolShape
<1>13. CASE TakeConn(r)
  <2>1. q.pc = "conn" /\ ((q.entry # NoResult /\ d = AnswerHit(q)) \/ Leading(q, d) \/ Following(q, d))
    BY <1>13, TakeShape
  <2>2. CASE q.entry # NoResult /\ d = AnswerHit(q)
    <3>1. ~(q.entry < q.since)
      BY <1>4, <2>1, <2>2 DEF Honest, ReqType
    <3>3. AnswerHit(q) = [Gone EXCEPT !.stale = FALSE]
      <4>1. (q.entry < q.since) = FALSE
        BY <3>1
      <4> QED
        BY <4>1 DEF AnswerHit
    <3>2. d.pc = "done" /\ d.stale = FALSE
      BY <2>2, <3>3, GoneIs DEF ReqType
    <3> QED
      BY <3>2 DEF Honest
  <2>3. CASE Leading(q, d) \/ Following(q, d)
    BY <1>4, <2>3 DEF Leading, Following, Keeps, Honest
  <2> QED
    BY <2>1, <2>2, <2>3
<1>14. CASE RunQuery(r)
  <2>1. Keeps(q, d) /\ d.pc = "filling"
    BY <1>14, RunShape
  <2> QED
    BY <1>4, <2>1 DEF Keeps, Honest
<1>15. CASE QueryFails(r)
  BY <1>3, <1>15, FailsShape
<1>16. CASE Fill(r)
  BY <1>3, <1>16, FillShape
<1> QED
  BY <1>6, <1>7, <1>8, <1>9, <1>10, <1>11, <1>12, <1>13, <1>14, <1>15, <1>16 DEF Step

-----------------------------------------------------------------------------
(* The shared cache, step by step: what keeps a result fresh.              *)

\* A token stays, goes, or becomes one that nobody has.
TokensMove ==
    /\ token' \in [TokenKey -> Nat]
    /\ \A k \in TokenKey : token'[k] = token[k] \/ token'[k] = 0 \/ token'[k] \notin Named(k)

AllStay(a) == \A k \in TokenKeys(a.deps) : token'[k] = token[k]

\* A result under tokens that all stay is as fresh after the step.
FreshStays == \A a \in Asks : AllStay(a) => \A n \in Int : Fresh(n, a) => Fresh(n, a)'

\* A request brings to its next state what it was to file, or something newer.
Carries(s) ==
    req'[s].pc \in Waiting =>
        \/ req'[s].pc # "reading" /\ req'[s].snap = NoSnap
        \/ /\ req[s].pc \in Waiting /\ req'[s].ask = req[s].ask /\ req'[s].snap = req[s].snap
           /\ Pending(req[s])' \in Int /\ Pending(req[s]) <= Pending(req[s])'
           /\ req'[s].pc = "reading" => req'[s] = req[s]

LEMMA StillCurrent ==
    ASSUME TokensMove, NEW a \in Asks, NEW tokens, Filed(tokens, a),
           \A k \in TokenKeys(a.deps) : tokens[k] \in Named(k),
           \A k \in TokenKeys(a.deps) : tokens[k] = token'[k]
    PROVE  AllStay(a) /\ Current(tokens, a)
<1> SUFFICES ASSUME NEW k \in TokenKeys(a.deps) PROVE token'[k] = token[k]
  BY DEF AllStay, Current
<1>1. k \in TokenKey
  BY TenantFiled
<1> QED
  BY <1>1 DEF TokensMove, Filed

LEMMA ValueNamed ==
    ASSUME FiledInv, NEW a \in DOMAIN value
    PROVE  \A k \in TokenKeys(a.deps) : value[a].tokens[k] \in Named(k)
<1> TAKE k \in TokenKeys(a.deps)
<1>1. k \in DOMAIN value[a].tokens
  BY DEF FiledInv, Filed
<1> QED
  BY <1>1 DEF Named

LEMMA SnapNamed ==
    ASSUME NEW r \in Reqs, Filed(req[r].snap, req[r].ask)
    PROVE  \A k \in TokenKeys(req[r].ask.deps) : req[r].snap[k] \in Named(k)
<1> TAKE k \in TokenKeys(req[r].ask.deps)
<1>1. k \in DOMAIN req[r].snap
  BY DEF Filed
<1> QED
  BY <1>1 DEF Named

LEMMA ValuesStay ==
    ASSUME FiledInv, ValuesFresh, value' = value, TokensMove, FreshStays
    PROVE  ValuesFresh'
<1> SUFFICES ASSUME NEW a \in DOMAIN value, Current(value[a].tokens, a)'
             PROVE  Fresh(value[a].result, a)'
  BY DEF ValuesFresh
<1>1. a \in Asks /\ Filed(value[a].tokens, a) /\ value[a].result \in Int
  BY DEF FiledInv
<1>2. \A k \in TokenKeys(a.deps) : value[a].tokens[k] = token'[k]
  BY DEF Current
<1>3. AllStay(a) /\ Current(value[a].tokens, a)
  BY <1>1, <1>2, ValueNamed, StillCurrent
<1>4. Fresh(value[a].result, a)
  BY <1>3 DEF ValuesFresh
<1>5. PICK n \in Int : n = value[a].result
  BY <1>1
<1>6. Fresh(n, a)'
  BY <1>1, <1>3, <1>4, <1>5 DEF FreshStays
<1> QED
  BY <1>5, <1>6

LEMMA FreshUp ==
    TypeInv /\ HouseInv => \A a \in Asks, m, n \in Int : Fresh(m, a) /\ m <= n => Fresh(n, a)
<1> SUFFICES ASSUME TypeInv, HouseInv, NEW a \in Asks, NEW m \in Int, NEW n \in Int, Fresh(m, a), m <= n
             PROVE  Fresh(n, a)
  OBVIOUS
<1>1. \A p \in Procs : Floor(p, a) \in Int
  BY FloorBelow
<1> QED
  BY <1>1 DEF Fresh

LEMMA PendingStays ==
    ASSUME TypeInv, HouseInv, FiledInv, TokensMove, FreshStays, NEW s \in Reqs, Sound(req[s]), Carries(s)
    PROVE  Sound(req[s])'
<1> DEFINE q == req[s]
<1> SUFFICES ASSUME req'[s].pc \in Waiting, req'[s].snap # NoSnap, Current(req[s].snap, req[s].ask)'
             PROVE  Fresh(Pending(req[s]), req[s].ask)'
  BY DEF Sound
<1>1. /\ q.pc \in Waiting /\ req'[s].ask = q.ask /\ req'[s].snap = q.snap
      /\ Pending(req[s])' \in Int /\ Pending(q) <= Pending(req[s])'
  BY DEF Carries
<1>2. q.ask \in Asks /\ Filed(q.snap, q.ask)
  BY <1>1 DEF TypeInv, ReqType, Going, FiledInv, Versioned
<1>3. \A k \in TokenKeys(q.ask.deps) : q.snap[k] = token'[k]
  BY <1>1 DEF Current
<1>4. AllStay(q.ask) /\ Current(q.snap, q.ask)
  BY <1>2, <1>3, SnapNamed, StillCurrent
<1>5. Fresh(Pending(q), q.ask)
  BY <1>1, <1>4 DEF Sound
<1>6. Pending(q) \in Int
  BY <1>1, PendingNat
<1>7. Fresh(Pending(req[s])', q.ask)
  BY <1>1, <1>2, <1>5, <1>6, FreshUp
<1>8. PICK n \in Int : n = Pending(req[s])'
  BY <1>1
<1>9. PICK a \in Asks : a = q.ask
  BY <1>2
<1>10. Fresh(n, a)'
  BY <1>4, <1>7, <1>8, <1>9 DEF FreshStays
<1> QED
  BY <1>1, <1>8, <1>9, <1>10

LEMMA FiledStays ==
    ASSUME FiledInv, TokensMove, value' = value, \A s \in Reqs : Carries(s)
    PROVE  FiledInv'
<1>1. ASSUME NEW s \in Reqs PROVE Versioned(req[s])'
  BY <1>1 DEF FiledInv, Versioned, Carries
<1> QED
  BY <1>1 DEF FiledInv, TokensMove

LEMMA ReadersStay ==
    ASSUME TypeInv, FiledInv, ReadersSafe, value' = value, \A s \in Reqs : Carries(s)
    PROVE  ReadersSafe'
<1> SUFFICES ASSUME NEW r \in Reqs, req'[r].pc = "reading"
             PROVE  /\ req'[r].ask \in DOMAIN value /\ value[req'[r].ask].tokens = req'[r].snap
                          => req'[r].since <= value[req'[r].ask].result
                    /\ \A s \in Reqs : req'[s].pc \in Waiting /\ req'[s].ask = req'[r].ask /\ req'[s].snap = req'[r].snap
                          => req'[r].since <= Pending(req[s])'
  BY DEF ReadersSafe
<1>1. req[r].pc = "reading" /\ req'[r] = req[r]
  BY DEF Carries, Waiting
<1>2. ASSUME NEW s \in Reqs, req'[s].pc \in Waiting, req'[s].ask = req[r].ask, req'[s].snap = req[r].snap
      PROVE  req[r].since <= Pending(req[s])'
  <2>1. Filed(req[r].snap, req[r].ask)
    BY <1>1 DEF FiledInv, Versioned, Waiting
  <2>2. req[r].ask \in Asks /\ req[r].since \in Int
    BY <1>1 DEF TypeInv, ReqType, Going
  <2>3. req[r].snap # NoSnap
    <3>1. TenantKey \in DOMAIN req[r].snap
      BY <2>1, <2>2, TenantFiled DEF Filed
    <3> QED
      BY <3>1 DEF NoSnap
  <2>4. /\ req[s].pc \in Waiting /\ req[s].ask = req[r].ask /\ req[s].snap = req[r].snap
        /\ Pending(req[s])' \in Int /\ Pending(req[s]) <= Pending(req[s])'
    BY <1>2, <2>3 DEF Carries
  <2>5. req[r].since <= Pending(req[s])
    BY <1>1, <2>4 DEF ReadersSafe
  <2>6. Pending(req[s]) \in Int
    BY <2>4, PendingNat
  <2> QED
    BY <2>2, <2>4, <2>5, <2>6
<1> QED
  BY <1>1, <1>2 DEF ReadersSafe

\* A step that files nothing and takes no new tokens.
LEMMA RedisStays ==
    ASSUME TypeInv, HouseInv, RedisInv, scene' = scene, value' = value,
           backend = "redis" => TokensMove /\ FreshStays /\ \A s \in Reqs : Carries(s)
    PROVE  RedisInv'
<1>1. backend' = backend
  BY DEF backend, Scene
<1> SUFFICES ASSUME backend = "redis" PROVE FiledInv' /\ ValuesFresh' /\ PendingFresh' /\ ReadersSafe'
  BY <1>1 DEF RedisInv
<1>2. FiledInv /\ ValuesFresh /\ PendingFresh /\ ReadersSafe
  BY DEF RedisInv
<1>3. FiledInv' /\ ReadersSafe'
  BY <1>2, FiledStays, ReadersStay
<1>4. ValuesFresh'
  BY <1>2, ValuesStay
<1>5. \A s \in Reqs : Sound(req[s])'
  BY <1>2, PendingStays DEF PendingFresh
<1> QED
  BY <1>3, <1>4, <1>5 DEF PendingFresh

LEMMA TokensStay == FiledInv /\ UNCHANGED token => TokensMove
  BY DEF FiledInv, TokensMove

\* Nothing a floor or a client's debts depend on moves.
LEMMA FreshFrame ==
    ASSUME UNCHANGED past, \A p \in Procs : Done(proc'[p]) = Done(proc[p])
    PROVE  FreshStays /\ \A n, a : Fresh(n, a) => Fresh(n, a)'
<1>1. \A p, a : Floor(p, a)' = Floor(p, a)
  BY FloorStays
<1>2. \A a : \A p \in Procs : Due(proc[p], a)' <=> Due(proc[p], a)
  BY DEF Due
<1>3. \A n, a : Fresh(n, a) => Fresh(n, a)'
  BY <1>1, <1>2 DEF Fresh
<1> QED
  BY <1>3 DEF FreshStays

LEMMA ClientsDone == ClientsKept => \A p \in Procs : Done(proc'[p]) = Done(proc[p])
  BY DEF ClientsKept, Same, Done

\* A request that stays, or is done.
LEMMA CarriesOther ==
    ASSUME TypeInv, UNCHANGED house, NEW s \in Reqs, req'[s] = req[s] \/ req'[s] = Gone
    PROVE  Carries(s)
<1>1. CASE req'[s] = Gone
  BY <1>1, GoneIs DEF Carries, Waiting
<1>2. CASE req'[s] = req[s] /\ req[s].pc \in Waiting
  <2>1. Pending(req[s])' = Pending(req[s])
    BY <1>2 DEF Pending, house
  <2> QED
    BY <1>2, <2>1, PendingNat DEF Carries
<1>3. CASE req'[s] = req[s] /\ req[s].pc \notin Waiting
  BY <1>3 DEF Carries
<1> QED
  BY <1>1, <1>2, <1>3

\* The request itself, when it files nothing and takes no new tokens.
LEMMA CarriesOwn ==
    ASSUME CacheInv, backend = "redis", NEW r \in Reqs, UNCHANGED house,
           \/ \E p \in Procs, a \in Asks : Ask(r, p, a)
           \/ LookupBypassed(r) \/ LookupFailed(r) \/ LookupValue(r) \/ NoPool(r)
           \/ TakeConn(r) \/ RunQuery(r) \/ QueryFails(r) \/ Fill(r)
    PROVE  Carries(r)
<1> DEFINE q == req[r]
          d == req'[r]
<1> USE DEF CacheInv
<1>1. ReqType(q)
  BY DEF TypeInv
<1>2. UNCHANGED <<addr, db>>
  BY DEF house
<1>3. CASE \E p \in Procs, a \in Asks : Ask(r, p, a)
  BY <1>3, AskShape DEF Asked, Carries, Waiting
<1>4. ASSUME Missing(q, d) PROVE Carries(r)
  BY <1>4 DEF Missing, Carries
<1>5. CASE LookupBypassed(r)
  BY <1>4, <1>5, BypassShape
<1>6. CASE LookupFailed(r)
  BY <1>4, <1>6, FailedShape
<1>7. ASSUME d = Gone \/ d = AnswerHit(q) PROVE Carries(r)
  <2>1. AnswerHit(q).pc = "done"
    BY GoneIs DEF AnswerHit, ReqType
  <2> QED
    BY <1>7, <2>1, GoneIs DEF Carries, Waiting
<1>8. CASE NoPool(r) \/ QueryFails(r) \/ Fill(r)
  BY <1>7, <1>8, PoolShape, FailsShape, FillShape
<1>9. ASSUME q.pc \in Waiting, d.ask = q.ask, d.snap = q.snap, d.pc # "reading",
             Pending(d) = Pending(q)
      PROVE  Carries(r)
  <2>1. Pending(req[r])' = Pending(q)
    BY <1>2, <1>9 DEF Pending
  <2> QED
    BY <1>9, <2>1, PendingNat DEF Carries
<1>10. CASE LookupValue(r)
  <2>1. q.pc = "reading" /\ Looked(q, d) /\ d.pc = "conn" /\ d.snap = q.snap
    BY <1>10, ValueShape
  <2>2. Pending(d) = Pending(q)
    BY <2>1 DEF Looked, Keeps, Pending
  <2> QED
    BY <1>9, <2>1, <2>2 DEF Looked, Keeps, Waiting
<1>11. CASE TakeConn(r)
  <2>1. q.pc = "conn" /\ (d = AnswerHit(q) \/ Leading(q, d) \/ Following(q, d))
    BY <1>11, TakeShape
  <2>2. CASE Leading(q, d)
    <3>1. Pending(d) = Pending(q)
      BY <2>1, <2>2 DEF Leading, Keeps, Pending
    <3> QED
      BY <1>9, <2>1, <2>2, <3>1 DEF Leading, Keeps, Waiting
  <2>3. CASE Following(q, d)
    BY <2>3 DEF Following, Carries, Waiting
  <2> QED
    BY <1>7, <2>1, <2>2, <2>3
<1>12. CASE RunQuery(r)
  <2>1. /\ q.pc = "leading" /\ Keeps(q, d) /\ d.pc = "filling" /\ d.snap = q.snap
        /\ d.data = db[q.conn][q.ask.table]
    BY <1>12, RunShape
  <2>2. Pending(d) = Pending(q)
    BY <2>1 DEF Keeps, Pending
  <2> QED
    BY <1>9, <2>1, <2>2 DEF Keeps, Waiting
<1> QED
  BY <1>3, <1>5, <1>6, <1>8, <1>10, <1>11, <1>12

\* The tokens a lookup takes are current, and what is read after shows all.
LEMMA TokensRedis ==
    ASSUME CacheInv, NEW r \in Reqs, LookupTokens(r)
    PROVE  RedisInv'
<1> DEFINE q == req[r]
          d == req'[r]
          keys == TokenKeys(q.ask.deps)
<1> USE DEF CacheInv
<1>1. /\ backend = "redis" /\ q.pc = "looking" /\ proc[q.at].owed \cap keys = {}
      /\ token' = [k \in TokenKey |-> IF k \in keys /\ token[k] = 0 THEN Nonce(k) ELSE token[k]]
      /\ Looked(q, d) /\ d.snap = [k \in keys |-> token'[k]]
      /\ d.pc = "conn" \/ (d.pc = "reading" /\ \A k \in keys : token[k] # 0)
      /\ ClientsKept /\ OthersStay(r) /\ \A s \in Reqs \ {r} : req'[s] = req[s]
      /\ UNCHANGED <<scene, value, inv, house, past>>
  BY TokensShape
<1>2. FiledInv /\ ValuesFresh /\ PendingFresh /\ ReadersSafe
  BY <1>1 DEF RedisInv
<1>3. q.at \in Procs /\ q.ask \in Asks /\ q.since \in Int
  BY <1>1 DEF TypeInv, ReqType, Going
<1>4. keys \subseteq TokenKey
  BY <1>3, TenantFiled
<1>5. TypeInv'
  BY TypeRequest DEF Step
<1>6. \A k \in TokenKey : Nonce(k) \in Nat \ {0} /\ Nonce(k) \notin Named(k)
  BY <1>2, NamedFinite, NonceNew DEF FiledInv
<1>7. /\ TokensMove
      /\ \A k \in keys : token'[k] \in Nat /\ token'[k] # 0 /\ (token[k] # 0 => token'[k] = token[k])
  <2>1. token \in [TokenKey -> Nat]
    BY <1>2 DEF FiledInv
  <2> HIDE DEF keys
  <2> QED
    BY <1>1, <1>4, <1>6, <2>1 DEF TokensMove
<1>8. FreshStays /\ \A n, a : Fresh(n, a) => Fresh(n, a)'
  BY <1>1, ClientsDone, FreshFrame
<1>9. \A s \in Reqs \ {r} : Carries(s)
  BY <1>1, CarriesOther
<1>10. ValuesFresh'
  BY <1>1, <1>2, <1>7, <1>8, ValuesStay
<1>11. \A s \in Reqs \ {r} : Sound(req[s])'
  BY <1>2, <1>7, <1>8, <1>9, PendingStays DEF PendingFresh
<1>12. d.ask = q.ask /\ d.at = q.at /\ d.since = q.since
  BY <1>1 DEF Looked, Keeps
<1>13. Filed(d.snap, q.ask)
  <2>1. DOMAIN d.snap = keys /\ \A k \in keys : d.snap[k] = token'[k]
    BY <1>1
  <2>2. d.snap = [k \in keys |-> d.snap[k]]
    BY <1>1
  <2> QED
    BY <1>7, <2>1, <2>2 DEF Filed
<1>14. FiledInv'
  <2>1. \A s \in Reqs \ {r} : Versioned(req[s])'
    BY <1>2, <1>9 DEF FiledInv, Versioned, Carries
  <2>2. Versioned(req[r])'
    BY <1>12, <1>13 DEF Versioned
  <2> QED
    BY <1>1, <1>2, <1>7, <2>1, <2>2 DEF FiledInv, TokensMove
\* What the request would read now.
<1>15. Pending(d) = db[addr][q.ask.table]
  BY <1>1, <1>12 DEF Pending
<1>16. Pending(req[r])' = Pending(d)
  BY <1>1 DEF Pending, house
<1>17. Pending(d) \in Nat /\ \A p \in Procs : Floor(p, q.ask) <= Pending(d)
  BY <1>3, <1>15, FloorBelow
<1>18. Sound(req[r])'
  <2>1. PICK a \in Asks : a = q.ask
    BY <1>3
  <2>2. \A p \in Procs : Floor(p, a)' <= Pending(req[r])'
    BY <1>1, <1>16, <1>17, <2>1, FloorStays
  <2>3. PICK n : n = Pending(req[r])'
    OBVIOUS
  <2>4. Fresh(n, a)'
    BY <2>2, <2>3 DEF Fresh
  <2> QED
    BY <1>12, <2>1, <2>3, <2>4 DEF Sound
<1>19. PendingFresh'
  BY <1>11, <1>18 DEF PendingFresh

<1>20. ASSUME NEW s \in Reqs \ {r} PROVE Pending(req[s])' = Pending(req[s])
  BY <1>1, <1>20 DEF Pending, house
\* The client owes nothing the request would be filed under.
<1>21. ASSUME NEW n \in Int, Fresh(n, q.ask) PROVE q.since <= n
  <2>1. ~Due(proc[q.at], q.ask)
    BY <1>1, DoneOwed DEF Due
  <2>2. Floor(q.at, q.ask) <= n /\ Floor(q.at, q.ask) \in Int
    BY <1>3, <1>21, <2>1, FloorBelow DEF Fresh
  <2>3. q.since <= Floor(q.at, q.ask)
    BY <1>1 DEF HitInv, Honest
  <2> QED
    BY <1>3, <2>2, <2>3
<1>22. ASSUME d.pc = "reading", NEW tokens, tokens = d.snap PROVE Current(tokens, q.ask)
  BY <1>1, <1>7, <1>22 DEF Current
<1>23. ASSUME NEW x \in Reqs, req'[x].pc = "reading"
       PROVE  /\ req'[x].ask \in DOMAIN value /\ value[req'[x].ask].tokens = req'[x].snap
                    => req'[x].since <= value[req'[x].ask].result
              /\ \A s \in Reqs : req'[s].pc \in Waiting /\ req'[s].ask = req'[x].ask /\ req'[s].snap = req'[x].snap
                    => req'[x].since <= Pending(req[s])'
  <2>1. CASE x = r
    <3>1. ASSUME q.ask \in DOMAIN value, value[q.ask].tokens = d.snap PROVE q.since <= value[q.ask].result
      <4>1. Current(value[q.ask].tokens, q.ask)
        BY <1>22, <1>23, <2>1, <3>1
      <4> QED
        BY <1>2, <1>21, <3>1, <4>1 DEF FiledInv, ValuesFresh
    <3>2. ASSUME NEW s \in Reqs, req'[s].pc \in Waiting, req'[s].ask = q.ask, req'[s].snap = d.snap
          PROVE  q.since <= Pending(req[s])'
      <4>1. CASE s = r
        <5>1. Fresh(Pending(d), q.ask)
          BY <1>17 DEF Fresh
        <5> QED
          BY <1>16, <1>17, <1>21, <4>1, <5>1
      <4>2. CASE s # r
        <5>1. req'[s] = req[s]
          BY <1>1, <4>2
        <5>2. Current(req[s].snap, q.ask)
          BY <1>22, <1>23, <2>1, <3>2, <5>1
        <5>3. req[s].snap # NoSnap
          <6>1. TenantKey \in DOMAIN req[s].snap
            BY <1>1, <1>3, <3>2, <5>1, TenantFiled
          <6> QED
            BY <6>1 DEF NoSnap
        <5>4. Fresh(Pending(req[s]), q.ask)
          BY <1>2, <3>2, <5>1, <5>2, <5>3 DEF PendingFresh, Sound
        <5> QED
          BY <1>20, <1>21, <3>2, <4>2, <5>1, <5>4, PendingNat
      <4> QED
        BY <4>1, <4>2
    <3> QED
      BY <1>12, <2>1, <3>1, <3>2
  <2>2. CASE x # r
    <3>1. req'[x] = req[x]
      BY <1>1, <2>2
    <3>2. ASSUME NEW s \in Reqs, req'[s].pc \in Waiting, req'[s].ask = req[x].ask, req'[s].snap = req[x].snap
          PROVE  req[x].since <= Pending(req[s])'
      <4>1. CASE s = r
        <5>1. req[x].since <= Floor(req[x].at, req[x].ask) /\ req[x].ask = q.ask
          BY <1>12, <1>23, <3>1, <3>2, <4>1 DEF HitInv, Honest
        <5>2. req[x].at \in Procs /\ req[x].since \in Int
          BY <1>23, <3>1 DEF TypeInv, ReqType, Going, Waiting
        <5>3. Floor(req[x].at, q.ask) \in Int /\ Floor(req[x].at, q.ask) <= Pending(d)
          BY <1>3, <1>17, <5>2, FloorBelow
        <5> QED
          BY <1>16, <1>17, <4>1, <5>1, <5>2, <5>3
      <4>2. CASE s # r
        BY <1>1, <1>2, <1>20, <1>23, <3>1, <3>2, <4>2 DEF ReadersSafe
      <4> QED
        BY <4>1, <4>2
    <3> QED
      BY <1>2, <1>23, <3>1, <3>2 DEF ReadersSafe
  <2> QED
    BY <2>1, <2>2
<1>24. ReadersSafe'
  BY <1>1, <1>23 DEF ReadersSafe
<1>25. backend' = backend
  BY <1>1 DEF backend, Scene
<1> QED
  BY <1>10, <1>14, <1>19, <1>24, <1>25 DEF RedisInv

\* What is filed has been fresh on its way, and so are the reads it can meet.
LEMMA FillRedis ==
    ASSUME CacheInv, backend = "redis", NEW r \in Reqs, Fill(r)
    PROVE  RedisInv'
<1> DEFINE q == req[r]
          new == [tokens |-> q.snap, result |-> q.data]
<1> USE DEF CacheInv
<1>1. /\ q.pc = "filling" /\ req'[r] = Gone /\ UNCHANGED token
      /\ \/ UNCHANGED value
         \/ q.snap # NoSnap /\ value' = With(value, q.ask, new)
      /\ ClientsKept /\ OthersStay(r) /\ UNCHANGED <<scene, inv, house, past>>
  BY FillShape DEF redis
<1>2. FiledInv /\ ValuesFresh /\ PendingFresh /\ ReadersSafe
  BY DEF RedisInv
<1>3. TokensMove
  BY <1>1, <1>2, TokensStay
<1>4. FreshStays /\ \A n, a : Fresh(n, a) => Fresh(n, a)'
  BY <1>1, ClientsDone, FreshFrame
<1>5. \A s \in Reqs : Carries(s)
  BY <1>1, CarriesOther DEF OthersStay
<1>6. CASE UNCHANGED value
  BY <1>1, <1>3, <1>4, <1>5, <1>6, RedisStays
<1>7. CASE q.snap # NoSnap /\ value' = With(value, q.ask, new)
  <2>1. q.ask \in Asks /\ q.data \in Int /\ Filed(q.snap, q.ask)
    BY <1>1, <1>2, <1>7 DEF TypeInv, ReqType, Going, Waiting, FiledInv, Versioned
  <2>2. /\ DOMAIN value' = DOMAIN value \cup {q.ask} /\ value'[q.ask].tokens = q.snap /\ value'[q.ask].result = q.data
        /\ \A a \in DOMAIN value : a # q.ask => value'[a] = value[a]
    BY <1>7 DEF With
  <2>3. FiledInv'
    <3>1. \A s \in Reqs : Versioned(req[s])'
      BY <1>2, <1>5 DEF FiledInv, Versioned, Carries
    <3>2. IsFiniteSet(DOMAIN value') /\ DOMAIN value' \subseteq Asks
      BY <1>2, <2>1, <2>2, FS_AddElement DEF FiledInv
    <3>3. \A a \in DOMAIN value' : Filed(value'[a].tokens, a) /\ value'[a].result \in Int
      BY <1>2, <2>1, <2>2 DEF FiledInv
    <3> QED
      BY <1>1, <1>2, <3>1, <3>2, <3>3 DEF FiledInv
  <2>4. \A tokens, a : Current(tokens, a)' <=> Current(tokens, a)
    BY <1>1 DEF Current
  <2>5. ValuesFresh'
    <3> SUFFICES ASSUME NEW a \in DOMAIN value', Current(value'[a].tokens, a) PROVE Fresh(value[a].result, a)'
      BY <2>4 DEF ValuesFresh, Current
    <3>1. CASE a = q.ask
      <4>1. Pending(q) = q.data
        BY <1>1 DEF Pending
      <4>2. Current(q.snap, q.ask)
        BY <2>2, <3>1
      <4>3. Fresh(q.data, q.ask)
        BY <1>1, <1>2, <1>7, <4>1, <4>2 DEF PendingFresh, Sound, Waiting
      <4>4. PICK n \in Int : n = q.data
        BY <2>1
      <4>5. Fresh(n, a)'
        BY <1>4, <3>1, <4>3, <4>4
      <4>6. n = value'[a].result
        BY <2>2, <3>1, <4>4
      <4> QED
        BY <4>5, <4>6
    <3>2. CASE a # q.ask
      <4>1. a \in DOMAIN value /\ value'[a] = value[a]
        BY <2>2, <3>2
      <4>2. Fresh(value[a].result, a)
        BY <1>2, <4>1 DEF ValuesFresh
      <4>3. PICK n : n = value[a].result
        OBVIOUS
      <4>4. Fresh(n, a)'
        BY <1>4, <4>2, <4>3
      <4>5. n = value'[a].result
        BY <4>1, <4>3
      <4> QED
        BY <4>4, <4>5
    <3> QED
      BY <3>1, <3>2
  <2>6. PendingFresh'
    BY <1>2, <1>3, <1>4, <1>5, PendingStays DEF PendingFresh
  <2>7. ReadersSafe'
    <3> SUFFICES ASSUME NEW x \in Reqs, req'[x].pc = "reading"
                 PROVE  /\ req'[x].ask \in DOMAIN value' /\ value'[req'[x].ask].tokens = req'[x].snap
                              => req'[x].since <= value'[req'[x].ask].result
                        /\ \A s \in Reqs : req'[s].pc \in Waiting /\ req'[s].ask = req'[x].ask /\ req'[s].snap = req'[x].snap
                              => req'[x].since <= Pending(req[s])'
      BY DEF ReadersSafe
    <3>1. req'[x] = req[x] /\ req[x].pc = "reading"
      BY <1>5 DEF Carries, Waiting
    <3>2. \A s \in Reqs : req'[s].pc \in Waiting =>
             req'[s] = req[s] /\ Pending(req[s])' = Pending(req[s])
      <4> TAKE s \in Reqs
      <4>1. req'[s].pc \in Waiting => req'[s] = req[s]
        BY <1>1, GoneIs DEF OthersStay, Waiting
      <4> QED
        BY <1>1, <4>1 DEF Pending, house
    <3>3. ASSUME req[x].ask = q.ask, q.snap = req[x].snap PROVE req[x].since <= q.data
      BY <1>1, <1>2, <3>1, <3>3 DEF ReadersSafe, Pending, Waiting
    <3> QED
      BY <1>2, <2>2, <3>1, <3>2, <3>3 DEF ReadersSafe
  <2>8. backend' = backend
    BY <1>1 DEF backend, Scene
  <2> QED
    BY <2>3, <2>5, <2>6, <2>7, <2>8 DEF RedisInv
<1> QED
  BY <1>1, <1>6, <1>7

LEMMA RedisRequest ==
    ASSUME CacheInv, NEW r \in Reqs,
           Step(r) \/ \E p \in Procs, a \in Asks : Ask(r, p, a)
    PROVE  RedisInv'
<1> USE DEF CacheInv
<1>1. OthersStay(r) /\ ClientsKept /\ UNCHANGED <<scene, house, past>>
  BY TypeRequest
<1>2. backend' = backend
  BY <1>1 DEF backend, Scene
<1> SUFFICES ASSUME backend = "redis" PROVE RedisInv'
  BY <1>2 DEF RedisInv
<1>3. CASE LookupLocal(r)
  BY <1>3 DEF LookupLocal
<1>4. CASE LookupTokens(r)
  BY <1>4, TokensRedis
<1>5. CASE Fill(r)
  BY <1>5, FillRedis
<1>6. ASSUME \/ \E p \in Procs, a \in Asks : Ask(r, p, a)
             \/ LookupBypassed(r) \/ LookupFailed(r) \/ LookupValue(r) \/ NoPool(r)
             \/ TakeConn(r) \/ RunQuery(r) \/ QueryFails(r)
      PROVE  RedisInv'
  <2>1. Carries(r)
    BY <1>1, <1>6, CarriesOwn
  <2>2. \A s \in Reqs : Carries(s)
    BY <1>1, <2>1, CarriesOther DEF OthersStay
  <2>3. UNCHANGED <<token, value>>
    BY <1>6, AskShape, BypassShape, FailedShape, ValueShape, PoolShape, TakeShape, RunShape, FailsShape DEF redis
  <2>4. TokensMove /\ FreshStays
    BY <1>1, <2>3, TokensStay, ClientsDone, FreshFrame DEF RedisInv
  <2> QED
    BY <1>1, <2>2, <2>3, <2>4, RedisStays
<1> QED
  BY <1>3, <1>4, <1>5, <1>6 DEF Step

-----------------------------------------------------------------------------
(* The in-process cache, step by step.                                     *)

\* Versions once passed stay so; and what is still current shows all it must.
KeysPass ==
    \A a \in Asks : \A key : Passed(key, a) =>
        /\ Passed(key, a)'
        /\ key = QueryKey(index', a) =>
              key = QueryKey(index, a) /\ \A n \in Int : Shows(n, a) => Shows(n, a)'

Holds(s) ==
    req'[s].pc \in Holding =>
        /\ req[s].pc \in Holding /\ req'[s].ask = req[s].ask /\ req'[s].snap = req[s].snap
        /\ Pending(req[s])' \in Int /\ Pending(req[s]) <= Pending(req[s])'

LEMMA ShowsUp ==
    TypeInv /\ HouseInv => \A a \in Asks, m, n \in Int : Shows(m, a) /\ m <= n => Shows(n, a)
<1> SUFFICES ASSUME TypeInv, HouseInv, NEW a \in Asks, NEW m \in Int, NEW n \in Int, Shows(m, a), m <= n
             PROVE  Shows(n, a)
  OBVIOUS
<1>1. \A p \in Procs : Floor(p, a) \in Int
  BY FloorBelow
<1> QED
  BY <1>1 DEF Shows

LEMMA KeptStays ==
    ASSUME KeptShown, KeysPass, kept' = kept
    PROVE  KeptShown'
<1> SUFFICES ASSUME NEW key \in DOMAIN kept
             PROVE  /\ key.query \in Asks /\ Passed(key, key.query)' /\ kept[key] \in Int
                    /\ key = QueryKey(index', key.query) => Shows(kept[key], key.query)'
  BY DEF KeptShown
<1>1. /\ key.query \in Asks /\ Passed(key, key.query) /\ kept[key] \in Int
      /\ key = QueryKey(index, key.query) => Shows(kept[key], key.query)
  BY DEF KeptShown
<1>2. PICK a \in Asks : a = key.query
  BY <1>1
<1>3. PICK n \in Int : n = kept[key]
  BY <1>1
<1>4. Passed(key, a)' /\ (key = QueryKey(index', a) => Shows(n, a)')
  BY <1>1, <1>2, <1>3 DEF KeysPass
<1>5. n = kept'[key]
  BY <1>3
<1> QED
  BY <1>1, <1>2, <1>4, <1>5

LEMMA ShownStays ==
    ASSUME TypeInv, HouseInv, KeysPass, NEW s \in Reqs, Shown(req[s]), Holds(s)
    PROVE  Shown(req[s])'
<1> DEFINE q == req[s]
<1> SUFFICES ASSUME req'[s].pc \in Holding
             PROVE  /\ Passed(req[s].snap, req[s].ask)'
                    /\ req'[s].snap = QueryKey(index', req'[s].ask) => Shows(Pending(req[s]), req[s].ask)'
  BY DEF Shown
<1>1. /\ q.pc \in Holding /\ req'[s].ask = q.ask /\ req'[s].snap = q.snap
      /\ Pending(req[s])' \in Int /\ Pending(q) <= Pending(req[s])'
  BY DEF Holds
<1>2. q.ask \in Asks /\ Pending(q) \in Int
  BY <1>1, PendingNat DEF TypeInv, ReqType, Going, Waiting, Holding
<1>3. Passed(q.snap, q.ask) /\ (q.snap = QueryKey(index, q.ask) => Shows(Pending(q), q.ask))
  BY <1>1 DEF Shown
<1>4. PICK a \in Asks : a = q.ask
  BY <1>2
<1>5. PICK key : key = q.snap
  OBVIOUS
<1>6. PICK n \in Int : n = Pending(req[s])'
  BY <1>1
<1>7. Passed(key, a)'
  BY <1>3, <1>4, <1>5 DEF KeysPass
<1>8. ASSUME key = QueryKey(index', a) PROVE Shows(n, a)'
  <2>1. key = QueryKey(index, a) /\ \A m \in Int : Shows(m, a) => Shows(m, a)'
    BY <1>3, <1>4, <1>5, <1>8 DEF KeysPass
  <2>2. Shows(Pending(q), a)
    BY <1>3, <1>4, <1>5, <2>1
  <2>3. Shows(n, a)
    BY <1>1, <1>2, <1>6, <2>2, ShowsUp
  <2> QED
    BY <2>1, <2>3
<1>9. a = req'[s].ask /\ key = req'[s].snap
  BY <1>1, <1>4, <1>5
<1> QED
  BY <1>6, <1>7, <1>8, <1>9

LEMMA KeyDeps ==
    ASSUME NEW a \in Asks, a.deps # {}, NEW ix
    PROVE  LET v == QueryKey(ix, a).deps[<<a.table, Whole>>]
           IN  v[1] = ix.table[a.table] /\ v[2] = ix.scope[a.table][Whole]
<1>1. a.deps = {<<a.table, Whole>>}
  BY CacheAssumption DEF CacheAssumption
<1>2. QueryKey(ix, a).deps[<<a.table, Whole>>] = <<ix.table[a.table], ix.scope[a.table][Whole]>>
  BY <1>1 DEF QueryKey
<1> QED
  BY <1>2

\* The index's own key for an ask.
LEMMA OwnPassed ==
    IndexType => \A a \in Asks : index.gen # 0 => Passed(QueryKey(index, a), a)
<1> SUFFICES ASSUME IndexType, NEW a \in Asks, index.gen # 0 PROVE Passed(QueryKey(index, a), a)
  OBVIOUS
<1> DEFINE key == QueryKey(index, a)
<1>1. key.query = a /\ key.gen = index.gen
  BY KeyIs
<1>2. a.deps # {} => NotAfter(key.deps[<<a.table, Whole>>], index.table[a.table], index.scope[a.table][Whole])
  <2> HAVE a.deps # {}
  <2> DEFINE v == key.deps[<<a.table, Whole>>]
  <2>1. v[1] = index.table[a.table] /\ v[2] = index.scope[a.table][Whole]
    BY KeyDeps
  <2>2. a.table \in Tables /\ Whole \in AnyScope
    BY CacheAssumption, KeysAre DEF CacheAssumption
  <2>3. index.table[a.table] \in Nat /\ index.scope[a.table][Whole] \in Nat
    BY <2>2 DEF IndexType
  <2> HIDE DEF v
  <2>4. NotAfter(v, index.table[a.table], index.scope[a.table][Whole])
    BY <2>1, <2>3 DEF NotAfter
  <2> QED
    BY <2>4 DEF v
<1> HIDE DEF key
<1>3. Passed(key, a)
  BY <1>1, <1>2 DEF Passed, IndexType
<1> QED
  BY <1>3 DEF key

\* Nothing of the index, and nothing a floor depends on, moves.
LEMMA KeysFrame == UNCHANGED <<index, lastGen, past>> => KeysPass
<1> SUFFICES ASSUME UNCHANGED <<index, lastGen, past>> PROVE KeysPass
  OBVIOUS
<1>1. \A p, a : Floor(p, a)' = Floor(p, a)
  BY FloorStays
<1>2. \A key, a : Passed(key, a) => Passed(key, a)'
  BY DEF Passed
<1>3. \A n, a : Shows(n, a) => Shows(n, a)'
  BY <1>1 DEF Shows
<1> QED
  BY <1>2, <1>3 DEF KeysPass

LEMMA HoldsOther ==
    ASSUME TypeInv, UNCHANGED house, NEW s \in Reqs, req'[s] = req[s] \/ req'[s] = Gone
    PROVE  Holds(s)
<1>1. CASE req'[s] = Gone
  BY <1>1, GoneIs DEF Holds, Holding
<1>2. CASE req'[s] = req[s] /\ req[s].pc \in Holding
  <2>1. Pending(req[s])' = Pending(req[s])
    BY <1>2 DEF Pending, house
  <2>2. req[s].pc \in Waiting
    BY <1>2 DEF Holding, Waiting
  <2> QED
    BY <1>2, <2>1, <2>2, PendingNat DEF Holds
<1>3. CASE req'[s] = req[s] /\ req[s].pc \notin Holding
  BY <1>3 DEF Holds
<1> QED
  BY <1>1, <1>2, <1>3

\* The request itself, in the in-process cache, after its lookup.
LEMMA HoldsOwn ==
    ASSUME TypeInv, HouseInv, NEW r \in Reqs, UNCHANGED house,
           \/ \E p \in Procs, a \in Asks : Ask(r, p, a)
           \/ NoPool(r) \/ TakeConn(r) \/ RunQuery(r) \/ QueryFails(r) \/ Fill(r)
    PROVE  Holds(r) /\ req'[r].pc # "reading"
<1> DEFINE q == req[r]
          d == req'[r]
<1>1. UNCHANGED <<addr, db>>
  BY DEF house
<1>2. CASE \E p \in Procs, a \in Asks : Ask(r, p, a)
  BY <1>2, AskShape DEF Asked, Holds, Holding
<1>3. ASSUME d = Gone \/ d = AnswerHit(q) PROVE Holds(r) /\ d.pc # "reading"
  <2>1. AnswerHit(q).pc = "done"
    BY GoneIs DEF AnswerHit, ReqType
  <2> QED
    BY <1>3, <2>1, GoneIs DEF Holds, Holding
<1>4. CASE NoPool(r) \/ QueryFails(r) \/ Fill(r)
  BY <1>3, <1>4, PoolShape, FailsShape, FillShape
<1>5. ASSUME q.pc \in Holding, d.ask = q.ask, d.snap = q.snap, Pending(d) = Pending(q)
      PROVE  Holds(r)
  <2>1. Pending(req[r])' = Pending(q)
    BY <1>1, <1>5 DEF Pending
  <2>2. q.pc \in Waiting
    BY <1>5 DEF Holding, Waiting
  <2> QED
    BY <1>5, <2>1, <2>2, PendingNat DEF Holds
<1>6. CASE TakeConn(r)
  <2>1. q.pc = "conn" /\ (d = AnswerHit(q) \/ Leading(q, d) \/ Following(q, d))
    BY <1>6, TakeShape
  <2>2. CASE Leading(q, d)
    <3>1. Pending(d) = Pending(q)
      BY <2>1, <2>2 DEF Leading, Keeps, Pending
    <3> QED
      BY <1>5, <2>1, <2>2, <3>1 DEF Leading, Keeps, Holding
  <2>3. CASE Following(q, d)
    BY <2>3 DEF Following, Holds, Holding
  <2> QED
    BY <1>3, <2>1, <2>2, <2>3
<1>7. CASE RunQuery(r)
  <2>1. /\ q.pc = "leading" /\ Keeps(q, d) /\ d.pc = "filling" /\ d.snap = q.snap
        /\ d.data = db[q.conn][q.ask.table]
    BY <1>7, RunShape
  <2>2. Pending(d) = Pending(q)
    BY <2>1 DEF Keeps, Pending
  <2> QED
    BY <1>5, <2>1, <2>2 DEF Keeps, Holding
<1> QED
  BY <1>2, <1>4, <1>6, <1>7

\* A lookup makes the tenant's index if there is none, under a new generation.
LEMMA LookupPasses ==
    ASSUME TypeInv, LocalInv, NEW r \in Reqs, LookupLocal(r)
    PROVE  IndexType' /\ index'.gen # 0 /\ KeysPass
           /\ \A a \in Asks : \A key : key = QueryKey(index', a) => Passed(key, a)'
<1>1. /\ backend = "local"
      /\ index' = (IF index.gen = 0 THEN [index EXCEPT !.gen = lastGen + 1] ELSE index)
      /\ lastGen' = Max2(lastGen, index'.gen) /\ UNCHANGED past
  BY LocalShape
<1>2. IndexType
  BY <1>1 DEF LocalInv
<1>3. IndexType' /\ index'.gen # 0 /\ lastGen <= lastGen'
  BY <1>1, <1>2 DEF IndexType, Max2
<1>4. KeysPass
  <2>1. CASE index.gen = 0
    <3>1. index'.gen = lastGen + 1
      BY <1>1, <1>2, <2>1 DEF IndexType
    <3>2. ASSUME NEW a \in Asks, NEW key, Passed(key, a) PROVE Passed(key, a)' /\ key # QueryKey(index', a)
      <4>1. key.gen \in Nat /\ key.gen # 0 /\ key.gen <= lastGen /\ key.query = a
        BY <3>2 DEF Passed
      <4>2. key.gen # index'.gen
        BY <1>2, <3>1, <4>1 DEF IndexType
      <4> QED
        BY <1>2, <1>3, <4>1, <4>2, KeyIs DEF Passed, IndexType
    <3> QED
      BY <3>2 DEF KeysPass
  <2>2. CASE index.gen # 0
    <3>1. UNCHANGED <<index, lastGen>>
      BY <1>1, <1>2, <2>2 DEF IndexType, Max2
    <3> QED
      BY <1>1, <3>1, KeysFrame
  <2> QED
    BY <2>1, <2>2
<1>5. (\A a \in Asks : index.gen # 0 => Passed(QueryKey(index, a), a))'
  BY <1>3, OwnPassed, PTL
<1>6. ASSUME NEW a \in Asks, NEW key, key = QueryKey(index', a) PROVE Passed(key, a)'
  BY <1>3, <1>5, <1>6
<1> QED
  BY <1>3, <1>4, <1>6

LEMMA LocalRequest ==
    ASSUME CacheInv, NEW r \in Reqs,
           Step(r) \/ \E p \in Procs, a \in Asks : Ask(r, p, a)
    PROVE  LocalInv'
<1> DEFINE q == req[r]
          d == req'[r]
<1> USE DEF CacheInv
<1>1. OthersStay(r) /\ ClientsKept /\ UNCHANGED <<scene, house, past>>
  BY TypeRequest
<1>2. backend' = backend
  BY <1>1 DEF backend, Scene
<1> SUFFICES ASSUME backend = "local" PROVE LocalInv'
  BY <1>2 DEF LocalInv
<1>3. /\ \A p \in Procs : proc[p].owed = {}
      /\ \A s \in Reqs : req[s].pc # "reading"
      /\ IndexType /\ KeptShown /\ PendingShown
  BY DEF LocalInv
<1>4. \A p \in Procs : proc'[p].owed = {}
  BY <1>1, <1>3 DEF ClientsKept, Same
<1>5. \A s \in Reqs \ {r} : Holds(s) /\ req'[s].pc # "reading"
  BY <1>1, <1>3, HoldsOther, GoneIs DEF OthersStay
<1>6. ASSUME d.pc # "reading", IndexType', KeptShown', KeysPass, Shown(req[r])' PROVE LocalInv'
  <2>1. \A s \in Reqs \ {r} : Shown(req[s])'
    BY <1>3, <1>5, <1>6, ShownStays DEF PendingShown
  <2> QED
    BY <1>4, <1>5, <1>6, <2>1 DEF LocalInv, PendingShown
<1>7. CASE LookupLocal(r)
  <2>1. /\ q.pc = "looking" /\ Looked(q, d) /\ d.pc = "conn" /\ d.snap = QueryKey(index', q.ask)
        /\ UNCHANGED kept
    BY <1>7, LocalShape
  <2>2. IndexType' /\ KeysPass /\ \A a \in Asks : \A key : key = QueryKey(index', a) => Passed(key, a)'
    BY <1>7, LookupPasses
  <2>3. KeptShown'
    BY <1>3, <2>1, <2>2, KeptStays
  <2>4. d.ask = q.ask /\ q.ask \in Asks
    BY <2>1 DEF Looked, Keeps, TypeInv, ReqType, Going
  <2>5. PICK a \in Asks : a = q.ask
    BY <2>4
  <2>6. PICK n : n = Pending(req[r])'
    OBVIOUS
  <2>7. n = db[addr][a.table]
    BY <1>1, <2>1, <2>4, <2>5, <2>6 DEF Pending, house
  <2>8. Shows(n, a)'
    BY <1>1, <2>7, FloorBelow, FloorStays DEF Shows
  <2>9. PICK key : key = d.snap
    OBVIOUS
  <2>10. Passed(key, a)'
    BY <2>1, <2>2, <2>5, <2>9
  <2>11. Shown(req[r])'
    BY <2>4, <2>5, <2>6, <2>8, <2>9, <2>10 DEF Shown
  <2> QED
    BY <1>6, <2>1, <2>2, <2>3, <2>11
<1>8. CASE Fill(r)
  <2>1. /\ q.pc = "filling" /\ d = Gone /\ kept' = With(kept, q.snap, q.data)
        /\ UNCHANGED <<index, lastGen>>
    BY <1>8, FillShape
  <2>2. KeysPass
    BY <1>1, <2>1, KeysFrame
  <2>3. IndexType'
    BY <1>3, <2>1 DEF IndexType
  <2>4. Shown(req[r])' /\ d.pc # "reading"
    BY <2>1, GoneIs DEF Shown, Holding
  <2>5. /\ Passed(q.snap, q.ask) /\ q.ask \in Asks /\ q.data \in Int
        /\ q.snap = QueryKey(index, q.ask) => Shows(q.data, q.ask)
    BY <1>3, <2>1 DEF PendingShown, Shown, Pending, Holding, TypeInv, ReqType, Going, Waiting
  <2>6. KeptShown'
    <3> DEFINE s == q.snap
              n == q.data
              a == q.ask
    <3>1. ASSUME NEW key \in DOMAIN kept'
          PROVE  /\ key.query \in Asks /\ Passed(key, key.query) /\ kept'[key] \in Int
                 /\ key = QueryKey(index, key.query) => Shows(kept'[key], key.query)
      <4>1. CASE key = s
        <5>1. kept'[key] = n /\ key.query = a
          BY <2>1, <2>5, <4>1 DEF With, Passed
        <5> QED
          BY <2>5, <4>1, <5>1
      <4>2. CASE key # s
        <5>1. key \in DOMAIN kept /\ kept'[key] = kept[key]
          BY <2>1, <4>2 DEF With
        <5> QED
          BY <1>3, <5>1 DEF KeptShown
      <4> QED
        BY <4>1, <4>2
    <3> SUFFICES ASSUME NEW key \in DOMAIN kept'
                 PROVE  /\ key.query \in Asks /\ Passed(key, key.query)' /\ kept'[key] \in Int
                        /\ key = QueryKey(index', key.query) => Shows(kept[key], key.query)'
      BY DEF KeptShown
    <3>2. PICK b \in Asks : b = key.query
      BY <3>1
    <3>3. PICK m \in Int : m = kept'[key]
      BY <3>1
    <3>4. Passed(key, b)' /\ (key = QueryKey(index', b) => Shows(m, b)')
      BY <2>2, <3>1, <3>2, <3>3 DEF KeysPass
    <3> QED
      BY <3>1, <3>2, <3>3, <3>4
  <2> QED
    BY <1>6, <2>2, <2>3, <2>4, <2>6
<1>9. ASSUME \/ \E p \in Procs, a \in Asks : Ask(r, p, a)
             \/ NoPool(r) \/ TakeConn(r) \/ RunQuery(r) \/ QueryFails(r)
      PROVE  LocalInv'
  <2>1. UNCHANGED <<index, lastGen, kept>>
    BY <1>9, AskShape, PoolShape, TakeShape, RunShape, FailsShape DEF local
  <2>2. Holds(r) /\ d.pc # "reading"
    BY <1>1, <1>9, HoldsOwn
  <2>3. KeysPass
    BY <1>1, <2>1, KeysFrame
  <2>4. IndexType'
    BY <1>3, <2>1 DEF IndexType
  <2>5. KeptShown'
    BY <1>3, <2>1, <2>3, KeptStays
  <2>6. Shown(req[r])'
    BY <1>3, <2>2, <2>3, ShownStays DEF PendingShown
  <2> QED
    BY <1>6, <2>2, <2>3, <2>4, <2>5, <2>6
<1>10. ~LookupBypassed(r) /\ ~LookupFailed(r) /\ ~LookupTokens(r) /\ ~LookupValue(r)
  BY <1>3 DEF LookupBypassed, LookupFailed, LookupTokens, LookupValue
<1> QED
  BY <1>7, <1>8, <1>9, <1>10 DEF Step

LEMMA RequestStep ==
    ASSUME CacheInv, NEW r \in Reqs,
           Step(r) \/ \E p \in Procs, a \in Asks : Ask(r, p, a)
    PROVE  CacheInv'
<1>1. TypeInv' /\ UNCHANGED <<inv, house, past>>
  BY TypeRequest
<1>2. HouseInv'
  BY <1>1, HouseStays DEF CacheInv
<1> QED
  BY <1>1, <1>2, HitRequest, RedisRequest, LocalRequest DEF CacheInv

-----------------------------------------------------------------------------
(* An insert or a move: the houses hold more, and nobody is told yet.      *)

\* What ClickHouse holds only grows, at the tenant's address and elsewhere.
HouseGrows ==
    /\ addr' \in Nat /\ stamp' = stamp + 1 /\ addr' <= stamp' /\ stamp' <= MaxChanges
    /\ db' \in [0..MaxChanges -> [Tables -> Nat]]
    /\ \A x \in 0..MaxChanges, t \in Tables : db[x][t] <= db'[x][t] /\ db'[x][t] <= stamp'
    /\ \A t \in Tables : db[addr][t] <= db'[addr'][t]

\* The writer now owes an invalidation of what the change is about.
Pends(p, t) ==
    /\ InvType(inv'[p]) /\ inv'[p].stamp = stamp + 1 /\ inv'[p].table = t
    /\ DOMAIN inv' = Procs /\ \A x \in Procs \ {p} : inv'[x] = inv[x]
    /\ \A u \in Tables : t \in {u, None} => db'[addr'][u] = stamp + 1

LEMMA ChangesShape ==
    ASSUME TypeInv, NEW p, NEW keys, NEW t, Changes(p, keys, t)
    PROVE  /\ p \in Procs /\ stamp < MaxChanges /\ stamp' = stamp + 1
           /\ inv' = [inv EXCEPT ![p] = [step |-> "bump", keys |-> keys, table |-> t, stamp |-> stamp + 1]]
           /\ UNCHANGED <<scene, redis, proc, req, past>>
  BY CacheAssumption DEF Changes, CacheAssumption

LEMMA InsertGrows ==
    ASSUME TypeInv, NEW p, NEW t \in Tables, NEW s \in Scene.inserts, Insert(p, t, s)
    PROVE  p \in Procs /\ HouseGrows /\ Pends(p, t) /\ UNCHANGED <<scene, local, redis, proc, req, past>>
<1>1. /\ p \in Procs /\ stamp < MaxChanges /\ stamp' = stamp + 1
      /\ inv' = [inv EXCEPT ![p] = [step |-> "bump", keys |-> BumpKeys(t, s), table |-> t, stamp |-> stamp + 1]]
      /\ db' = [db EXCEPT ![addr][t] = stamp + 1] /\ addr' = addr
      /\ UNCHANGED <<scene, local, redis, proc, req, past>>
  BY ChangesShape DEF Insert
<1>2. s \in AnyScope
  <2>1. \A x \in DOMAIN Scenes : Scenes[x].inserts \subseteq {Whole} \cup Scopes
    <3>1. \A x \in DOMAIN Scenes :
             Scenes[x] \in [backend : {"local", "redis"}, inserts : SUBSET ({Whole} \cup Scopes), moves : Nat,
                            faults : [FaultKind -> Nat]]
      BY CacheAssumption DEF CacheAssumption
    <3> QED
      BY <3>1
  <2> QED
    BY <2>1 DEF TypeInv, Scene, AnyScope
<1>3. BumpKeys(t, s) \subseteq TokenKey
  BY <1>2, BumpReaches
<1>4. \A a \in Asks : a.table = t /\ a.deps # {} => BumpKeys(t, s) \cap TokenKeys(a.deps) # {}
  BY <1>2, BumpReaches
<1>5. HouseGrows
  <2>1. addr \in 0..MaxChanges /\ stamp \in Nat /\ stamp + 1 \in Nat
    BY HoldsNat DEF TypeInv
  <2>2. /\ db' \in [0..MaxChanges -> [Tables -> Nat]]
        /\ \A x \in 0..MaxChanges, u \in Tables :
              db'[x][u] = IF x = addr /\ u = t THEN stamp + 1 ELSE db[x][u]
    <3>1. db \in [0..MaxChanges -> [Tables -> Nat]]
      BY DEF TypeInv
    <3>2. db' = [db EXCEPT ![addr] = [db[addr] EXCEPT ![t] = stamp + 1]]
      BY <1>1
    <3>3. [db[addr] EXCEPT ![t] = stamp + 1] \in [Tables -> Nat]
      BY <2>1, <3>1
    <3> QED
      BY <2>1, <3>1, <3>2, <3>3
  <2>3. \A x \in 0..MaxChanges, u \in Tables : db[x][u] <= db'[x][u] /\ db'[x][u] <= stamp'
    <3>1. \A x \in 0..MaxChanges, u \in Tables : db[x][u] \in Nat /\ db[x][u] <= stamp
      BY DEF TypeInv
    <3> QED
      BY <1>1, <2>1, <2>2, <3>1
  <2>4. addr' \in Nat /\ addr' <= stamp' /\ stamp' <= MaxChanges
    BY <1>1, NumbersAre DEF TypeInv
  <2> QED
    BY <1>1, <2>1, <2>2, <2>3, <2>4 DEF HouseGrows
<1>6. Pends(p, t)
  <2>1. /\ inv'[p] = [step |-> "bump", keys |-> BumpKeys(t, s), table |-> t, stamp |-> stamp + 1]
        /\ DOMAIN inv' = Procs /\ \A x \in Procs \ {p} : inv'[x] = inv[x]
    BY <1>1 DEF TypeInv
  <2>2. t # None /\ stamp + 1 \in Nat
    BY NumbersAre DEF TypeInv
  <2>3. InvType(inv'[p])
    BY <1>3, <1>4, <2>1, <2>2 DEF InvType, Concerns
  <2>4. db'[addr'][t] = stamp + 1
    BY <1>1, HoldsNat DEF TypeInv
  <2> QED
    BY <2>1, <2>2, <2>3, <2>4 DEF Pends
<1> QED
  BY <1>1, <1>5, <1>6

LEMMA MoveGrows ==
    ASSUME TypeInv, NEW p, Move(p)
    PROVE  p \in Procs /\ HouseGrows /\ Pends(p, None) /\ UNCHANGED <<scene, local, redis, proc, req, past>>
<1>1. /\ p \in Procs /\ stamp < MaxChanges /\ stamp' = stamp + 1
      /\ inv' = [inv EXCEPT ![p] = [step |-> "bump", keys |-> {TenantKey}, table |-> None, stamp |-> stamp + 1]]
      /\ db' = [db EXCEPT ![addr + 1] = [t \in Tables |-> stamp + 1]] /\ addr' = addr + 1
      /\ UNCHANGED <<scene, local, redis, proc, req, past>>
  BY ChangesShape DEF Move
<1>2. addr \in 0..MaxChanges /\ addr + 1 \in 0..MaxChanges /\ addr \in Nat /\ stamp \in Nat
  BY <1>1, HoldsNat, NumbersAre DEF TypeInv
<1>3. /\ db'[addr + 1] = [t \in Tables |-> stamp + 1] /\ DOMAIN db' = 0..MaxChanges
      /\ \A x \in 0..MaxChanges : x # addr + 1 => db'[x] = db[x]
  BY <1>1, <1>2 DEF TypeInv
<1>4. HouseGrows
  <2>1. db' \in [0..MaxChanges -> [Tables -> Nat]]
    BY <1>1, <1>2 DEF TypeInv
  <2>2. \A x \in 0..MaxChanges, t \in Tables : db[x][t] <= db'[x][t] /\ db'[x][t] <= stamp'
    BY <1>1, <1>2, <1>3, NumbersAre DEF TypeInv
  <2>3. \A t \in Tables : db[addr][t] <= db'[addr'][t]
    BY <1>1, <1>2, <1>3, NumbersAre DEF TypeInv
  <2> QED
    BY <1>1, <1>2, <2>1, <2>2, <2>3, NumbersAre DEF TypeInv, HouseGrows
<1>5. Pends(p, None)
  <2>1. /\ inv'[p] = [step |-> "bump", keys |-> {TenantKey}, table |-> None, stamp |-> stamp + 1]
        /\ DOMAIN inv' = Procs /\ \A x \in Procs \ {p} : inv'[x] = inv[x]
    BY <1>1 DEF TypeInv
  <2>2. InvType(inv'[p])
    BY <1>2, <2>1, TenantFiled, KeysAre DEF InvType, Concerns
  <2> QED
    BY <1>1, <1>3, <2>1, <2>2 DEF Pends
<1> QED
  BY <1>1, <1>4, <1>5

LEMMA HouseStep ==
    ASSUME CacheInv, NEW p \in Procs, NEW t \in Tables \cup {None}, HouseGrows, Pends(p, t),
           UNCHANGED <<scene, local, redis, proc, req, past>>
    PROVE  CacheInv'
<1> USE DEF CacheInv
<1>1. UNCHANGED <<scene, index, lastGen, kept, token, value, proc, req, sure, told, past>>
  BY DEF local, redis, past
<1>2. backend' = backend
  BY <1>1 DEF backend, Scene
<1>3. TypeInv'
  <2>1. /\ addr' \in Nat /\ stamp' \in Nat /\ addr' <= stamp' /\ stamp' <= MaxChanges
        /\ db' \in [0..MaxChanges -> [Tables -> Nat]]
        /\ \A x \in 0..MaxChanges, u \in Tables : db'[x][u] <= stamp'
    BY DEF TypeInv, HouseGrows
  <2>2. DOMAIN inv' = Procs /\ \A x \in Procs : InvType(inv'[x])
    BY DEF TypeInv, Pends
  <2> QED
    BY <1>1, <2>1, <2>2 DEF TypeInv
<1>4. HouseInv'
  <2> SUFFICES ASSUME NEW u \in Tables
               PROVE  /\ Reflects(db'[addr'][u], sure, u)
                      /\ \A x \in Procs :
                            /\ Reflects(db'[addr'][u], told[x], u)
                            /\ inv'[x].step # "none" /\ inv'[x].table \in {u, None} => inv'[x].stamp <= db'[addr'][u]
    BY <1>1 DEF HouseInv, Reflects
  <2>1. db[addr][u] \in Nat /\ db'[addr'][u] \in Nat /\ db[addr][u] <= db'[addr'][u] /\ stamp + 1 \in Nat
    <3>1. addr \in 0..MaxChanges /\ addr' \in 0..MaxChanges
      <4>1. stamp' \in Nat /\ addr' \in Nat /\ addr' <= stamp' /\ stamp' <= MaxChanges
        BY <1>3 DEF HouseGrows, TypeInv
      <4> QED
        BY <4>1, HoldsNat, NumbersAre
    <3> QED
      BY <3>1 DEF TypeInv, HouseGrows
  <2>2. sure \in History /\ told \in [Procs -> History] /\ \A x \in Procs : inv[x].stamp \in Nat
    BY DEF TypeInv, InvType
  <2>3. /\ Reflects(db'[addr'][u], sure, u)
        /\ \A x \in Procs : Reflects(db'[addr'][u], told[x], u)
    BY <2>1, <2>2 DEF HouseInv, Reflects, History
  <2>4. ASSUME NEW x \in Procs, inv'[x].step # "none", inv'[x].table \in {u, None}
        PROVE  inv'[x].stamp <= db'[addr'][u]
    <3>1. CASE x = p
      BY <2>1, <2>4, <3>1 DEF Pends
    <3>2. CASE x # p
      BY <2>1, <2>2, <2>4, <3>2 DEF Pends, HouseInv
    <3> QED
      BY <3>1, <3>2
  <2> QED
    BY <2>3, <2>4
<1>5. HitInv'
  BY <1>1, FloorStays DEF HitInv, Honest
<1>6. ASSUME NEW s \in Reqs, req[s].pc \in Waiting
      PROVE  Pending(req[s])' \in Int /\ Pending(req[s]) <= Pending(req[s])'
  <2>1. /\ req[s].ask \in Asks /\ req[s].conn \in 0..MaxChanges /\ req[s].data \in Int
    BY <1>6 DEF TypeInv, ReqType, Going
  <2>2. req[s].ask.table \in Tables
    BY <2>1, CacheAssumption DEF CacheAssumption
  <2>3. addr \in 0..MaxChanges /\ addr' \in 0..MaxChanges
    <3>1. stamp' \in Nat /\ addr' \in Nat /\ addr' <= stamp' /\ stamp' <= MaxChanges
      BY <1>3 DEF HouseGrows, TypeInv
    <3> QED
      BY <3>1, HoldsNat, NumbersAre
  <2> DEFINE u == req[s].ask.table
  <2>4. \A x \in 0..MaxChanges : db[x][u] \in Nat /\ db'[x][u] \in Nat /\ db[x][u] <= db'[x][u]
    BY <2>2 DEF HouseGrows, TypeInv
  <2>5. db[addr][u] \in Nat /\ db'[addr'][u] \in Nat /\ db[addr][u] <= db'[addr'][u]
    BY <2>2, <2>3, <2>4 DEF HouseGrows
  <2>6. CASE req[s].pc = "filling"
    BY <1>1, <2>1, <2>6 DEF Pending
  <2>7. CASE req[s].pc = "leading"
    BY <1>1, <2>1, <2>4, <2>7 DEF Pending
  <2>8. CASE req[s].pc \notin {"filling", "leading"}
    BY <1>1, <2>5, <2>8 DEF Pending
  <2> QED
    BY <2>6, <2>7, <2>8
<1>7. \A s \in Reqs : Carries(s) /\ Holds(s)
  BY <1>1, <1>6 DEF Carries, Holds, Waiting, Holding
<1>8. RedisInv'
  BY <1>1, <1>7, RedisStays, TokensStay, FreshFrame DEF RedisInv
<1>9. LocalInv'
  <2> SUFFICES ASSUME backend = "local" PROVE LocalInv'
    BY <1>2 DEF LocalInv
  <2>1. KeysPass
    BY <1>1, KeysFrame
  <2>2. KeptShown' /\ \A s \in Reqs : Shown(req[s])'
    BY <1>1, <1>7, <2>1, KeptStays, ShownStays DEF LocalInv, PendingShown
  <2> QED
    BY <1>1, <2>2 DEF LocalInv, PendingShown, IndexType
<1> QED
  BY <1>3, <1>4, <1>5, <1>8, <1>9

-----------------------------------------------------------------------------
(* An invalidation returns: from here on its change must show.             *)

After(i, h) ==
    IF i.table = None THEN [h EXCEPT !.move = Max2(@, i.stamp)]
    ELSE [h EXCEPT !.t[i.table] = Max2(@, i.stamp)]

LEMMA AfterIs ==
    ASSUME NEW h \in History, NEW i, InvType(i), i.step # "none"
    PROVE  LET g == After(i, h)
           IN  /\ g \in History
               /\ g.move = IF i.table = None THEN Max2(h.move, i.stamp) ELSE h.move
               /\ \A u \in Tables : g.t[u] = IF i.table = u THEN Max2(h.t[u], i.stamp) ELSE h.t[u]
<1>1. i.stamp \in Nat /\ i.table \in Tables \cup {None} /\ h.move \in Nat /\ h.t \in [Tables -> Nat]
  BY DEF InvType, History
<1>2. CASE i.table = None
  <2>1. Max2(h.move, i.stamp) \in Nat
    BY <1>1 DEF Max2
  <2>2. After(i, h) = [h EXCEPT !.move = Max2(h.move, i.stamp)]
    BY <1>2 DEF After
  <2> QED
    BY <1>1, <1>2, <2>1, <2>2, NumbersAre DEF History
<1>3. CASE i.table \in Tables
  <2> DEFINE t == i.table
            f == [h.t EXCEPT ![t] = Max2(h.t[t], i.stamp)]
  <2>1. Max2(h.t[t], i.stamp) \in Nat
    BY <1>1, <1>3 DEF Max2
  <2>2. f \in [Tables -> Nat] /\ \A u \in Tables : f[u] = IF t = u THEN Max2(h.t[u], i.stamp) ELSE h.t[u]
    BY <1>1, <1>3, <2>1
  <2>3. After(i, h) = [h EXCEPT !.t = f]
    BY <1>3, NumbersAre DEF After
  <2> HIDE DEF f
  <2>4. After(i, h) \in History /\ After(i, h).t = f /\ After(i, h).move = h.move
    BY <2>2, <2>3 DEF History
  <2> QED
    BY <1>3, <2>2, <2>4, NumbersAre
<1> QED
  BY <1>1, <1>2, <1>3

LEMMA MaxIs == \A m, n \in Nat : Max2(m, n) \in Nat /\ m <= Max2(m, n) /\ \A x \in Nat : Max2(m, n) <= x <=> m <= x /\ n <= x
  BY DEF Max2

\* The house holds the change already.
LEMMA AfterReflects ==
    ASSUME NEW h \in History, NEW i, InvType(i), i.step # "none", NEW u \in Tables, NEW n \in Nat,
           Reflects(n, h, u), i.table \in {u, None} => i.stamp <= n
    PROVE  Reflects(n, After(i, h), u)
<1>1. i.stamp \in Nat /\ h.move \in Nat /\ h.t[u] \in Nat
  BY DEF InvType, History
<1> DEFINE g == After(i, h)
<1>2. /\ g.move = IF i.table = None THEN Max2(h.move, i.stamp) ELSE h.move
      /\ g.t[u] = IF i.table = u THEN Max2(h.t[u], i.stamp) ELSE h.t[u]
  BY AfterIs
<1>3. Max2(h.move, i.stamp) <= n <=> h.move <= n /\ i.stamp <= n
  BY <1>1, MaxIs
<1>4. Max2(h.t[u], i.stamp) <= n <=> h.t[u] <= n /\ i.stamp <= n
  BY <1>1, MaxIs
<1> HIDE DEF g
<1>5. Reflects(n, g, u)
  BY <1>2, <1>3, <1>4 DEF Reflects
<1> QED
  BY <1>5 DEF g

\* What is to be reflected grows, for the asks the change concerns.
LEMMA FloorAfter ==
    ASSUME NEW s \in History, NEW h \in History, NEW a \in Asks, NEW i, InvType(i), i.step # "none",
           NEW x \in {s, After(i, s)}, NEW y \in {h, After(i, h)}
    PROVE  /\ FloorOf(s, h, a) <= FloorOf(x, y, a)
           /\ ~Concerns(i, a) => FloorOf(x, y, a) = FloorOf(s, h, a)
<1>1. a.table \in Tables /\ i.stamp \in Nat
  BY CacheAssumption DEF CacheAssumption, InvType
<1>2. s.move \in Nat /\ h.move \in Nat /\ s.t[a.table] \in Nat /\ h.t[a.table] \in Nat
  BY <1>1 DEF History
<1>3. ASSUME NEW f \in History, NEW g \in {f, After(i, f)}
      PROVE  /\ g \in History /\ f.move <= g.move /\ f.t[a.table] <= g.t[a.table]
             /\ i.table # None => g.move = f.move
             /\ i.table # a.table => g.t[a.table] = f.t[a.table]
  <2>1. f.move \in Nat /\ f.t[a.table] \in Nat
    BY <1>1 DEF History
  <2>2. CASE g = f
    BY <2>1, <2>2
  <2>3. CASE g = After(i, f)
    <3>1. /\ g \in History
          /\ g.move = IF i.table = None THEN Max2(f.move, i.stamp) ELSE f.move
          /\ g.t[a.table] = IF i.table = a.table THEN Max2(f.t[a.table], i.stamp) ELSE f.t[a.table]
      BY <1>1, <2>3, AfterIs
    <3>2. f.move <= Max2(f.move, i.stamp) /\ f.t[a.table] <= Max2(f.t[a.table], i.stamp)
      BY <1>1, <2>1, MaxIs
    <3> QED
      BY <2>1, <3>1, <3>2
  <2> QED
    BY <2>2, <2>3
<1>4. /\ x \in History /\ s.move <= x.move /\ s.t[a.table] <= x.t[a.table]
      /\ i.table # None => x.move = s.move
      /\ i.table # a.table => x.t[a.table] = s.t[a.table]
  BY <1>3
<1>8. /\ y \in History /\ h.move <= y.move /\ h.t[a.table] <= y.t[a.table]
      /\ i.table # None => y.move = h.move
      /\ i.table # a.table => y.t[a.table] = h.t[a.table]
  BY <1>3
<1>5. x.move \in Nat /\ y.move \in Nat /\ x.t[a.table] \in Nat /\ y.t[a.table] \in Nat
  BY <1>1, <1>4, <1>8 DEF History
<1>6. FloorOf(s, h, a) <= FloorOf(x, y, a)
  BY <1>2, <1>4, <1>5, <1>8 DEF FloorOf, Max2
<1>7. ~Concerns(i, a) => FloorOf(x, y, a) = FloorOf(s, h, a)
  BY <1>4, <1>8 DEF Concerns, FloorOf
<1> QED
  BY <1>6, <1>7

\* What every invalidation does, once it has returned.
Returns(p, acked) ==
    /\ sure' \in History /\ told' \in [Procs -> History]
    /\ DOMAIN inv' = Procs /\ \A x \in Procs : InvType(inv'[x])
    /\ HouseInv'
    /\ \A q \in Procs, a \in Asks :
          /\ Floor(q, a) <= Floor(q, a)'
          /\ ~Concerns(inv[p], a) \/ (q # p /\ ~acked) => Floor(q, a)' = Floor(q, a)

LEMMA ReturnShape ==
    ASSUME TypeInv, HouseInv, NEW p \in Procs, NEW acked, inv[p].step = "bump", Returned(p, acked), UNCHANGED house
    PROVE  Returns(p, acked)
<1> DEFINE i == inv[p]
<1>1. /\ inv' = [inv EXCEPT ![p] = Nothing]
      /\ told' = [told EXCEPT ![p] = After(i, told[p])]
      /\ sure' = IF acked THEN After(i, sure) ELSE sure
  BY DEF Returned, After
<1>2. InvType(i) /\ i.step # "none"
  BY DEF TypeInv
<1>3. sure \in History /\ told \in [Procs -> History]
  BY DEF TypeInv
<1>4. sure' \in History /\ told' \in [Procs -> History]
  BY <1>1, <1>2, <1>3, AfterIs
<1>5. InvType(Nothing) /\ Nothing.step = "none"
  BY DEF InvType, Nothing
<1>6. DOMAIN inv' = Procs /\ \A x \in Procs : InvType(inv'[x]) /\ (inv'[x].step # "none" => inv'[x] = inv[x])
  BY <1>1, <1>5 DEF TypeInv
<1>7. HouseInv'
  <2> SUFFICES ASSUME NEW u \in Tables
               PROVE  /\ Reflects(db[addr][u], sure', u)
                      /\ \A x \in Procs :
                            /\ Reflects(db[addr][u], told'[x], u)
                            /\ inv'[x].step # "none" /\ inv'[x].table \in {u, None} => inv'[x].stamp <= db[addr][u]
    BY DEF HouseInv, house, Reflects
  <2>1. db[addr][u] \in Nat
    BY HoldsNat DEF TypeInv
  <2>2. Reflects(db[addr][u], sure, u) /\ \A x \in Procs : Reflects(db[addr][u], told[x], u)
    BY DEF HouseInv
  <2>3. i.table \in {u, None} => i.stamp <= db[addr][u]
    BY <1>2 DEF HouseInv
  <2>4. Reflects(db[addr][u], sure', u)
    BY <1>1, <1>2, <1>3, <2>1, <2>2, <2>3, AfterReflects
  <2>5. \A x \in Procs : Reflects(db[addr][u], told'[x], u)
    <3>1. Reflects(db[addr][u], After(i, told[p]), u)
      BY <1>2, <1>3, <2>1, <2>2, <2>3, AfterReflects
    <3> QED
      BY <1>1, <1>3, <2>2, <3>1
  <2> QED
    BY <1>6, <2>4, <2>5 DEF HouseInv
<1>8. ASSUME NEW q \in Procs, NEW a \in Asks
      PROVE  /\ Floor(q, a) <= Floor(q, a)'
             /\ ~Concerns(i, a) \/ (q # p /\ ~acked) => Floor(q, a)' = Floor(q, a)
  <2>1. Floor(q, a) = FloorOf(sure, told[q], a)
    BY FloorIs
  <2>2. Floor(q, a)' = FloorOf(sure', told'[q], a)
    BY WholeTable DEF Floor, FloorOf
  <2>3. sure' \in {sure, After(i, sure)} /\ told'[q] \in {told[q], After(i, told[q])}
    BY <1>1, <1>3
  <2>4. q # p /\ ~acked => sure' = sure /\ told'[q] = told[q]
    BY <1>1, <1>3
  <2> QED
    BY <1>2, <1>3, <2>1, <2>2, <2>3, <2>4, FloorAfter
<1> QED
  BY <1>4, <1>6, <1>7, <1>8 DEF Returns

-----------------------------------------------------------------------------
(* The invalidations.                                                      *)

LEMMA SentMoves ==
    ASSUME FiledInv, NEW took, Sent(took)
    PROVE  TokensMove /\ value' = value /\ \A k \in took \cap TokenKey : token'[k] # token[k]
<1>1. \A k \in TokenKey : Nonce(k) \in Nat \ {0} /\ Nonce(k) \notin Named(k) /\ token[k] \in Named(k)
  BY NamedFinite, NonceNew DEF FiledInv, Named
<1>2. token' = [k \in TokenKey |-> IF k \in took THEN Nonce(k) ELSE token[k]] /\ value' = value
  BY DEF Sent
<1> QED
  BY <1>1, <1>2 DEF FiledInv, TokensMove

\* The tokens of the ask all stay: none of the change's were taken.
LEMMA FreshReturned ==
    ASSUME CacheInv, NEW p \in Procs, NEW took, NEW left, NEW acked,
           inv[p].step = "bump", Returns(p, acked),
           inv[p].keys \ took \subseteq left, acked => inv[p].keys \subseteq took,
           \A k \in took \cap TokenKey : token'[k] # token[k],
           NEW d, Same(proc[p], d), proc' = [proc EXCEPT ![p] = Owing(d, left)]
    PROVE  FreshStays
<1> DEFINE i == inv[p]
<1> USE DEF CacheInv
<1> SUFFICES ASSUME NEW a \in Asks, AllStay(a), NEW n \in Int, Fresh(n, a), NEW q \in Procs
             PROVE  Floor(q, a)' <= n \/ Due(proc'[q], a)
  BY DEF FreshStays, Fresh, Due
<1>1. TenantKey \in TokenKeys(a.deps) /\ TokenKeys(a.deps) \subseteq TokenKey
  BY TenantFiled
<1>2. took \cap TokenKeys(a.deps) = {}
  BY <1>1 DEF AllStay
<1>3. Concerns(i, a) => i.keys \cap TokenKeys(a.deps) # {}
  BY DEF TypeInv, InvType
<1>4. Floor(q, a) <= n \/ Due(proc[q], a)
  BY DEF Fresh
<1>5. CASE q = p
  <2>1. proc'[q] = Owing(d, left) /\ Done(d) = Done(proc[p]) /\ ClientType(d)
    BY <1>5 DEF TypeInv, Same, Done
  <2>2. CASE Due(proc[p], a) \/ Concerns(i, a)
    <3>1. left \cap TokenKeys(a.deps) # {} \/ Done(d) \cap TokenKeys(a.deps) # {}
      BY <1>2, <1>3, <2>1, <2>2 DEF Due
    <3> QED
      BY <1>1, <2>1, <3>1, OwingDue DEF Due
  <2>3. CASE ~Due(proc[p], a) /\ ~Concerns(i, a)
    BY <1>4, <1>5, <2>3 DEF Returns
  <2> QED
    BY <2>2, <2>3
<1>6. CASE q # p
  <2>1. proc'[q] = proc[q]
    BY <1>6 DEF TypeInv
  <2>2. ~Concerns(i, a) \/ ~acked
    BY <1>2, <1>3
  <2> QED
    BY <1>4, <1>6, <2>1, <2>2 DEF Returns
<1> QED
  BY <1>5, <1>6

\* What is left once the floors have grown.
LEMMA HitReturned ==
    ASSUME CacheInv, NEW p \in Procs, NEW acked, Returns(p, acked), req' = req
    PROVE  HitInv'
<1> SUFFICES ASSUME NEW r \in Reqs PROVE Honest(req[r])'
  BY DEF HitInv
<1>1. Honest(req[r]) /\ ReqType(req[r])
  BY DEF CacheInv, HitInv, TypeInv
<1>2. ASSUME req[r].pc \in {"looking", "reading"}
      PROVE  req[r].since <= Floor(req[r].at, req[r].ask)'
  <2>1. PICK q \in Procs : q = req[r].at
    BY <1>1, <1>2 DEF ReqType, Going, Waiting
  <2>2. PICK a \in Asks : a = req[r].ask
    BY <1>1, <1>2 DEF ReqType, Going, Waiting
  <2>3. Floor(q, a) <= Floor(q, a)'
    BY DEF Returns
  <2>4. Floor(q, a) \in Int
    BY FloorBelow DEF CacheInv
  <2>5. Floor(q, a)' \in Int
    <3>1. Floor(q, a)' = FloorOf(sure', told'[q], a)
      BY WholeTable DEF Floor, FloorOf
    <3> QED
      BY <3>1, FloorMeans DEF Returns
  <2>6. req[r].since <= Floor(q, a)'
    BY <1>1, <1>2, <2>1, <2>2, <2>3, <2>4, <2>5 DEF Honest, ReqType
  <2> QED
    BY <2>1, <2>2, <2>6
<1> QED
  BY <1>1, <1>2 DEF Honest

LEMMA TypeReturned ==
    ASSUME TypeInv, NEW p \in Procs, NEW acked, Returns(p, acked), UNCHANGED <<scene, req, house>>,
           DOMAIN proc' = Procs, \A x \in Procs : ClientType(proc'[x])
    PROVE  TypeInv'
  BY DEF TypeInv, Returns, house

LEMMA InvalidateRedisStep ==
    ASSUME CacheInv, NEW p \in Procs, NEW took, NEW acked, took \subseteq inv[p].keys, acked \subseteq took,
           InvalidateRedis(p, took, acked)
    PROVE  CacheInv'
<1> DEFINE i == inv[p]
          left == i.keys \ acked
          all == acked = i.keys
<1> USE DEF CacheInv
<1>1. /\ backend = "redis" /\ i.step = "bump" /\ Sent(took) /\ Returned(p, all)
      /\ UNCHANGED <<scene, local, req, house>>
  BY DEF InvalidateRedis
<1>2. PICK d \in Recorded(proc[p], all) : Client_(p, Owing(d, left))
  BY DEF InvalidateRedis
<1>3. Same(proc[p], d)
  BY <1>2, RecordedSame DEF TypeInv
<1>4. proc' = [proc EXCEPT ![p] = Owing(d, left)]
  BY <1>2 DEF Client_
<1>5. Returns(p, all)
  BY <1>1, ReturnShape
<1>6. FiledInv
  BY <1>1 DEF RedisInv
<1>7. TokensMove /\ value' = value /\ \A k \in took \cap TokenKey : token'[k] # token[k]
  BY <1>1, <1>6, SentMoves
<1>8. FreshStays
  <2>1. i.keys \ took \subseteq left /\ (all => i.keys \subseteq took)
    OBVIOUS
  <2> HIDE DEF left, all
  <2> QED
    BY <1>1, <1>3, <1>4, <1>5, <1>7, <2>1, FreshReturned
<1>9. \A s \in Reqs : Carries(s)
  BY <1>1, CarriesOther
<1>10. RedisInv'
  BY <1>1, <1>7, <1>8, <1>9, RedisStays
<1>11. DOMAIN proc' = Procs /\ \A x \in Procs : ClientType(proc'[x])
  BY <1>3, <1>4, OwingType DEF TypeInv, Same
<1>12. TypeInv'
  BY <1>1, <1>5, <1>11, TypeReturned
<1>13. HitInv'
  BY <1>1, <1>5, HitReturned
<1>14. LocalInv'
  BY <1>1 DEF LocalInv, backend, Scene
<1> QED
  BY <1>5, <1>10, <1>12, <1>13, <1>14 DEF Returns

LEMMA InvalidateDeferredStep ==
    ASSUME CacheInv, NEW p \in Procs, InvalidateDeferred(p)
    PROVE  CacheInv'
<1> DEFINE i == inv[p]
<1> USE DEF CacheInv
<1>1. /\ backend = "redis" /\ i.step = "bump" /\ Returned(p, FALSE) /\ Client_(p, Owing(proc[p], i.keys))
      /\ UNCHANGED <<scene, local, redis, req, house>>
  BY DEF InvalidateDeferred
<1>2. Same(proc[p], proc[p])
  BY DEF TypeInv, Same
<1>3. proc' = [proc EXCEPT ![p] = Owing(proc[p], i.keys)]
  BY <1>1 DEF Client_
<1>4. Returns(p, FALSE)
  BY <1>1, ReturnShape
<1>5. FiledInv
  BY <1>1 DEF RedisInv
<1>6. TokensMove /\ value' = value
  BY <1>1, <1>5, TokensStay DEF redis
<1>7. FreshStays
  <2>1. i.keys \ {} \subseteq i.keys /\ \A k \in {} \cap TokenKey : token'[k] # token[k]
    OBVIOUS
  <2> QED
    BY <1>1, <1>2, <1>3, <1>4, <2>1, FreshReturned
<1>8. \A s \in Reqs : Carries(s)
  BY <1>1, CarriesOther
<1>9. RedisInv'
  BY <1>1, <1>6, <1>7, <1>8, RedisStays
<1>10. DOMAIN proc' = Procs /\ \A x \in Procs : ClientType(proc'[x])
  BY <1>2, <1>3, OwingType DEF TypeInv, Same
<1>11. TypeInv'
  BY <1>1, <1>4, <1>10, TypeReturned
<1>12. HitInv'
  BY <1>1, <1>4, HitReturned
<1>13. LocalInv'
  BY <1>1 DEF LocalInv, backend, Scene
<1> QED
  BY <1>4, <1>9, <1>11, <1>12, <1>13 DEF Returns

\* Without an index no key is current.
LEMMA NoIndexPasses ==
    ASSUME IndexType, index' = NoIndex, lastGen' = lastGen
    PROVE  IndexType' /\ KeysPass
<1>1. index'.gen = 0 /\ IndexType'
  BY KeysAre DEF NoIndex, IndexType
<1>2. ASSUME NEW a \in Asks, NEW key, Passed(key, a) PROVE Passed(key, a)' /\ key # QueryKey(index', a)
  BY <1>1, <1>2, KeyIs DEF Passed
<1> QED
  BY <1>1, <1>2 DEF KeysPass

\* A bump of a table, or of a scope of it, moves the whole table's versions on.
LEMMA BumpedIs ==
    ASSUME IndexType, index.gen # 0, NEW t \in Tables, NEW s
    PROVE  LET ix == Bumped(index, t, s)
           IN  /\ ix \in [gen : Nat, table : [Tables -> Nat], scope : [Tables -> [AnyScope -> Nat]]]
               /\ ix.gen = index.gen
               /\ \A u \in Tables \ {t} : ix.table[u] = index.table[u] /\ ix.scope[u] = index.scope[u]
               /\ \/ ix.table[t] = index.table[t] + 1
                  \/ ix.table[t] = index.table[t] /\ ix.scope[t][Whole] = index.scope[t][Whole] + 1
<1> DEFINE g == index.scope[t]
<1>1. index \in [gen : Nat, table : [Tables -> Nat], scope : [Tables -> [AnyScope -> Nat]]] /\ g \in [AnyScope -> Nat]
  BY DEF IndexType
<1>2. CASE s = Whole
  <2> DEFINE f == [index.table EXCEPT ![t] = index.table[t] + 1]
            z == [x \in AnyScope |-> 0]
            h == [index.scope EXCEPT ![t] = z]
  <2>1. Bumped(index, t, s) = [index EXCEPT !.table = f, !.scope = h]
    BY <1>2 DEF Bumped
  <2>2. f \in [Tables -> Nat] /\ f[t] = index.table[t] + 1 /\ \A u \in Tables \ {t} : f[u] = index.table[u]
    BY <1>1
  <2>3. z \in [AnyScope -> Nat]
    OBVIOUS
  <2>4. h \in [Tables -> [AnyScope -> Nat]] /\ \A u \in Tables \ {t} : h[u] = index.scope[u]
    <3> HIDE DEF z
    <3> QED
      BY <1>1, <2>3
  <2> HIDE DEF f, h
  <2> QED
    BY <1>1, <2>1, <2>2, <2>4
<1>3. CASE s # Whole
  <2> DEFINE z == [x \in AnyScope |-> IF x \in {s, Whole} THEN g[x] + 1 ELSE g[x]]
            h == [index.scope EXCEPT ![t] = z]
  <2>1. Bumped(index, t, s) = [index EXCEPT !.scope = h]
    BY <1>3 DEF Bumped
  <2>2. z \in [AnyScope -> Nat] /\ z[Whole] = g[Whole] + 1
    BY <1>1, KeysAre
  <2>3. h \in [Tables -> [AnyScope -> Nat]] /\ h[t] = z /\ \A u \in Tables \ {t} : h[u] = index.scope[u]
    <3> HIDE DEF z
    <3> QED
      BY <1>1, <2>2
  <2> HIDE DEF z, h
  <2> QED
    BY <1>1, <2>1, <2>2, <2>3
<1> QED
  BY <1>2, <1>3

LEMMA BumpPasses ==
    ASSUME TypeInv, IndexType, NEW p \in Procs, NEW acked, Returns(p, acked), inv[p].table \in Tables, NEW s,
           index.gen # 0, index' = Bumped(index, inv[p].table, s), lastGen' = lastGen
    PROVE  IndexType' /\ KeysPass
<1> DEFINE i == inv[p]
          t == i.table
<1>1. /\ index' \in [gen : Nat, table : [Tables -> Nat], scope : [Tables -> [AnyScope -> Nat]]]
      /\ index'.gen = index.gen
      /\ \A u \in Tables \ {t} : index'.table[u] = index.table[u] /\ index'.scope[u] = index.scope[u]
      /\ \/ index'.table[t] = index.table[t] + 1
         \/ index'.table[t] = index.table[t] /\ index'.scope[t][Whole] = index.scope[t][Whole] + 1
  BY BumpedIs
<1>2. IndexType'
  BY <1>1 DEF IndexType
<1>3. t # None
  BY NumbersAre
<1> SUFFICES ASSUME NEW a \in Asks, NEW key, Passed(key, a)
             PROVE  /\ Passed(key, a)'
                    /\ key = QueryKey(index', a) =>
                          key = QueryKey(index, a) /\ \A n \in Int : Shows(n, a) => Shows(n, a)'
  BY <1>2 DEF KeysPass
<1>4. a.table \in Tables /\ Whole \in AnyScope
  BY CacheAssumption, KeysAre DEF CacheAssumption
<1>5. /\ index.table[a.table] \in Nat /\ index'.table[a.table] \in Nat
      /\ index.scope[a.table][Whole] \in Nat /\ index'.scope[a.table][Whole] \in Nat
  BY <1>1, <1>4 DEF IndexType
<1> DEFINE v == key.deps[<<a.table, Whole>>]
<1>6. ASSUME NotAfter(v, index.table[a.table], index.scope[a.table][Whole])
      PROVE  NotAfter(v, index'.table[a.table], index'.scope[a.table][Whole])
  <2> HIDE DEF v
  <2>1. CASE a.table = t
    BY <1>1, <1>5, <1>6, <2>1 DEF NotAfter
  <2>2. CASE a.table # t
    BY <1>1, <1>4, <1>6, <2>2
  <2> QED
    BY <2>1, <2>2
<1>7. Passed(key, a)'
  BY <1>1, <1>6 DEF Passed
<1>8. CASE a.table = t /\ a.deps # {}
  <2> SUFFICES ASSUME key = QueryKey(index', a) PROVE FALSE
    BY <1>7
  <2>1. v[1] = index'.table[t] /\ v[2] = index'.scope[t][Whole]
    BY <1>8, KeyDeps
  <2>2. NotAfter(v, index.table[t], index.scope[t][Whole])
    BY <1>1, <1>8, KeyIs DEF Passed
  <2>3. v[1] = index.table[t] + 1 \/ (v[1] = index.table[t] /\ v[2] = index.scope[t][Whole] + 1)
    BY <1>1, <2>1
  <2>4. index.table[t] \in Nat /\ index.scope[t][Whole] \in Nat
    BY <1>5, <1>8
  <2> HIDE DEF v, t
  <2> QED
    BY <2>2, <2>3, <2>4 DEF NotAfter
<1>9. CASE a.table # t \/ a.deps = {}
  <2>1. QueryKey(index', a) = QueryKey(index, a)
    <3>1. \A d \in a.deps : d[1] = a.table /\ a.table # t
      BY <1>9, CacheAssumption DEF CacheAssumption
    <3>2. \A d \in a.deps : index'.table[d[1]] = index.table[d[1]] /\ index'.scope[d[1]] = index.scope[d[1]]
      BY <1>1, <1>4, <3>1
    <3> QED
      BY <1>1, <3>2 DEF QueryKey
  <2>2. ~Concerns(i, a)
    BY <1>3, <1>9 DEF Concerns
  <2>3. \A n \in Int : Shows(n, a) => Shows(n, a)'
    BY <2>2 DEF Shows, Returns
  <2> QED
    BY <1>7, <2>1, <2>3
<1> QED
  BY <1>8, <1>9

\* The index is all that moved.
LEMMA LocalMoves ==
    ASSUME CacheInv, backend = "local", IndexType', KeysPass, kept' = kept, req' = req,
           UNCHANGED <<scene, house>>, \A x \in Procs : proc'[x].owed = {}
    PROVE  LocalInv'
<1> USE DEF CacheInv
<1>1. KeptShown /\ PendingShown /\ \A s \in Reqs : req[s].pc # "reading"
  BY DEF LocalInv
<1>2. KeptShown'
  BY <1>1, KeptStays
<1>3. \A s \in Reqs : Shown(req[s])'
  BY <1>1, HoldsOther, ShownStays DEF PendingShown
<1> QED
  BY <1>1, <1>2, <1>3 DEF LocalInv, PendingShown

LEMMA InvalidateLocalStep ==
    ASSUME CacheInv, NEW p \in Procs, InvalidateLocal(p)
    PROVE  CacheInv'
<1> DEFINE i == inv[p]
          s == CHOOSE x \in {y \in AnyScope : i.keys = BumpKeys(i.table, y)} : TRUE
<1> USE DEF CacheInv
<1>1. /\ backend = "local" /\ i.step = "bump" /\ Returned(p, TRUE)
      /\ index' = IF i.table = None THEN NoIndex ELSE Bumped(index, i.table, s)
      /\ UNCHANGED <<scene, lastGen, kept, redis, proc, req, house>>
  BY DEF InvalidateLocal, Dropped
<1>2. Returns(p, TRUE)
  BY <1>1, ReturnShape
<1>3. IndexType
  BY <1>1 DEF LocalInv
<1>4. i.table \in Tables \cup {None}
  BY <1>1 DEF TypeInv, InvType
<1> HIDE DEF s
<1>5. IndexType' /\ KeysPass
  <2>1. CASE i.table = None
    BY <1>1, <1>3, <2>1, NoIndexPasses
  <2>2. CASE i.table # None /\ index.gen # 0
    BY <1>1, <1>2, <1>3, <1>4, <2>2, BumpPasses
  <2>3. CASE i.table # None /\ index.gen = 0
    <3>1. index' = index
      BY <1>1, <2>3 DEF Bumped
    <3>2. ASSUME NEW a \in Asks, NEW key, Passed(key, a) PROVE Passed(key, a)' /\ key # QueryKey(index', a)
      BY <1>1, <2>3, <3>1, <3>2, KeyIs DEF Passed
    <3> QED
      BY <1>1, <1>3, <3>1, <3>2 DEF KeysPass, IndexType
  <2> QED
    BY <2>1, <2>2, <2>3
<1>6. LocalInv'
  BY <1>1, <1>5, LocalMoves DEF LocalInv
<1>7. TypeInv'
  BY <1>1, <1>2, TypeReturned DEF TypeInv
<1>8. HitInv'
  BY <1>1, <1>2, HitReturned
<1>9. RedisInv'
  BY <1>1 DEF RedisInv, backend, Scene
<1> QED
  BY <1>2, <1>6, <1>7, <1>8, <1>9 DEF Returns

-----------------------------------------------------------------------------
(* The drain, the breaker, the server and the pruning.                     *)

\* A step that touches no request, house or floor.
LEMMA QuietStep ==
    ASSUME CacheInv, UNCHANGED <<scene, local, value, req, inv, house, past>>,
           DOMAIN proc' = Procs, \A x \in Procs : ClientType(proc'[x]),
           backend = "redis" => TokensMove /\ FreshStays,
           backend = "local" => \A x \in Procs : proc'[x].owed = {}
    PROVE  CacheInv'
<1> USE DEF CacheInv
<1>1. TypeInv'
  BY DEF TypeInv, house, past
<1>2. HouseInv'
  BY HouseStays
<1>3. HitInv'
  BY FloorStays DEF HitInv, Honest
<1>4. RedisInv'
  BY CarriesOther, RedisStays
<1>5. LocalInv'
  <2>1. CASE backend = "local"
    <3>1. IndexType' /\ KeysPass
      BY <2>1, KeysFrame DEF local, LocalInv, IndexType
    <3> QED
      BY <2>1, <3>1, LocalMoves DEF local
  <2>2. CASE backend # "local"
    BY <2>2 DEF LocalInv, backend, Scene
  <2> QED
    BY <2>1, <2>2
<1> QED
  BY <1>1, <1>2, <1>3, <1>4, <1>5

\* What a drain lands was replaced: an ask whose tokens all stay is owed still.
LEMMA DrainSentStep ==
    ASSUME CacheInv, NEW p \in Procs, NEW took, NEW acked, acked \subseteq took, DrainSent(p, took, acked)
    PROVE  CacheInv'
<1> DEFINE c == proc[p]
          ok == acked = c.owed
<1> USE DEF CacheInv
<1>1. c.owed # {} /\ c.landed = {} /\ Sent(took) /\ UNCHANGED <<scene, local, req, inv, house, past>>
  BY DEF DrainSent
<1>2. PICK d \in Recorded(c, ok) : Client_(p, [d EXCEPT !.landed = acked])
  BY DEF DrainSent
<1>3. Same(c, d)
  BY <1>2, RecordedSame DEF TypeInv
<1> DEFINE e == [d EXCEPT !.landed = acked]
<1>4. ClientType(e) /\ e.owed = c.owed /\ e.landed = acked
  BY <1>3 DEF Same, ClientType
<1>5. proc' = [proc EXCEPT ![p] = e]
  BY <1>2 DEF Client_
<1> HIDE DEF e
<1>6. /\ DOMAIN proc' = Procs /\ proc'[p] = e /\ \A x \in Procs \ {p} : proc'[x] = proc[x]
      /\ \A x \in Procs : ClientType(proc'[x])
  BY <1>4, <1>5 DEF TypeInv
<1>7. backend = "redis"
  BY <1>1, BackendIs DEF LocalInv
<1>8. TokensMove /\ value' = value /\ \A k \in took \cap TokenKey : token'[k] # token[k]
  BY <1>1, <1>7, SentMoves DEF RedisInv
<1>9. FreshStays
  <2> SUFFICES ASSUME NEW a \in Asks, AllStay(a), NEW n \in Int, Fresh(n, a), NEW q \in Procs
               PROVE  Floor(q, a)' <= n \/ Due(proc'[q], a)
    BY DEF FreshStays, Fresh, Due
  <2>1. TokenKeys(a.deps) \subseteq TokenKey
    BY TenantFiled
  <2>2. took \cap TokenKeys(a.deps) = {}
    BY <1>8, <2>1 DEF AllStay
  <2>3. Floor(q, a)' = Floor(q, a)
    BY <1>1, FloorStays
  <2>4. Due(c, a) => Due(e, a)
    <3>1. \A k \in Done(c) : k \notin took => k \in Done(e)
      BY <1>1, <1>4 DEF Done
    <3> QED
      BY <2>2, <3>1 DEF Due
  <2>5. Due(proc[q], a) => Due(proc'[q], a)
    BY <1>6, <2>4
  <2> QED
    BY <2>3, <2>5 DEF Fresh
<1> QED
  BY <1>1, <1>6, <1>7, <1>8, <1>9, QuietStep

LEMMA ClientStep ==
    ASSUME CacheInv, NEW p \in Procs, DrainDone(p) \/ StartProbe(p) \/ Probe(p)
    PROVE  CacheInv'
<1> USE DEF CacheInv
<1>1. UNCHANGED <<scene, local, redis, req, inv, house, past>>
  BY DEF DrainDone, StartProbe, Probe
<1>2. ASSUME NEW d, ClientType(d), Done(d) = Done(proc[p]), d.owed \subseteq proc[p].owed, Client_(p, d)
      PROVE  CacheInv'
  <2>1. /\ DOMAIN proc' = Procs /\ \A x \in Procs : ClientType(proc'[x])
        /\ \A x \in Procs : Done(proc'[x]) = Done(proc[x]) /\ proc'[x].owed \subseteq proc[x].owed
    BY <1>2 DEF Client_, TypeInv
  <2>2. FreshStays
    BY <1>1, <2>1, FreshFrame
  <2>3. backend = "redis" => TokensMove
    BY <1>1, TokensStay DEF redis, RedisInv
  <2>4. backend = "local" => \A x \in Procs : proc'[x].owed = {}
    BY <2>1 DEF LocalInv
  <2> QED
    BY <1>1, <2>1, <2>2, <2>3, <2>4, QuietStep DEF redis
<1>3. ClientType(proc[p])
  BY DEF TypeInv
<1>4. CASE DrainDone(p)
  <2> DEFINE d == [proc[p] EXCEPT !.owed = Done(proc[p]), !.landed = {}, !.since = {}]
  <2>1. Client_(p, d)
    BY <1>4 DEF DrainDone
  <2>2. ClientType(d) /\ d.owed = Done(proc[p]) /\ d.landed = {}
    BY <1>3 DEF ClientType
  <2> HIDE DEF d
  <2>3. Done(d) = Done(proc[p]) /\ d.owed \subseteq proc[p].owed
    BY <2>2 DEF Done
  <2> QED
    BY <1>2, <2>1, <2>2, <2>3
<1>5. CASE StartProbe(p)
  <2> DEFINE d == [proc[p] EXCEPT !.probing = TRUE]
  <2>1. Client_(p, d)
    BY <1>5 DEF StartProbe
  <2>2. Same(proc[p], d)
    BY <1>3 DEF ClientType, Same
  <2> QED
    BY <1>2, <2>1, <2>2 DEF Same, Done
<1>6. CASE Probe(p)
  <2>1. PICK d \in Recorded(proc[p], server = "up") : Client_(p, d)
    BY <1>6 DEF Probe, Called
  <2>2. Same(proc[p], d)
    BY <1>3, <2>1, RecordedSame
  <2> QED
    BY <1>2, <2>1, <2>2 DEF Same, Done
<1> QED
  BY <1>4, <1>5, <1>6

LEMMA WorldStep ==
    ASSUME CacheInv, ServerFails \/ ServerBack \/ Prune \/ \E k \in TokenKey : TokenLost(k)
    PROVE  CacheInv'
<1> USE DEF CacheInv
<1>1. CASE ServerFails \/ ServerBack \/ \E k \in TokenKey : TokenLost(k)
  <2>1. UNCHANGED <<scene, local, value, proc, req, inv, house, past>>
    BY <1>1 DEF ServerFails, ServerBack, TokenLost
  <2>2. token' = token \/ \E k \in TokenKey : token' = [token EXCEPT ![k] = 0]
    BY <1>1 DEF ServerFails, ServerBack, TokenLost
  <2>3. backend = "redis" => TokensMove
    BY <2>2 DEF RedisInv, FiledInv, TokensMove
  <2>4. FreshStays
    BY <2>1, FreshFrame
  <2>5. /\ DOMAIN proc' = Procs /\ \A x \in Procs : ClientType(proc'[x])
        /\ backend = "local" => \A x \in Procs : proc'[x].owed = {}
    BY <2>1 DEF TypeInv, LocalInv
  <2> QED
    BY <2>1, <2>3, <2>4, <2>5, QuietStep
<1>2. CASE Prune
  <2>1. /\ backend = "local" /\ index' = NoIndex
        /\ UNCHANGED <<scene, lastGen, kept, redis, proc, req, inv, house, past>>
    BY <1>2 DEF Prune
  <2>2. IndexType' /\ KeysPass
    BY <2>1, NoIndexPasses DEF LocalInv
  <2>3. LocalInv'
    BY <2>1, <2>2, LocalMoves DEF LocalInv
  <2>4. TypeInv'
    BY <2>1 DEF TypeInv, house, past
  <2>5. HouseInv'
    BY <2>1, HouseStays
  <2>6. HitInv'
    BY <2>1, FloorStays DEF HitInv, Honest
  <2>7. RedisInv'
    BY <2>1 DEF RedisInv, backend, Scene
  <2> QED
    BY <2>3, <2>4, <2>5, <2>6, <2>7
<1> QED
  BY <1>1, <1>2

-----------------------------------------------------------------------------
(* The theorems.                                                           *)

LEMMA InitHolds == Init => CacheInv
<1> SUFFICES ASSUME Init PROVE CacheInv
  OBVIOUS
<1>1. /\ \A r \in Reqs : req[r] = Idle
      /\ \A p \in Procs : proc[p] = Client /\ inv[p] = Nothing
      /\ DOMAIN req = Reqs /\ DOMAIN proc = Procs /\ DOMAIN inv = Procs
      /\ db = [a \in 0..MaxChanges |-> Zero] /\ addr = 0 /\ stamp = 0
      /\ sure = [move |-> 0, t |-> Zero] /\ \A p \in Procs : told[p] = sure
      /\ told \in [Procs -> {sure}]
      /\ scene \in DOMAIN Scenes /\ index = NoIndex /\ lastGen = 0 /\ kept = <<>> /\ value = <<>>
      /\ token = [k \in TokenKey |-> 0]
  BY DEF Init
<1>2. Zero \in [Tables -> Nat] /\ \A t \in Tables : Zero[t] = 0
  BY DEF Zero
<1>3. sure \in History /\ sure.move = 0 /\ sure.t = Zero
  BY <1>1, <1>2 DEF History
<1>4. ClientType(Client) /\ Client.owed = {}
  BY DEF ClientType, Client
<1>5. InvType(Nothing) /\ Nothing.step = "none"
  BY DEF InvType, Nothing
<1>6. TypeInv
  <2>1. db \in [0..MaxChanges -> [Tables -> Nat]] /\ \A x \in 0..MaxChanges, t \in Tables : db[x][t] = 0
    BY <1>1, <1>2
  <2>2. told \in [Procs -> History]
    BY <1>1, <1>3
  <2>3. /\ addr \in Nat /\ stamp \in Nat /\ addr <= stamp /\ stamp <= MaxChanges
        /\ \A x \in 0..MaxChanges, t \in Tables : db[x][t] <= stamp
    <3>1. addr = 0 /\ stamp = 0
      BY <1>1
    <3> QED
      BY <2>1, <3>1, NumbersAre
  <2>4. \A r \in Reqs : ReqType(req[r])
    BY <1>1, GoneIs
  <2>5. \A p \in Procs : ClientType(proc[p]) /\ InvType(inv[p])
    BY <1>1, <1>4, <1>5
  <2>6. scene \in DOMAIN Scenes /\ DOMAIN req = Reqs /\ DOMAIN inv = Procs /\ DOMAIN proc = Procs
    BY <1>1
  <2>7. sure \in History /\ db \in [0..MaxChanges -> [Tables -> Nat]]
    BY <1>3, <2>1
  <2> QED
    BY <2>2, <2>3, <2>4, <2>5, <2>6, <2>7 DEF TypeInv
<1>7. HouseInv
  <2>1. 0 \in 0..MaxChanges /\ db[addr] = Zero
    BY <1>1, NumbersAre
  <2> QED
    BY <1>1, <1>2, <1>3, <1>5, <2>1 DEF HouseInv, Reflects
<1>8. HitInv
  BY <1>1, GoneIs DEF HitInv, Honest
<1>9. DOMAIN value = {} /\ DOMAIN kept = {}
  BY <1>1
<1>10. \A r \in Reqs : req[r].pc = "free"
  BY <1>1, GoneIs
<1>11. RedisInv
  <2>1. IsFiniteSet(DOMAIN value)
    BY <1>9, FS_EmptySet
  <2>2. token \in [TokenKey -> Nat]
    BY <1>1
  <2> QED
    BY <1>9, <1>10, <2>1, <2>2
       DEF RedisInv, FiledInv, Versioned, ValuesFresh, PendingFresh, Sound, ReadersSafe, Waiting
<1>12. LocalInv
  <2>1. IndexType
    <3>1. NoIndex \in [gen : Nat, table : [Tables -> Nat], scope : [Tables -> [AnyScope -> Nat]]] /\ NoIndex.gen = 0
      BY DEF NoIndex
    <3> QED
      BY <1>1, <3>1 DEF IndexType
  <2> QED
    BY <1>1, <1>4, <1>9, <1>10, <2>1 DEF LocalInv, KeptShown, PendingShown, Shown, Holding
<1> QED
  BY <1>6, <1>7, <1>8, <1>11, <1>12 DEF CacheInv

LEMMA NextHolds == CacheInv /\ [Next]_vars => CacheInv'
<1> SUFFICES ASSUME CacheInv, [Next]_vars PROVE CacheInv'
  OBVIOUS
<1>1. CASE \E r \in Reqs : Step(r) \/ \E p \in Procs, a \in Asks : Ask(r, p, a)
  BY <1>1, RequestStep
<1>2. ASSUME NEW p \in Procs, NEW t \in Tables, NEW s \in Scene.inserts, Insert(p, t, s) PROVE CacheInv'
  <2>1. HouseGrows /\ Pends(p, t) /\ UNCHANGED <<scene, local, redis, proc, req, past>>
    BY <1>2, InsertGrows DEF CacheInv
  <2> QED
    BY <2>1, HouseStep
<1>3. ASSUME NEW p \in Procs, Move(p) PROVE CacheInv'
  <2>1. HouseGrows /\ Pends(p, None) /\ UNCHANGED <<scene, local, redis, proc, req, past>>
    BY <1>3, MoveGrows DEF CacheInv
  <2> QED
    BY <2>1, HouseStep
<1>4. ASSUME NEW p \in Procs, Invalidate(p) PROVE CacheInv'
  BY <1>4, InvalidateLocalStep, InvalidateDeferredStep, InvalidateRedisStep DEF Invalidate
<1>5. ASSUME NEW p \in Procs, DrainStep(p) \/ StartProbe(p) \/ Probe(p) PROVE CacheInv'
  BY <1>5, DrainSentStep, ClientStep DEF DrainStep
<1>6. CASE ServerFails \/ ServerBack \/ Prune \/ \E k \in TokenKey : TokenLost(k)
  BY <1>6, WorldStep
<1>7. CASE UNCHANGED vars
  <2>1. UNCHANGED <<scene, local, redis, proc, req, inv, house, past>>
    BY <1>7 DEF vars
  <2>2. FreshStays /\ (backend = "redis" => TokensMove)
    BY <2>1, TokensStay, FreshFrame DEF redis, RedisInv, CacheInv
  <2>3. /\ DOMAIN proc' = Procs /\ \A x \in Procs : ClientType(proc'[x])
        /\ backend = "local" => \A x \in Procs : proc'[x].owed = {}
    BY <2>1 DEF TypeInv, LocalInv, CacheInv
  <2> QED
    BY <2>1, <2>2, <2>3, QuietStep DEF redis
<1> QED
  BY <1>1, <1>2, <1>3, <1>4, <1>5, <1>6, <1>7 DEF Next, Others

LEMMA CacheInvariant == Spec => []CacheInv
  BY InitHolds, NextHolds, PTL DEF Spec

\* No hit answered is older than the changes that had to show when its lookup
\* began: Lookup's tokens and value, Set's snapshot, bump's debts and drain.
THEOREM HitsFresh == Spec => []NoStaleHit
<1>1. CacheInv => NoStaleHit
  BY DEF CacheInv, HitInv, Honest, NoStaleHit
<1> QED
  BY <1>1, CacheInvariant, PTL

\* While a stale result could be a hit, every process that knows of the change
\* owes a bump that orphans it: pending.add and done lose none.
THEOREM StaleOwed == Spec => []StaleIsOwed
<1>1. CacheInv => StaleIsOwed
  <2> SUFFICES ASSUME CacheInv, NEW p \in Procs, NEW a \in Asks, NEW n \in Servable(a), n < Floor(p, a)
               PROVE  OwesAny(proc[p], TokenKeys(a.deps))
    BY DEF StaleIsOwed
  <2>1. TypeInv /\ HouseInv /\ Floor(p, a) \in Int
    BY FloorBelow DEF CacheInv
  <2>2. CASE backend = "redis"
    <3>1. a \in DOMAIN value /\ n = value[a].result /\ value[a].tokens = [y \in TokenKeys(a.deps) |-> token[y]]
      BY <2>2 DEF Servable
    <3>2. Current(value[a].tokens, a)
      BY <3>1 DEF Current
    <3>3. Fresh(n, a) /\ n \in Int
      BY <2>2, <3>1, <3>2 DEF CacheInv, RedisInv, FiledInv, ValuesFresh
    <3>4. Due(proc[p], a)
      BY <2>1, <3>3 DEF Fresh
    <3> QED
      BY <3>4, DoneOwed DEF Due, OwesAny
  <2>3. CASE backend # "redis"
    <3>1. PICK key \in DOMAIN kept : key = QueryKey(index, a) /\ n = kept[key]
      BY <2>3 DEF Servable
    <3>2. key.query = a
      BY <3>1, KeyIs
    <3>3. backend = "local"
      BY <2>1, <2>3, BackendIs
    <3>4. Shows(n, a) /\ n \in Int
      BY <3>1, <3>2, <3>3 DEF CacheInv, LocalInv, KeptShown
    <3> QED
      BY <2>1, <3>4 DEF Shows
  <2> QED
    BY <2>2, <2>3
<1> QED
  BY <1>1, CacheInvariant, PTL
=============================================================================
