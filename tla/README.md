# WaveHouse in TLA+

Specifications of WaveHouse's protocols: how a record gets from an HTTP request
to ClickHouse, how it is read back by queries and streams, and how the settings
that govern both are adopted while everything runs. They are checked with TLC on
small instances and, for the properties listed under *Proofs*, proved with TLAPS
for every value of their constants.

## The system

WaveHouse (Go) accepts records over `POST /v1/ingest`, queues them on JetStream,
writes them to ClickHouse in batches, answers queries through a versioned result
cache, and streams rows to subscribers over SSE. Settings come from a watched
directory, one folder per tenant. Several processes may share an external queue,
a Redis cache and the leases that divide the queue's shards between them.

| component | state | operations | hard behaviour |
|---|---|---|---|
| ingest window, `api/ingest.go` | the window's records, their claims | prepare, reserve, publish, commit, release, answer | a failure at the k-th publish; a reload between any two steps; a client that leaves |
| dedupe store, `dedupe/embedded.go` | pending claims (memory), committed ids (Pebble) | Reserve, Commit, Release | leases that lapse under a slow holder; crash |
| dedupe sweep, `dedupe/sweep.go` | candidates of a chunk | read, re-read, delete | stale candidates, unsynced deletes |
| store switch, `dedupe/managed.go` | wanted and actual state | Apply, usable | open fails; claims older than the switch |
| retry backoff, `ingest/backoff.go` | per pool and table: failures, window, probe, ceiling | allow, waiting, release, fail, succeed, adopt | flushes that report late; tenants with different caps on one breaker |
| ingest worker, `ingest/worker.go` | channels, batches, flushes, background acks | route, add, flush, isolate, park, ack, stop | redelivery, half-failed flushes, a drain everyone waits on |
| shard claims, `ingest/claims.go` | owned units, pins, member slots | join, assign, take, drain, unpin, release | members seen differently; two owners of a unit |
| leases, `mq/lease.go`, `coord` | KV entries, terms | campaign, renew, adopt, resign | lost replies, late writes, stalled holders |
| embedded queue, `mq/embedded.go` | pairs of streams, consumers, budgets | SetMaxBytes, reopen, join, publish, park | calls that fail half-way, streams lost and made again |
| purge, `mq/purge.go`, `ingest/sweeper.go` | ack floor, search bounds | search, purge | rows stored, acked and deleted during the search |
| result cache, `cache` | versions, tokens, values, owed bumps, breaker | Lookup, Set, bump, drain, probe | a result stored after the bump that makes it stale; a bump the server did not take |
| stream hub, `stream`, `api/stream.go` | subscribers, schemas, heartbeat wheel | subscribe, replay, broadcast, evict, tick | slow subscribers, gaps at the replay boundary, policy changes |
| endpoints, `api`, `auth`, `query`, `pkg/policy` | policies, keys, cached answers | authorize, build, look up, run, answer | a reload between any two steps of a request |
| settings registry, `settings` | adopted documents, watches | reload, watch, hooks | partial adoption, a directory replaced under its watch |
| discovery, `discovery`, `app/discoveries.go` | schemas, refresh loops, `/livez` | refresh, drop, report | a refresh under way when its tenant moves or goes |
| pools, `chconn` | pools, members, sizes | Reconcile | a ceiling over tenants that grow, move and are refused |

The handler publishes what the worker consumes; the handler and the dedupe store
share claims; the worker bumps the cache before it acks, and gives its units up
drained; claims rest on leases; a reload reaches the queue, the pools, the schema
registries, the cache, the limits and the dedupe switch through hooks that run one
after another once the documents are adopted. What makes each part correct is the
properties below; the hazards they are for are listed, at their lines, in
`PROJECT.json`.

Not modelled: the DynamoDB dedupe store (a second implementation of the claims, by
conditional writes on a service), observability (output only), the TypeScript client
(a consumer of the hub's contract) and the JetStream client calls of the external
queue beyond the consumer contract the claims rest on. Of the endpoints: body
limits, content types and timeouts; of authentication: parsing and signatures; of the
SQL builder: text.

## Modules

| module | models | composed in |
|---|---|---|
| `IngestDedupe` | windows of concurrent clients over one tenant's dedupe store and queue | |
| `Backoff` | breakers, flushes and arriving rows of tenant tables on one pool | |
| `IngestWorker` | consumer, dispatch, table loops, flushes, DLQ, acks, shutdown | |
| `Lease` | what a coordinator promises of one lease (abstract) | |
| `KVLease` | the lease in a KV bucket | refines `Lease` |
| `ShardClaims` | which process consumes which shard, over leases | |
| `Sweep` | the sweeper's search and purge of one stream | `EmbeddedQueue` |
| `EmbeddedQueue` | a tenant's pair of streams, its consumers and its sweeper | |
| `ResultCache` | the in-process and the shared result cache, with the reads and invalidations around them | |
| `Access`, `Requests` | policies and row filters; what queries, pipes and records become (operators) | `StreamHub` |
| `StreamHub` | hub, subscribers, replay, keepalive wheel | `Gateway` |
| `Gateway` | the API of one tenant under reloads | |
| `Pools` | the pools' reconcile walk (operators) | `Settings` |
| `Settings` | directory, validation, reload, watcher | `ControlPlane` |
| `ControlPlane` | the hooks and what they maintain: pools, schemas, `/livez`, limits, answers | |
| `*Proofs` | the theorems about the module they are named after | |
| `MC*` | instances for TLC | |

Definitions whose name ends in `Bug` are plausible mistakes in the definition that
follows them, kept to show that each property notices one. *Scenes* and *worlds*
are records a behaviour starts from, so that one run covers several situations: the
initial state picks one, nothing changes it.

### IngestDedupe

One client is one connection with one request in progress. A request's `pc` is the
place in `ingestWindow` it has reached; each action ends where another actor can get
in: one record of `prepareRecord`, one id of `Reserve` (its shard's lock), one
publish, one batch write, one dropped entry. `t0` is the instant `Reserve` read at
its start and uses for every id. A body of several windows is a client submitting
them in turn. Records the handler rejects are not part of a window.

- `pending`, `tokens` are in memory and lost in `Crash`; `disk` is Pebble;
  `unsynced` holds the values a crash may bring back, since the sweep deletes with
  `NoSync` and any later synced commit makes those deletes durable.
- `Apply` holds the write lock of `Managed`: it waits for requests in `reserve`,
  `drop` and `release`, and closing waits for the sweep's chunk.
- The queue is external: it remembers the key of a stored publish for
  `DuplicateWindow`, the shortest one the boot check allows for the lease, and may
  have stored a publish that failed.
- `RetryAfter` is the answer's header. In an `obedient` scene clients come back then
  and not later, never after a 200, and a request takes less than a tick; in the
  others, at any time. The lease is two ticks there, so a retry may meet a claim
  halfway through it and wait another lease: the case the window of `2*lease + 1` is
  derived from.

Left out: which of a store's 64 shards an id is in (a shard's sweep of lapsed
entries may happen at any reserve), several tenants in one Pebble instance, the
chunking of a sweep.

### Backoff

Each call of a breaker holds its mutex and is one step; a flush asks its table's
breaker, then its pool's, inserts, and reports to both. Instants are kept as the
distance from now, because every comparison in the code is with now. `MaxFailures`
saturates the failure count where the doubling has passed every cap: from there on
the code's delay does not depend on it either (`BackoffAssumption`). `jitter` is a
free choice in its range. Breakers are never removed, as in the code.

### IngestWorker

`stage` is where `dispatchLoop` is, `flush[t]` where a table's flush is. One tenant
is modelled, since two tenants' tables are two tables. A message is "good", "bad"
(ClickHouse rejects it) or "poison" (unreadable envelope). ClickHouse judges a row
only when it is up; a request that got no answer may have been written. A flush
names its rows by their position in the batch. `backing` stands for what `Backoff`
decides and allows more than it does. The handler waits for room in `msgChan`, and
`route` for room in a table's channel, both of the capacity the prefetch gives them. `Redeliver` is the end of an ack wait, also of
a message still in hand. A shutdown deadline that passes and a killed process are
both `Crash`.

Left out: the limit on unacknowledged messages, the contents of envelopes, and what
the cache does with an invalidation that fails (that is `ResultCache`).

### Lease, KVLease, ShardClaims

`Lease` is the promise of `coord.go`: a process takes a lease only while no live term
has it, and tokens order the terms. A process that stalls past its deadline
(`Stallers`) may overlap its successor, as the code says; the promise to the others
does not depend on it. `KVLease` is the bucket: a write is sent, stored or refused at
its revision, and answered, and any of these may be late or lost. Instants are ages on
each process's own clock.

`ShardClaims` splits a tick where another process can get in: joining, reading the
members and giving units up, each unit taken. Members are leases that may lapse; a
campaign may fail, with its write stored or not (`JoinFails`).
Membership views differ between processes; the broker delivers a unit to the process
that has its pin. `ResetOrphaned` is two requests: the check is part of `Take`, and the
reset it sends is in `resets` until it lands (`ResetLands`), whoever has the unit by
then; a process that was not answered binds the unit while its reset may still land. What
JetStream does with the ack of a row a reset has taken back is left open (`Settle`).
`overdue` are rows a process has had for `mq.ack_wait`, the bound of a handover and of a
row's slot; the durable's own ack wait is no shorter and passes in a step of its own
(`TurnLate`), or never. `AssignUnits` is the assignment that follows the rule of
`assignUnits`: a unit goes to its best slot among those the units before it, by best
score, have left under the cap. That there is one, and what it promises, is proved.
`ticked` is history: the slot a process's units were last worked out for. `Settled`
names it because a process that loses its slot and joins another before its next full
tick still owns what the old slot was given.

### EmbeddedQueue, Sweep

One tenant. Every broker call runs under the broker's mutex and is one step; a
JetStream call succeeds, fails, or fails having done what it was asked. A stream that
is lost and made again is a new incarnation, which holds none of the durables of the
one before; only whole streams are lost. The streams' caps are left out once
`takeStock` has compared them: no step reads them, so a roll-back of a resize is only a
refusal. A failed open is remembered in the same step. Not modelled: the race between
reading the dead-letter stream's size and updating it, clock steps.

`Sweep` reads the ack floor, searches one lookup at a time and purges, while rows are
stored, acked and deleted.

### ResultCache

A result is the stamp of the last change it reflects, so that "older than it must be"
is a comparison. `sure` and `told` are history: the changes whose invalidation
returned without error, in any process, and those a process knows of itself, deferred
ones included. `value` maps a query to what it was filed under; tokens are only ever
compared within a key, so a new token is one nobody holds any more for that key
(`Nonce`). What an operation tells the breaker is one of the outcomes of `record`, whether
the server answered, refused the work, did not answer, or the caller gave up first
(`Recorded`). The scenes pick the backend, the scopes of the inserts and what may fail.

### Access, Requests, StreamHub, Gateway

Policies are records, a spelling of a scalar is what it looks like on the wire, and
the row filter has its two readings, the WHERE clause of a query and `RowVisible`. A
request passes the tenant middleware, authentication and the gates of its handler one
step at a time, while a reload, a key-set fetch, other requests and the hub go on.
One tenant, one table; single flights are merged by key; a pipe that does not exist,
body limits, content types and timeouts are left out. A subscriber's `lastSchema` and
a replay's last announcement are `<<cols>>`, or `<<>>` where the code's signature is still
empty. A replay may fail at any row (`ReplayFails`): the handler logs it and the stream
goes on live only. `missed` are the rows from before the stream's registration that such a
replay had not come to, which nobody sends and the client is not told of, as the comment on
`StreamHandler.replay` says; rows from the registration on are the queue's and never excused.

### Pools, Settings, ControlPlane

`Pools` is the walk of `Pools.Reconcile`: leave, place, refuse, retry, apply. A
document is what the hooks read of it; `place` is address and database, `user` the
rest of a pool's identity. Resizing a pool never fails; idle sizes and the close grace
are left out; unreadable certificate files are what makes opening a pool fail.

`Settings` holds the directory, a validation pass, the reload under the registry's
lock and the watcher with its two fsnotify watches; fsnotify delivers every event of a
live watch. `ControlPlane` adds the hooks in their order and the consumers at work
beside them: refresh loops, queries, inserts, the worker's limits. The cache is one
answer per tenant here, known by where it was read.
`retired` is a set: two stopped loops of one tenant at the same point are one element, and
either's last report has the same effect. A world turns on the consumers that matter to it, since
consumers meet only in the registry and the pools.

## Runs

| run | shows | instance |
|---|---|---|
| `DedupeScenes` | `ClaimsExclusive`, `NoEarlyGrant`, `NoOrphanClaim`, `AcceptedIsQueued`, `StoredOnce` | two clients; scenes: a lapsed claim taken over, with a third request, a commit that fails, an expired value of the old layout for the sweep; a retention past the last instant; two windows over two ids in both orders with two events (lost publish, crash, switch, refused opens); obedient clients with one failure; lease of 2 |
| `DedupeOutage` | **violated** `StoredOnce` | an obedient client with two failures; lease of 2 |
| `BackoffRecovery` | `OpenCounted`, `NoLeakedProbe`, `WaitWithinCap`, `Recovers` | two tenants' tables on one pool, a row each, caps 4 and 2, two failures in a row; fairness |
| `BackoffProbe` | **violated** `SingleProbe` | two tenants' tables of one name, caps 4 and 2 |
| `WorkerFlush` | `NoRowLost`, `OnlyRefusedParked`, `InvalidatedFirst`, `NoBatchStranded` | three messages with two column lists and one fault; a good message with a bad or a poison one and two faults, reloads among them |
| `WorkerStop` | `UnitsGivenUpEmpty`, `StopEnds`, `Settles` | two tables, a good and a bad row, a lost ack or an ended delivery; three rows of one table with a prefetch of 1, so that the handler and `route` wait for room; fairness |
| `LeaseTakeover` | `EntryIntact`, `Implements` | two processes, one may stall, one may restart; lease of 2, two terms, one late write |
| `ClaimsHandover` | `RowsStayMine`, `OneWriter`, `Agreement` | two processes, two units that both prefer the first slot, one unit outside the configuration, two rows, one fault |
| `CacheFreshness` | `NoStaleHit`, `StaleIsOwed` | two processes, two requests, two changes; in-process; shared with an outage and a lost reply; shared with scopes, moves and a lost reply or token |
| `Gateway` | `Confined`, `WriteConfined`, `StreamWithinQuery`, `Labelled`, `NoSilentGap`, `UnservedEnds`, `WheelTurns` | worlds of each kind of request (records, queries, pipes, streams, operations) under one or two settings, two connections |
| `ControlPlane` | `WithinCeiling`, `AdoptedMeansReconciled`, `SchemaOfThePool`, `AnswersOfThePool`, `LimitsWithinAckWait`, `LivezTruthful`, `WatchConverges` | six worlds: three tenants over three pools under a ceiling; folders that do not validate and certificates that cannot be read; discovery; queries and inserts; limits; a watched flat directory |
| `EmbeddedQueue` | `OpenIsHeld`, `PurgesOnlySettled`, `SweepCatchesUp` | six pairs of streams found on disk, two budgets, two reloads, one lost stream; five rows swept; a window that changes |

The bounds are the smallest at which the case a property is about happens: a takeover
needs two holders in turn and a third request to collide with, a window failing in its
middle needs two records, a latched trigger a row arriving behind a flush, a stale
candidate of the sweep an expiry and a second commit, a search with holes five rows, a
lost hand-over two processes and a row behind the one in hand, a stale fill two
changes, a refused growth three tenants. Clients, processes and requests that are alike
are symmetric where a run says so, and only in runs without liveness properties.
Deadlock is not checked where a behaviour ends when its budget of changes and faults is
spent, which is what `CHECK_DEADLOCK FALSE` stands for here.

### What the two violations show

`DedupeOutage`. `api/ingest.go` and `mq/embedded.go` say that a retry after an
uncertain publish is dropped by the queue's duplicate window, whose length is derived
from one lapse of a claim and one Retry-After. Two failures pass it: a publish is stored
and its acknowledgement lost; a retry meets the claim in flight and is told to come back a
lease later; that retry claims the id, since the first claim has lapsed, and is lost in a
crash before it publishes; the crash empties the pending claims, and the client, still
within the lease it was told to wait, comes back one instant after the window. Its record
is stored a second time. With one failure (a scene of `DedupeScenes`) the derivation holds,
and a window one lease shorter would not.

`BackoffProbe`. The comment on `backoff` says one probe tries while the rest wait.
`fail` clears `probing` for whoever reports, so a flush that began before the outage
and fails after the window has elapsed opens a new window with the old probe still out,
and the next flush is a second probe. The breaker recovers all the same (`Recovers`),
and no probe is leaked (`NoLeakedProbe`).

### What the code does not bear out

Seen while modelling. The models do what the code does; no run states these.

- The comment on claiming (`ingest/claims.go:52-54`) says the broker refuses to reset a unit
  that is pinned. It is `ResetOrphaned` that refuses, after reading the consumer's info
  (`mq/external.go:837-850`); the reset is a second request with no condition (851), and may
  land after another process was pinned and given rows. Those rows are up for delivery again:
  to the same process, which has the pin, so they are a duplicate of its own and never a
  second writer's. `RowsStayMine` says just that.
- The comment on `Handover` (`ingest/claims.go:105-109`) says a unit let go after `mq.ack_wait`
  has its rows redelivered anyway. That is the durable's `ack_wait`, which may be longer
  (`mq/external_consumer.go:88`, `mq/nats_topology.go:551`): until it passes, the next owner is
  given newer rows while the older ones are still in the last one's hands. `OneWriter`
  promises nothing of rows that outlived `mq.ack_wait`.
- The comment on `sharedTables` (`app/wire.go:167-184`) says an insert is bumped under every
  tenant sharing the tables. `Invalidate` (187-201) asks who shares them when the batch is
  invalidated: a reload that moves or removes the batch's tenant between the INSERT and the
  invalidation leaves the tenants on the old tables with answers that miss the batch, until
  their TTL ends.
- Two tenants that leave a pool they share, in one reload, may be refused although
  their asks fit once both have left: a tenant is placed while the other still holds
  the old pool's size. The retry of `Reconcile` places what was refused once more.
- The budget hook skips a tenant whose queue already has its budget
  (`app/wire.go:623-625`), where 589-592, read to the letter, hands each reload's budget
  over and so tries a queue that is not open again; `embedded.go:633-634` says so only of a
  reload that applies a budget.

### Fairness

Weak fairness of each goroutine's next step, of the delivery and redelivery of messages
and of time: Go schedules every runnable goroutine, every INSERT and ack has a deadline,
timers fire, and JetStream redelivers what is not acked. No fairness is assumed of
ClickHouse coming back, of clients, operators or reloads; `Recovers` and `Settles` are
conditional on them. `StopEnds` is stated for a consumer that halts (`mq.Halter`, the
sharded queue): the embedded consumer goes on delivering while the worker drains, and
only the shutdown deadline bounds that drain.

`SweepCatchesUp` needs weak fairness of the sweeper's ticker and steps. `WatchConverges`
needs that of the watcher's goroutine, that a reload in progress ends (`[]<>(reload.pc =
"idle")`: one of its steps can always be taken, and its hooks wait on nothing but locks
held briefly and a bounded cache call), and strong fairness of the watcher's turn at the
registry's lock, a Go mutex, whose starvation mode hands it to a waiter in the end.

## Proofs

`ASSUME`s are the types of the constants, that the names used as words are not names of
documents or tenants, that connections and units are finitely many, that no two scores
are equal (the code breaks a tie of two 64-bit hashes by name), and for `Backoff` two facts
about the doubling that the provers' arithmetic lacks; TLC evaluates them on every run.

Facts about finite data that one would show by induction (what a fold over the pools'
members keeps, that a capped assignment exists, how many units a slot is given) are shown
by a smallest counterexample instead: the strict subsets of a finite set are well founded,
so a set of bad subsets that is not empty has a least member, and adding one element to
what is below it is not bad.

`IngestDedupeProofs`
- `TypeCorrect`: one lemma per action.
- `Exclusion` (`ClaimsExclusive`) is not inductive. `ClaimInv` adds that tokens are
  unique and never exceed the counter (`TokenInv`), that a request's commits, drops and
  releases are disjoint and only of claims it took (`PhaseInv`), and that the entry in
  memory of an unlapsed claim is the holder's own (`HoldInv`). A reserve then finds the
  entry live and answers in-flight, and a late release finds another token.
- `Retained` (`NoEarlyGrant`): until its promise ends, what is on disk, and what a crash
  could put there, is a live commit of the id.
- `NoneOrphaned` (`NoOrphanClaim`): an entry in memory is settled by what its request has
  yet to do, or its claim was left to lapse on purpose.
- `AcceptedQueued` (`AcceptedIsQueued`): a record is on its way to an answer only with its
  row in the queue, by this request or by the one whose commit it met.

`IngestWorkerProofs`
- `RowsKept`, `GoodRowsUnparked`, `AcksInvalidated`: the phase of a flush says which of
  its rows ClickHouse or the DLQ already holds (`Progress`), and a task in the background
  carries what is owed for its row (`Owed`).
- `BatchesFlushed`: a batch has a timer, a latched trigger or the drain.
- `StopsEmptyHanded`: each stage of the drain begins where the one before has emptied what
  nothing can fill again.
- of `Backoff`: `ProbeReturned`, `CapRespected` (`NoLeakedProbe`, `WaitWithinCap`, the latter
  for tenants with different caps on one breaker): a probe is out only of an open breaker
  whose window has elapsed, and a window never exceeds its ceiling. The key lemmas are
  about the breaker's operators alone (`AdoptFacts`, `FailedFacts`). `OpenIsCounted`
  (`OpenCounted`): a step opens or closes at most one breaker, so the count needs no finite
  set of tables.

`KVLeaseProofs`
- `EntryKept` (`EntryIntact`): the entry of a term that keeps its timers is its own, every
  write in flight that names a revision since its token is its own renewal, and nobody has
  watched that revision for longer than the term's own age, which is short of the lease
  duration. What others still have in flight is from before that token.
- `LeaseImplements` (`Implements`): every step of the protocol is a step of `Lease` or a
  stutter, and the initial state maps to its.

`ShardClaimsProofs`
- `TypeCorrect`.
- `RowsStay`, `OneWriterOnly` (`RowsStayMine`, `OneWriter`): a row in a process's hands is
  behind a pin of that process, which it gives up only drained or after `mq.ack_wait`. A reset
  gives nobody a pin, so one that lands late puts rows up for delivery to the process that
  has them. What `assignUnits` computes is left open there, so the argument covers processes
  that see different members, and nothing ties `mq.ack_wait` to the durable's.
- `MembersAgree` (`Agreement`): once every process that runs has ticked since the members
  last changed, each unit is consumed by exactly one of them, and none consumes more of the
  configured ones than an even share rounded up. Two parts. Of the assignment, `AssignUnitsIs`:
  there always is room for the next unit, since slots all at the cap would hold as many
  units as there are (`RoomThere`, by `Shared`); so an assignment that follows the rule
  exists (`RuleFollowed`), gives every unit a slot, and no slot more than the cap. Of the
  protocol, `MemberInv`: a slot held by a process that has not lost it is live and that
  process's alone, since joining takes only slots whose lease has lapsed, and what a process
  owns is among what its last full tick worked out for the slot it then had.

`EmbeddedQueueProofs`
- `PurgesSettled` (`PurgesOnlySettled`): between two lookups everything below `lo` is older
  than the cutoff, although rows are stored, acked and deleted meanwhile and a lookup may
  find no message; times do not decrease along the sequences, and `lo` never passes the
  next sequence.
- `OpenHeld` (`OpenIsHeld`): while the broker believes in an ingest stream that is there,
  nobody holds an older one.

`ResultCacheProofs`
- `HitsFresh`, `StaleOwed` (`NoStaleHit`, `StaleIsOwed`): neither is inductive. `CacheInv`
  says that the database is never behind what invalidations were acknowledged for
  (`HouseInv`), that a hit about to be answered is not older than its reader's floor
  (`HitInv`), and, for each backend (`RedisInv`, `LocalInv`), that a result filed under the
  current versions, or one a request in flight will file under them, is `Fresh`: for each
  process it reflects what that process must see, or the process owes a bump of one of its
  keys that no drain has landed. A step keeps this because a bump replaces a token by one
  that nobody who could still compare it holds (`Nonce`, `TokensMove`), and because the
  in-process versions only grow within a generation and generations are never reused.
  It is assumed that a query depends on its whole table or on nothing
  (`CacheAssumption`), as the queries the code builds do, and that requests are
  finitely many; processes, queries, changes and faults are any number.

`ControlPlaneProofs`
- `SchemaFollows`, `AnswersFollow` (`SchemaOfThePool`, `AnswersOfThePool`): a loaded schema
  and the one a refresh under way will publish, an answer in reach and one a query will
  still store, are of the place their tenant is on, or the tenant is known stale and its
  registry or answers have yet to be dropped. They use only that `Reconcile` reports a
  tenant stale when it comes to a place it was not at, so they hold whatever the walk
  decides.
- `LimitsFit` (`LimitsWithinAckWait`): whatever a reload took of the directory, stores hold
  documents, and limits in force are of one that passed the check.
- `LivezTrue` (`LivezTruthful`): the diagnostic may name a tenant that is gone only between
  the swap of the tenants and the discovery hook, and no schema counts as loaded before it
  was announced.
- `PoolsFit` (`WithinCeiling`): `WalkInv` holds of the walk before and after every tenant it
  visits: every tenant's pool is planned, one the walk emptied is planned at nothing so that
  it may be filled again, and what is planned fits the ceiling. Every fold of `Reconcile` is shown to keep it over each prefix of
  what it folds.
- `AdoptedReconciled` (`AdoptedMeansReconciled`): `AdoptInv` carries what the walk left true of
  every tenant it did not refuse through the hooks that follow to the end of the reload; a
  tenant it refused or kept smaller makes the reload failed, so the result is not "adopted".

`GatewayProofs` is about the streams, whatever the other requests do beside them. `IInv` has
one invariant for each stream and two for the frames on their way and the wheel; frames and
rows are known by their shape only, so what a policy makes of a row is left open.
- `EndsUnserved` (`UnservedEnds`): a stream reads `Served` after it is in the hub, so a reload
  falls before the one or after the other (`Goes`).
- `TurnsWheel` (`WheelTurns`): how long a stream's keepalive has been away is bounded by the
  hand's distance to its bucket (`InWheel`), for rings of any length and reshapes.
- `GapNotSilent` (`NoSilentGap`): of each row since a stream's feed began it has had it, or the
  `Broadcast` under way still owes it (`NoGap`). A replay that fails leaves out only rows
  from before the registration, where the feed began.
- `LabelsRight` (`Labelled`): what the wire has announced, then what the queue will, is what
  `lastSchema` says, whatever was dropped between (`Tells`); a row on its way goes under
  `lastSchema` or right behind its announcement (`OutFrames`).

### Only model-checked

- Liveness (`Recovers`, `StopEnds`, `Settles`, `SweepCatchesUp`, `WatchConverges`) needs
  `ENABLED`.
- `Confined`, `WriteConfined`, `StreamWithinQuery`: what leaves, enters or is streamed compared
  with what policies, filters and claims mean. They rest on what recursive functions make of
  clauses and rows, and on a query's WHERE and a stream's `RowVisible` agreeing for each
  operator and type: induction over data, and no step of the protocol.
- `StoredOnce` is refuted for two failures (`DedupeOutage`) and holds in scenes with one. A
  theorem would have to be about those scenes alone: its argument counts the ticks between a
  publish and the obedient client's last retry against the queue's window, over every event
  a scene may spend its one failure on.
- `SingleProbe` is refuted.

## Plan

1. The confinement of queries and streams as lemmas about `Access` and `Requests`: that
   `RowVisible` is never wider than the WHERE clause, operator by operator.
2. `StoredOnce` for scenes with one failure.
3. An abstract dedupe store, implemented by `IngestDedupe`'s and by DynamoDB's.
