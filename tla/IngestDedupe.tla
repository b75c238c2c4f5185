---------------------------- MODULE IngestDedupe ----------------------------
(***************************************************************************)
(* Idempotent ingest: POST /v1/ingest windows (internal/api/ingest.go)     *)
(* over one tenant's embedded dedupe store (internal/dedupe) and its       *)
(* ingest queue.                                                           *)
(*                                                                         *)
(* A client submits a window of records, each with a dedupe id.  The       *)
(* handler prepares the records, reserves every id (a pending claim in     *)
(* memory, under a lease), publishes in record order and commits the       *)
(* published ids to Pebble.  The sweep deletes expired commits, a settings *)
(* reload switches the store on and off, the process crashes and           *)
(* restarts, and clients retry what was not answered 200.                  *)
(*                                                                         *)
(* One client is one HTTP connection, so it has one request in progress.   *)
(* Time is the variable now; durations are in its ticks.                   *)
(***************************************************************************)
EXTENDS Integers, Sequences

CONSTANTS
    Clients,      \* concurrent callers of the ingest handler
    Ids,          \* dedupe ids (Key.ID; the table and tenant are fixed)
    Windows,      \* the windows a client may submit: sequences of ids
    Retentions,   \* values of dedupe.retention a settings document may give
    Lease,        \* dedupe.lease
    MaxInt,       \* the largest representable instant (math.MaxInt64)
    MaxTime,      \* bound: last instant explored
    Scenes        \* bounds: the circumstances explored, one in each behaviour

FaultKinds == {"open", "read", "commit", "full"}
Kinds == {"submit", "event"}   \* an event is a crash, a lost publish or a reload

\* A scene gives the windows and retentions in use, the ids with a value of
\* the old layout on disk at first, the failures that may happen, whether
\* clients obey Retry-After and requests are prompt, the last instant, and
\* how often each kind of event happens.
ASSUME ConstantsAssumption ==
    /\ Windows \subseteq Seq(Ids) \ {<<>>}
    /\ Retentions \subseteq Nat /\ Retentions # {}
    /\ Lease \in Nat \ {0}
    /\ MaxTime \in Nat
    /\ MaxInt \in Nat /\ MaxTime < MaxInt
    /\ Scenes \subseteq [windows : SUBSET Windows, retentions : SUBSET Retentions,
                         legacy : SUBSET Ids, faults : SUBSET FaultKinds,
                         obedient : BOOLEAN, time : Nat, budget : [Kinds -> Nat]]

VARIABLES
    now,       \* the clock
    setting,   \* the settings snapshot's dedupe.enabled and dedupe.retention
    reloading, \* a reload adopted a document and has not run its hooks
    enabled,   \* Managed.enabled: the last state passed to Apply
    opened,    \* Managed.db # nil: the store is open
    pending,   \* pendingSet: id -> claim in memory
    tokens,    \* Embedded.tokens
    disk,      \* Pebble: id -> stored value
    unsynced,  \* what a crash may bring back: values deleted with NoSync
    doomed,    \* the sweep's candidates, between its read and its re-read
    pc,        \* where each request is
    win,       \* its window
    recs,      \* its records' keys, retentions and claims
    pos,       \* the record it is at
    t0,        \* when its Reserve began (Reserve reads the clock once)
    toCommit,  \* records whose claims it still has to commit
    toDrop,    \* committed records whose pending entries it still has to drop
    toRelease, \* records whose claims it releases once its commits are done
    answer,    \* the answer it sends, or sent last
    retry,     \* when its client may, and an obedient one must, retry
    queue,     \* the ingest queue: per id, keyed copies, when the last, any copy
    promise,   \* history: until when the last commit of an id makes it a duplicate
    regrant,   \* history: ids granted to a caller before their promise ended
    lapsing,   \* history: tokens the code decided to leave to their lease
    used,      \* how much of the scene's budget is used
    scene      \* the scene, which no step changes

storeVars == <<setting, reloading, enabled, opened, pending, tokens, disk, unsynced, doomed>>
reqVars   == <<pc, win, recs, pos, t0, toCommit, toDrop, toRelease, answer, retry>>
histVars  == <<promise, regrant, lapsing>>
vars == <<now, storeVars, reqVars, queue, histVars, used, scene>>

-----------------------------------------------------------------------------
(* Values.                                                                 *)

Settings == [enabled : BOOLEAN, retention : Retentions]

Absent    == [kind |-> "absent", exp |-> 0]
Version0  == [kind |-> "v0", exp |-> 0]      \* a value from before ids were keyed by table
CommitVal(exp) == [kind |-> "commit", exp |-> exp]
DiskVals  == [kind : {"absent", "v0", "commit"}, exp : Nat]

NoPending == [token |-> 0, expires |-> 0]    \* tokens start at 1
PendingVals == [token : Nat, expires : Nat]

NoClaim == [status |-> "none", token |-> 0, expires |-> 0]
Claims == [status : {"none", "claimed", "duplicate", "inflight"}, token : Nat, expires : Nat]

\* A record of the window: keyed is rec.key # nil.
Rec(keyed, ret) == [keyed |-> keyed, retention |-> ret, claim |-> NoClaim]
RecVals == [keyed : BOOLEAN, retention : Nat, claim : Claims]

Answers == {"none", "ok", "full", "busy", "unavailable", "inflight", "error", "lost"}
Phases == {"idle", "prepare", "begin", "reserve", "decide", "publish", "settle", "drop", "release"}

\* The stored expiry of a commit at instant n: 0 is never, and a retention
\* reaching past the last representable instant is cut to it.
Expiry(n, retention) ==
    IF retention = 0 THEN 0
    ELSE IF retention > MaxInt - n THEN MaxInt ELSE n + retention

CommittedLive(v, n) == v.kind = "commit" /\ (v.exp = 0 \/ n < v.exp)

CommittedExpired(v, n) == v.kind = "commit" /\ v.exp # 0 /\ n >= v.exp

\* Why the sweep deletes a value: a layout that never counts, or expiry.
Sweepable(v, n) == v.kind = "v0" \/ CommittedExpired(v, n)

PendingLive(k, n) == pending[k].token # 0 /\ n < pending[k].expires

Records(r) == 1..Len(win[r])

Blank(r) == [i \in Records(r) |-> Rec(FALSE, 0)]

\* Managed.Reserve answers a key repeated inside one call without asking the store.
Repeated(r, i) == \E j \in 1..(i - 1) : recs[r][j].keyed /\ win[r][j] = win[r][i]

ClaimedIn(r, S) == {i \in S : recs[r][i].claim.status = "claimed"}

TokensOf(r, S) == {recs[r][i].claim.token : i \in S}

Usable == enabled /\ opened

\* Calls that hold Managed's read lock, which a switch of the store waits out.
InStore(r) == pc[r] \in {"reserve", "drop", "release"}

First(S) == CHOOSE x \in S : \A y \in S : x <= y

Spend(kind) ==
    /\ used[kind] < scene.budget[kind]
    /\ used' = [used EXCEPT ![kind] = @ + 1]

-----------------------------------------------------------------------------
(* The request: prepare, reserve, publish, commit, release, answer.        *)

Start(r) ==
    /\ pc[r] = "idle"
    /\ Spend("submit")
    /\ now >= retry[r].from
    /\ pc' = [pc EXCEPT ![r] = "prepare"]
    /\ answer' = [answer EXCEPT ![r] = "none"]
    /\ UNCHANGED <<now, storeVars, win, recs, pos, t0, toCommit, toDrop, toRelease, retry,
                   queue, histVars>>

\* To the next record, or from the last one to the next phase.
NextRecord(r, phase) ==
    IF pos[r] < Len(win[r])
    THEN pos' = [pos EXCEPT ![r] = @ + 1] /\ UNCHANGED pc
    ELSE pos' = [pos EXCEPT ![r] = 1] /\ pc' = [pc EXCEPT ![r] = phase]

\* prepareRecord reads the settings snapshot once per record, so a reload
\* lands at a record boundary.
PrepareRecord(r) ==
    /\ pc[r] = "prepare"
    /\ recs' = [recs EXCEPT ![r][pos[r]] = Rec(setting.enabled, setting.retention)]
    /\ NextRecord(r, "begin")
    /\ UNCHANGED <<now, storeVars, win, t0, toCommit, toDrop, toRelease, answer, retry,
                   queue, histVars, used>>

\* Reserve reads the store's switch once, under the read lock it holds until
\* it ends: disabled publishes un-deduped, enabled but not open is a 503.
BeginReserve(r) ==
    /\ pc[r] = "begin"
    /\ t0' = [t0 EXCEPT ![r] = now]
    /\ LET keyed == \E i \in Records(r) : recs[r][i].keyed
       IN  \/ /\ ~keyed \/ ~enabled
              /\ pc' = [pc EXCEPT ![r] = "publish"]
              /\ UNCHANGED answer
           \/ /\ keyed /\ enabled /\ ~opened
              /\ pc' = [pc EXCEPT ![r] = "settle"]
              /\ answer' = [answer EXCEPT ![r] = "busy"]
           \/ /\ keyed /\ Usable
              /\ pc' = [pc EXCEPT ![r] = "reserve"]
              /\ UNCHANGED answer
    /\ UNCHANGED <<now, storeVars, win, recs, pos, toCommit, toDrop, toRelease, retry,
                   queue, histVars, used>>

\* tenantStore.reserve for one id, under its shard's lock: the pending check,
\* then the Pebble read, at the instant Reserve began.
ReserveStatus(k, n) ==
    IF PendingLive(k, n) THEN "inflight"
    ELSE IF CommittedLive(disk[k], n) THEN "duplicate"
    ELSE "claimed"

\* The shard's sweep of lapsed claims.
SweepPending(p, n) ==
    [k \in Ids |-> IF p[k].token # 0 /\ n >= p[k].expires THEN NoPending ELSE p[k]]

\* One id of Reserve.  Whether the shard is due for its sweep (nextSweep) and
\* which ids share the shard is left open: the sweep may or may not run.
ReserveKey(r) ==
    LET i == pos[r]
        k == win[r][i]
        asked == recs[r][i].keyed /\ ~Repeated(r, i)
        status == IF asked THEN ReserveStatus(k, t0[r])
                  ELSE IF recs[r][i].keyed THEN "duplicate" ELSE "none"
        took == status = "claimed"
        claim == [status |-> status,
                  token |-> IF took THEN tokens + 1 ELSE 0,
                  expires |-> IF took THEN t0[r] + Lease ELSE 0]
    IN  /\ pc[r] = "reserve"
        /\ recs' = [recs EXCEPT ![r][i].claim = claim]
        /\ tokens' = IF took THEN tokens + 1 ELSE tokens
        /\ \E kept \in {pending, SweepPending(pending, t0[r])} :
               /\ asked \/ kept = pending
               /\ pending' = IF took
                             THEN [kept EXCEPT ![k] = [token |-> claim.token, expires |-> claim.expires]]
                             ELSE kept
        /\ regrant' = IF took /\ now < promise[k] THEN regrant \cup {k} ELSE regrant
        /\ NextRecord(r, "decide")
        /\ UNCHANGED <<now, setting, reloading, enabled, opened, disk, unsynced, doomed, win, t0,
                       toCommit, toDrop, toRelease, answer, retry, queue, promise, lapsing, used>>

\* A window that stops before its publishes gives back every claim it took.
AbortedClaims(r) == ClaimedIn(r, Records(r))

\* A Pebble read that fails: Reserve releases the claims it made and errors.
ReserveFails(r) ==
    /\ "read" \in scene.faults
    /\ pc[r] = "reserve"
    /\ recs[r][pos[r]].keyed /\ ~Repeated(r, pos[r]) /\ ~PendingLive(win[r][pos[r]], t0[r])
    /\ toRelease' = [toRelease EXCEPT ![r] = AbortedClaims(r)]
    /\ answer' = [answer EXCEPT ![r] = "error"]
    /\ pc' = [pc EXCEPT ![r] = "release"]
    /\ UNCHANGED <<now, storeVars, win, recs, pos, t0, toCommit, toDrop, retry,
                   queue, histVars, used>>

\* An id held by another request aborts the window and releases its claims.
Decide(r) ==
    /\ pc[r] = "decide"
    /\ IF \E i \in Records(r) : recs[r][i].claim.status = "inflight"
       THEN /\ toRelease' = [toRelease EXCEPT ![r] = AbortedClaims(r)]
            /\ answer' = [answer EXCEPT ![r] = "inflight"]
            /\ pc' = [pc EXCEPT ![r] = "settle"]
       ELSE /\ pc' = [pc EXCEPT ![r] = "publish"]
            /\ UNCHANGED <<toRelease, answer>>
    /\ UNCHANGED <<now, storeVars, win, recs, pos, t0, toCommit, toDrop, retry,
                   queue, histVars, used>>

\* Bug: the window covers the lease and the second, not the Retry-After.
DuplicateWindowBug == Lease + 1

\* The shortest duplicate window the boot check accepts for a lease of whole
\* seconds: the lease, the Retry-After of it, and a second.
DuplicateWindow == Lease + Lease + 1

\* What the queue does with a publish.  One made on a claim carries the id as
\* its idempotency key, and is dropped while the queue remembers that key.
Queued(q, k, claimed) ==
    IF ~claimed THEN [q EXCEPT ![k].any = TRUE]
    ELSE IF q[k].n > 0 /\ now < q[k].at + DuplicateWindow THEN q
    ELSE [q EXCEPT ![k] = [n |-> @.n + 1, at |-> now, any |-> TRUE]]

\* The publish of one record; a duplicate is passed over.  After the last one
\* every claim of the window is to be committed.
Publish(r) ==
    LET c == recs[r][pos[r]].claim
    IN  /\ pc[r] = "publish"
        /\ queue' = IF c.status = "duplicate" THEN queue
                    ELSE Queued(queue, win[r][pos[r]], c.status = "claimed")
        /\ NextRecord(r, "settle")
        /\ IF pos[r] < Len(win[r])
           THEN UNCHANGED <<toCommit, answer>>
           ELSE /\ toCommit' = [toCommit EXCEPT ![r] = ClaimedIn(r, Records(r))]
                /\ answer' = [answer EXCEPT ![r] = "ok"]
        /\ UNCHANGED <<now, storeVars, win, recs, t0, toDrop, toRelease, retry, histVars, used>>

\* Bugs: the failed record counts as published; a refused one is not released.
PublishedClaimsBug(r) == ClaimedIn(r, 1..pos[r])
UnsentClaimsBug(r, definite) == ClaimedIn(r, (pos[r] + 1)..Len(win[r]))

\* publishFailed: the claims of the records published before the failure, and
\* of those certainly not published.
PublishedClaims(r) == ClaimedIn(r, 1..(pos[r] - 1))
UnsentClaims(r, definite) == ClaimedIn(r, (IF definite THEN pos[r] ELSE pos[r] + 1)..Len(win[r]))

\* publishFailed after ErrQueueFull: what was published is committed, the
\* record the broker refused and the ones after it are released.
PublishRefused(r) ==
    /\ "full" \in scene.faults
    /\ pc[r] = "publish" /\ recs[r][pos[r]].claim.status # "duplicate"
    /\ toCommit' = [toCommit EXCEPT ![r] = PublishedClaims(r)]
    /\ toRelease' = [toRelease EXCEPT ![r] = UnsentClaims(r, TRUE)]
    /\ answer' = [answer EXCEPT ![r] = "full"]
    /\ pc' = [pc EXCEPT ![r] = "settle"]
    /\ UNCHANGED <<now, storeVars, win, recs, pos, t0, toDrop, retry, queue, histVars, used>>

\* publishFailed after any other error, the client's disconnect included: the
\* queue may have stored the record, so its claim is left to lapse.
PublishLost(r) ==
    LET k == pos[r]
        claimed == recs[r][k].claim.status = "claimed"
    IN  /\ Spend("event")
        /\ pc[r] = "publish" /\ recs[r][k].claim.status # "duplicate"
        /\ queue' \in {queue, Queued(queue, win[r][k], claimed)}
        /\ toCommit' = [toCommit EXCEPT ![r] = PublishedClaims(r)]
        /\ toRelease' = [toRelease EXCEPT ![r] = UnsentClaims(r, FALSE)]
        /\ lapsing' = lapsing \cup TokensOf(r, ClaimedIn(r, {k}))
        /\ \E a \in {IF claimed THEN "unavailable" ELSE "busy", "error"} : answer' = [answer EXCEPT ![r] = a]
        /\ pc' = [pc EXCEPT ![r] = "settle"]
        /\ UNCHANGED <<now, storeVars, win, recs, pos, t0, toDrop, retry, promise, regrant>>

\* One Commit per retention, in the order the retentions first occur.
CommitGroup(r) ==
    {i \in toCommit[r] : recs[r][i].retention = recs[r][First(toCommit[r])].retention}

\* The batch write, synced: it makes the deletes before it durable too.
CommitWrite(r) ==
    LET group == CommitGroup(r)
        ret == recs[r][First(toCommit[r])].retention
        keys == {win[r][i] : i \in group}
    IN  /\ pc[r] = "settle" /\ toCommit[r] # {}
        /\ Usable
        /\ disk' = [k \in Ids |-> IF k \in keys THEN CommitVal(Expiry(now, ret)) ELSE disk[k]]
        /\ promise' = [k \in Ids |-> IF k \notin keys THEN promise[k]
                                     ELSE IF ret = 0 THEN MaxInt ELSE now + ret]
        /\ unsynced' = [k \in Ids |-> Absent]
        /\ toCommit' = [toCommit EXCEPT ![r] = @ \ group]
        /\ toDrop' = [toDrop EXCEPT ![r] = group]
        /\ pc' = [pc EXCEPT ![r] = "drop"]
        /\ UNCHANGED <<now, setting, reloading, enabled, opened, pending, tokens, doomed, win, recs,
                       pos, t0, toRelease, answer, retry, queue, regrant, lapsing, used>>

\* A Commit the store cannot run or fails: logged, and the claims lapse.
CommitFails(r) ==
    LET group == CommitGroup(r)
    IN  /\ pc[r] = "settle" /\ toCommit[r] # {}
        /\ ~Usable \/ "commit" \in scene.faults
        /\ toCommit' = [toCommit EXCEPT ![r] = @ \ group]
        /\ lapsing' = lapsing \cup TokensOf(r, group)
        /\ UNCHANGED <<now, storeVars, pc, win, recs, pos, t0, toDrop, toRelease, answer, retry,
                       queue, promise, regrant, used>>

\* Bug: the entry goes whoever owns it.
DroppedBug(p, r, i) == [p EXCEPT ![win[r][i]] = NoPending]

\* tenantStore.release for one claim: the entry goes only if the token is the
\* claim's, so one taken over after the lease is left to its new holder.
Dropped(p, r, i) ==
    IF p[win[r][i]].token = recs[r][i].claim.token
    THEN [p EXCEPT ![win[r][i]] = NoPending] ELSE p

\* Commit drops its pending entries one shard lock at a time.
CommitDrop(r) ==
    LET i == First(toDrop[r])
    IN  /\ pc[r] = "drop"
        /\ pending' = Dropped(pending, r, i)
        /\ toDrop' = [toDrop EXCEPT ![r] = @ \ {i}]
        /\ pc' = [pc EXCEPT ![r] = IF toDrop'[r] = {} THEN "settle" ELSE "drop"]
        /\ UNCHANGED <<now, setting, reloading, enabled, opened, tokens, disk, unsynced, doomed, win,
                       recs, pos, t0, toCommit, toRelease, answer, retry, queue, histVars, used>>

\* The handler's Release, through the switch: with the store off or not open
\* the claims lapse.
BeginRelease(r) ==
    /\ pc[r] = "settle" /\ toCommit[r] = {} /\ toRelease[r] # {}
    /\ IF Usable
       THEN pc' = [pc EXCEPT ![r] = "release"] /\ UNCHANGED <<toRelease, lapsing>>
       ELSE /\ lapsing' = lapsing \cup TokensOf(r, toRelease[r])
            /\ toRelease' = [toRelease EXCEPT ![r] = {}]
            /\ UNCHANGED pc
    /\ UNCHANGED <<now, storeVars, win, recs, pos, t0, toCommit, toDrop, answer, retry,
                   queue, promise, regrant, used>>

ReleaseClaim(r) ==
    /\ pc[r] = "release"
    /\ IF toRelease[r] = {}
       THEN pc' = [pc EXCEPT ![r] = "settle"] /\ UNCHANGED <<pending, toRelease>>
       ELSE LET i == First(toRelease[r])
            IN  /\ pending' = Dropped(pending, r, i)
                /\ toRelease' = [toRelease EXCEPT ![r] = @ \ {i}]
                /\ UNCHANGED pc
    /\ UNCHANGED <<now, setting, reloading, enabled, opened, tokens, disk, unsynced, doomed, win,
                   recs, pos, t0, toCommit, toDrop, answer, retry, queue, histVars, used>>

\* When a client that obeys Retry-After comes back: after the lease where the
\* answer says so, otherwise (a flat delay, or none given) within one, and
\* never once it has its 200.  Any other client comes back any time.
RetryAfter(a) ==
    IF ~scene.obedient THEN [from |-> 0, by |-> MaxInt]
    ELSE CASE a = "ok" -> [from |-> MaxInt, by |-> MaxInt]
           [] a \in {"inflight", "unavailable"} -> [from |-> now + Lease, by |-> now + Lease]
           [] OTHER -> [from |-> now, by |-> now + Lease]

Answer(r) ==
    /\ pc[r] = "settle" /\ toCommit[r] = {} /\ toRelease[r] = {}
    /\ pc' = [pc EXCEPT ![r] = "idle"]
    /\ recs' = [recs EXCEPT ![r] = Blank(r)]
    /\ pos' = [pos EXCEPT ![r] = 1]
    /\ t0' = [t0 EXCEPT ![r] = 0]
    /\ retry' = [retry EXCEPT ![r] = RetryAfter(answer[r])]
    /\ UNCHANGED <<now, storeVars, win, toCommit, toDrop, toRelease, answer,
                   queue, histVars, used>>

-----------------------------------------------------------------------------
(* The store's other actors: the sweep, the reload, the crash, the clock.  *)

\* The sweep's read of a chunk, which holds no lock.
SweepScan ==
    /\ opened /\ doomed = {}
    /\ doomed' = {k \in Ids : Sweepable(disk[k], now)}
    /\ doomed' # {}
    /\ UNCHANGED <<now, setting, reloading, enabled, opened, pending, tokens, disk, unsynced,
                   reqVars, queue, histVars, used>>

\* Bug: what the unlocked read found is deleted unread.
CondemnedBug == doomed

\* The candidates still sweepable when re-read.
Condemned == {k \in doomed : Sweepable(disk[k], now)}

\* The re-read and the delete, holding commitMu, so no Commit is in progress.
SweepDelete ==
    /\ doomed # {}
    /\ \A r \in Clients : pc[r] # "drop"
    /\ disk' = [k \in Ids |-> IF k \in Condemned THEN Absent ELSE disk[k]]
    /\ unsynced' = [k \in Ids |-> IF k \in Condemned THEN disk[k] ELSE unsynced[k]]
    /\ doomed' = {}
    /\ UNCHANGED <<now, setting, reloading, enabled, opened, pending, tokens,
                   reqVars, queue, histVars, used>>

\* A reload adopts a document; its hook then switches the store.  Reloads are
\* serialized, hooks included.
Reload ==
    /\ ~reloading
    /\ Spend("event")
    /\ setting' \in Settings /\ setting'.retention \in scene.retentions
    /\ reloading' = TRUE
    /\ UNCHANGED <<now, enabled, opened, pending, tokens, disk, unsynced, doomed, reqVars,
                   queue, histVars>>

\* Managed.Apply.  A transition waits for the calls in the store; the close
\* waits for the sweep's chunk, and keeps the claims and what is on disk.
Apply ==
    /\ reloading
    /\ reloading' = FALSE
    /\ \/ /\ enabled = setting.enabled /\ opened = enabled
          /\ UNCHANGED <<enabled, opened>>
       \/ /\ ~(enabled = setting.enabled /\ opened = enabled)
          /\ \A r \in Clients : ~InStore(r)
          /\ enabled' = setting.enabled
          /\ \/ setting.enabled /\ opened' = TRUE
             \/ setting.enabled /\ "open" \in scene.faults /\ opened' = FALSE
             \/ ~setting.enabled /\ doomed = {} /\ opened' = FALSE
    /\ UNCHANGED <<now, setting, pending, tokens, disk, unsynced, doomed, reqVars,
                   queue, histVars, used>>

\* The process stops and boots again.  Claims and tokens are in memory; a
\* delete that was not synced may be undone.  The clients see no answer.
Crash ==
    /\ Spend("event")
    /\ pending' = [k \in Ids |-> NoPending]
    /\ tokens' = 0
    /\ doomed' = {}
    /\ \/ disk' = [k \in Ids |-> IF unsynced[k] # Absent THEN unsynced[k] ELSE disk[k]]
       \/ UNCHANGED disk
    /\ unsynced' = [k \in Ids |-> Absent]
    /\ reloading' = FALSE
    /\ enabled' = setting.enabled
    /\ opened' = setting.enabled
    /\ pc' = [r \in Clients |-> "idle"]
    /\ recs' = [r \in Clients |-> Blank(r)]
    /\ pos' = [r \in Clients |-> 1]
    /\ t0' = [r \in Clients |-> 0]
    /\ toCommit' = [r \in Clients |-> {}]
    /\ toDrop' = [r \in Clients |-> {}]
    /\ toRelease' = [r \in Clients |-> {}]
    /\ answer' = [r \in Clients |-> IF pc[r] = "idle" THEN answer[r] ELSE "lost"]
    /\ retry' = [r \in Clients |-> IF pc[r] = "idle" THEN retry[r] ELSE RetryAfter("lost")]
    /\ lapsing' = {}
    /\ UNCHANGED <<now, setting, win, queue, promise, regrant>>

\* An obedient client is not late, and its requests take less than a tick.
Tick ==
    /\ now < MaxTime /\ now < scene.time
    /\ scene.obedient => \A r \in Clients : pc[r] = "idle" /\ now < retry[r].by
    /\ now' = now + 1
    /\ UNCHANGED <<storeVars, reqVars, queue, histVars, used>>

-----------------------------------------------------------------------------
Init ==
    /\ now = 0
    /\ scene \in Scenes
    /\ setting \in Settings /\ setting.retention \in scene.retentions
    /\ reloading = FALSE
    /\ enabled = setting.enabled
    /\ opened = setting.enabled
    /\ pending = [k \in Ids |-> NoPending]
    /\ tokens = 0
    /\ disk = [k \in Ids |-> IF k \in scene.legacy THEN Version0 ELSE Absent]
    /\ unsynced = [k \in Ids |-> Absent]
    /\ doomed = {}
    /\ pc = [r \in Clients |-> "idle"]
    /\ win \in [Clients -> scene.windows]
    /\ recs = [r \in Clients |-> Blank(r)]
    /\ pos = [r \in Clients |-> 1]
    /\ t0 = [r \in Clients |-> 0]
    /\ toCommit = [r \in Clients |-> {}]
    /\ toDrop = [r \in Clients |-> {}]
    /\ toRelease = [r \in Clients |-> {}]
    /\ answer = [r \in Clients |-> "none"]
    /\ retry = [r \in Clients |-> [from |-> 0, by |-> MaxInt]]
    /\ queue = [k \in Ids |-> [n |-> 0, at |-> 0, any |-> FALSE]]
    /\ promise = [k \in Ids |-> 0]
    /\ regrant = {}
    /\ lapsing = {}
    /\ used = [b \in Kinds |-> 0]

Request(r) ==
    \/ Start(r) \/ PrepareRecord(r) \/ BeginReserve(r) \/ ReserveKey(r) \/ ReserveFails(r)
    \/ Decide(r) \/ Publish(r) \/ PublishRefused(r) \/ PublishLost(r) \/ CommitWrite(r)
    \/ CommitFails(r) \/ CommitDrop(r) \/ BeginRelease(r) \/ ReleaseClaim(r) \/ Answer(r)

Next ==
    /\ \/ \E r \in Clients : Request(r)
       \/ SweepScan \/ SweepDelete \/ Reload \/ Apply \/ Crash \/ Tick
    /\ UNCHANGED scene

Spec == Init /\ [][Next]_vars

-----------------------------------------------------------------------------
(* Properties.                                                             *)

StoreType ==
    /\ now \in Nat
    /\ setting \in Settings
    /\ reloading \in BOOLEAN /\ enabled \in BOOLEAN /\ opened \in BOOLEAN
    /\ pending \in [Ids -> PendingVals]
    /\ tokens \in Nat
    /\ disk \in [Ids -> DiskVals] /\ unsynced \in [Ids -> DiskVals]
    /\ doomed \subseteq Ids

ControlType ==
    /\ pc \in [Clients -> Phases]
    /\ win \in [Clients -> Windows]
    /\ pos \in [Clients -> Nat] /\ \A r \in Clients : pos[r] \in Records(r)
    /\ t0 \in [Clients -> Nat]
    /\ answer \in [Clients -> Answers]
    /\ retry \in [Clients -> [from : Nat, by : Nat]]

WindowType ==
    /\ DOMAIN recs = Clients /\ \A r \in Clients : recs[r] \in [Records(r) -> RecVals]
    /\ DOMAIN toCommit = Clients /\ \A r \in Clients : toCommit[r] \subseteq Records(r)
    /\ DOMAIN toDrop = Clients /\ \A r \in Clients : toDrop[r] \subseteq Records(r)
    /\ DOMAIN toRelease = Clients /\ \A r \in Clients : toRelease[r] \subseteq Records(r)

HistoryType ==
    /\ queue \in [Ids -> [n : Nat, at : Nat, any : BOOLEAN]]
    /\ promise \in [Ids -> Nat]
    /\ regrant \subseteq Ids
    /\ lapsing \subseteq Nat
    /\ used \in [Kinds -> Nat]

\* The variables keep their types.
TypeOK == StoreType /\ ControlType /\ WindowType /\ HistoryType

\* Request r is working on a claim of record i it has neither settled nor let go.
Holds(r, i) ==
    /\ recs[r][i].claim.status = "claimed"
    /\ \/ pc[r] \in {"reserve", "decide", "publish"}
       \/ i \in toCommit[r] \cup toDrop[r] \cup toRelease[r]

LiveHold(r, i) == Holds(r, i) /\ now < recs[r][i].claim.expires

\* Mutual exclusion (embedded.go, "at most one caller holds a key"): two
\* requests never hold unlapsed claims on one id, whatever the reserves,
\* takeovers of lapsed claims, late commits and late releases in between.
ClaimsExclusive ==
    \A r, s \in Clients : \A i \in Records(r) : \A j \in Records(s) :
        LiveHold(r, i) /\ LiveHold(s, j) /\ win[r][i] = win[s][j] => r = s /\ i = j

\* A committed id is a duplicate until its retention ends: no Reserve grants
\* it before, whatever the sweep, a crash or a switch of the store does to
\* the value on disk and however long the retention is.
NoEarlyGrant == regrant = {}

\* A claim in memory has a holder, or is one the code left to lapse (a lost
\* publish, a failed commit, a store switched off): an aborted window leaves
\* none behind that would answer its own client's retry with in-flight.
NoOrphanClaim ==
    \A k \in Ids : pending[k].token # 0 =>
        \/ pending[k].token \in lapsing
        \/ \E r \in Clients : \E i \in Records(r) :
               Holds(r, i) /\ win[r][i] = k /\ recs[r][i].claim.token = pending[k].token

\* What answers 200 is in the queue: every record of the window, the ones
\* skipped as duplicates of an earlier commit included.
AcceptedIsQueued ==
    \A r \in Clients : pc[r] = "idle" /\ answer[r] = "ok" =>
        \A i \in Records(r) : queue[win[r][i]].any

\* A deduplicated record is stored once: a client that obeys Retry-After
\* republishes, after a publish whose outcome was lost or a crash, while the
\* queue still remembers the first copy's key.
StoredOnce == scene.obedient => \A k \in Ids : queue[k].n <= 1
=============================================================================
