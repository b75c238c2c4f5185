------------------------------- MODULE Backoff -------------------------------
(***************************************************************************)
(* The retry backoff of the ingest worker (internal/ingest/backoff.go):    *)
(* one circuit breaker over a ClickHouse pool, one over each of its        *)
(* tables, and the flushes (worker.go, flushTable) and arriving rows       *)
(* (tableBatcher.add) of the tenant tables that share them.                *)
(*                                                                         *)
(* A loop is one tenant table: it takes its rows one at a time, and has at *)
(* most one flush out, which runs beside it.  Each call of a breaker holds *)
(* that breaker's mutex, and is one step.  Loops of two tenants on one     *)
(* ClickHouse identity share the pool's breaker and, for tables of one     *)
(* name, the table's.                                                      *)
(*                                                                         *)
(* An instant t is kept as its distance from now, max(0, t - now), which   *)
(* Tick counts down: every comparison in the code is with now.             *)
(***************************************************************************)
EXTENDS Integers, FiniteSets

CONSTANTS
    Loops,      \* tenant tables
    Pool,       \* the key of the pool's breaker
    TableKey,   \* loop -> the key of its table's breaker
    Cap,        \* loop -> its tenant's retry_backoff_max; 0 is none known
    Rows,       \* rows in the queue
    LoopOf,     \* row -> its loop
    RetryBase,  \* retryBase
    MaxFailures \* bound: the failure count saturates here

Keys == {Pool} \cup {TableKey[l] : l \in Loops}

MaxOf(a, b) == IF a >= b THEN a ELSE b
MinOf(a, b) == IF a <= b THEN a ELSE b

\* The count saturates only once the doubling has passed every cap, where
\* the code's delay no longer depends on it either.
ASSUME BackoffAssumption ==
    /\ TableKey \in [Loops -> Keys \ {Pool}]
    /\ Cap \in [Loops -> Nat]
    /\ LoopOf \in [Rows -> Loops]
    /\ RetryBase \in Nat \ {0, 1}
    /\ MaxFailures \in Nat \ {0}
    /\ \A l \in Loops : RetryBase * 2^(MaxFailures - 1) >= Cap[l]

\* Arithmetic, which the provers' theory of integers leaves out.
ASSUME DoublingAssumption == \A n \in 1..MaxFailures : 2^(n - 1) \in Nat \ {0}

VARIABLES
    bo,    \* backoffs.m: key -> breaker
    open,  \* backoffs.open
    flight, \* where each loop's flush is
    row,   \* where each row is
    wait,  \* how long each row stays away (NakWithDelay)
    down,  \* what ClickHouse cannot take inserts for: the pool, tables
    probes \* history: <<loop, key>> of the probes out, by the flush that claimed them

backoffVars == <<bo, open, flight, row, wait, down, probes>>

Breakers == [failures : 0..MaxFailures, left : Nat, probing : BOOLEAN, ceiling : Nat]
Breaker(failures, left, probing, ceiling) ==
    [failures |-> failures, left |-> left, probing |-> probing, ceiling |-> ceiling]
Closed == Breaker(0, 0, FALSE, 0)

FlightPhases == {"idle", "table", "pool", "refused", "insert", "closePool", "closeTable",
                "poolUp", "failTable", "releaseTable", "failPool"}
RowPhases == {"queued", "asked", "batched", "flushing", "done"}

\* What spread(d) may return.
Spread(d) == IF d <= 0 THEN {0} ELSE 0..(d - 1)

-----------------------------------------------------------------------------
(* The breaker, as operators on its record.                                *)

\* Bug: the window that runs is left as it is.
AdoptBug(b, cap) ==
    IF cap = 0 \/ (b.ceiling # 0 /\ b.ceiling <= MaxOf(cap, RetryBase)) THEN b
    ELSE [b EXCEPT !.ceiling = MaxOf(cap, RetryBase)]

\* adopt: a tenant's cap lowers the ceiling and cuts the running window.
Adopt(b, cap) ==
    LET c == MaxOf(cap, RetryBase)
        ceiling == IF b.ceiling = 0 \/ c < b.ceiling THEN c ELSE b.ceiling
    IN IF cap = 0 THEN b
       ELSE Breaker(b.failures, MinOf(b.left, ceiling), b.probing, ceiling)

\* What allow and waiting do first to a breaker that is open.
Touch(b, cap) == IF b.failures = 0 THEN b ELSE Adopt(b, cap)

\* Neither a flush nor a row passes: the window runs, or a probe is out.
TurnsAway(b) == b.failures > 0 /\ (b.left > 0 \/ b.probing)

\* How long those turned away stay away.
Waits(b) == IF b.left > 0 THEN {b.left + j : j \in Spread(RetryBase)}
            ELSE {RetryBase \div 2 + j : j \in Spread(RetryBase \div 2)}

\* allow, when it lets a flush through: an open breaker's flush is its probe.
Allowed(b) == IF b.failures = 0 THEN b ELSE [b EXCEPT !.probing = TRUE]

ReleasedBug(b) == b

\* release
Released(b) == [b EXCEPT !.probing = FALSE]

\* A failure while the window runs does not escalate.
Running(b) == b.failures > 0 /\ b.left > 0

\* The doubling delay after n failures under ceiling, before its jitter.
Delay(n, ceiling) == MinOf(RetryBase * 2^(n - 1), MaxOf(ceiling, RetryBase))

FailedBug(b, cap) ==
    IF Running(b) THEN {Adopt(b, cap)}
    ELSE LET o == Adopt(Breaker(MinOf(b.failures + 1, MaxFailures), b.left, b.probing, 0), cap)
             half == Delay(o.failures, o.ceiling) \div 2
         IN {[o EXCEPT !.left = half + j] : j \in Spread(half)}

\* fail: what the breaker may become.
Failed(b, cap) ==
    IF Running(b) THEN {Adopt(b, cap)}
    ELSE LET o == Adopt(Breaker(MinOf(b.failures + 1, MaxFailures), b.left, FALSE, 0), cap)
             half == Delay(o.failures, o.ceiling) \div 2
         IN {[o EXCEPT !.left = half + j] : j \in Spread(half)}

\* ... and how long the failed rows stay away, given what it became.
FailWaits(b, c) == IF Running(b) THEN Waits(c) ELSE {c.left}

\* succeed closes it, and counts it out of the outages, if it was open.
Succeeded(b) == IF b.failures = 0 THEN b ELSE Closed

SucceedCountBug(b) == 1

SucceedCount(b) == IF b.failures = 0 THEN 0 ELSE 1

-----------------------------------------------------------------------------
RowsAt(l, phase) == {r \in Rows : LoopOf[r] = l /\ row[r] = phase}

Moved(rs, phase) == [r \in Rows |-> IF r \in rs THEN phase ELSE row[r]]

\* NakWithDelay of each of rs.
Delayed(rs, w) == [r \in Rows |-> IF r \in rs THEN w ELSE wait[r]]

BackoffInit ==
    /\ bo = [k \in Keys |-> Closed]
    /\ open = 0
    /\ flight = [l \in Loops |-> "idle"]
    /\ row = [r \in Rows |-> "done"]
    /\ wait = [r \in Rows |-> 0]
    /\ down = {}
    /\ probes = {}

\* The environment: rows are published, ClickHouse or one of its tables
\* stops and resumes taking inserts, time passes.
Publish(r) ==
    /\ row[r] = "done"
    /\ row' = Moved({r}, "queued") /\ wait' = Delayed({r}, 0)
    /\ UNCHANGED <<bo, open, flight, down, probes>>

Break(k) == k \notin down /\ down' = down \cup {k} /\ UNCHANGED <<bo, open, flight, row, wait, probes>>

Repair(k) == k \in down /\ down' = down \ {k} /\ UNCHANGED <<bo, open, flight, row, wait, probes>>

Tick ==
    /\ (\E k \in Keys : bo[k].left > 0) \/ (\E r \in Rows : row[r] = "queued" /\ wait[r] > 0)
    /\ bo' = [k \in Keys |-> [bo[k] EXCEPT !.left = MaxOf(bo[k].left - 1, 0)]]
    /\ wait' = [r \in Rows |-> IF row[r] = "queued" THEN MaxOf(wait[r] - 1, 0) ELSE wait[r]]
    /\ UNCHANGED <<open, flight, row, down, probes>>

\* add: a delivered row asks backoffs.waiting.  No breaker is touched while
\* none is open; the pool's is asked first.
RowArrives(r) ==
    LET pool == Touch(bo[Pool], Cap[LoopOf[r]])
    IN /\ row[r] = "queued" /\ wait[r] = 0
       /\ RowsAt(LoopOf[r], "asked") = {}
       /\ \/ /\ open = 0
             /\ row' = Moved({r}, "batched")
             /\ UNCHANGED <<bo, wait>>
          \/ /\ open # 0 /\ ~TurnsAway(pool)
             /\ bo' = [bo EXCEPT ![Pool] = pool]
             /\ row' = Moved({r}, "asked")
             /\ UNCHANGED wait
          \/ /\ open # 0 /\ TurnsAway(pool)
             /\ bo' = [bo EXCEPT ![Pool] = pool]
             /\ \E w \in Waits(pool) : wait' = Delayed({r}, w)
             /\ UNCHANGED row
       /\ UNCHANGED <<open, flight, down, probes>>

\* ... then the table's.
RowAsksTable(r) ==
    LET k == TableKey[LoopOf[r]]
        table == Touch(bo[k], Cap[LoopOf[r]])
    IN /\ row[r] = "asked"
       /\ bo' = [bo EXCEPT ![k] = table]
       /\ \/ /\ ~TurnsAway(table)
             /\ row' = Moved({r}, "batched")
             /\ UNCHANGED wait
          \/ /\ TurnsAway(table)
             /\ row' = Moved({r}, "queued")
             /\ \E w \in Waits(table) : wait' = Delayed({r}, w)
       /\ UNCHANGED <<open, flight, down, probes>>

-----------------------------------------------------------------------------
(* One flush: flushTable.                                                  *)

StartFlush(l) ==
    /\ flight[l] = "idle" /\ RowsAt(l, "batched") # {}
    /\ row' = Moved(RowsAt(l, "batched"), "flushing")
    /\ flight' = [flight EXCEPT ![l] = "table"]
    /\ UNCHANGED <<bo, open, wait, down, probes>>

\* table.allow
AskTable(l) ==
    LET k == TableKey[l]
        table == Touch(bo[k], Cap[l])
    IN /\ flight[l] = "table"
       /\ \/ /\ ~TurnsAway(table)
             /\ bo' = [bo EXCEPT ![k] = Allowed(table)]
             /\ flight' = [flight EXCEPT ![l] = "pool"]
             /\ probes' = IF table.failures > 0 THEN probes \cup {<<l, k>>} ELSE probes
             /\ UNCHANGED <<row, wait>>
          \/ /\ TurnsAway(table)
             /\ bo' = [bo EXCEPT ![k] = table]
             /\ flight' = [flight EXCEPT ![l] = "idle"]
             /\ row' = Moved(RowsAt(l, "flushing"), "queued")
             /\ \E w \in Waits(table) : wait' = Delayed(RowsAt(l, "flushing"), w)
             /\ UNCHANGED probes
       /\ UNCHANGED <<open, down>>

\* pool.allow
AskPool(l) ==
    LET pool == Touch(bo[Pool], Cap[l])
    IN /\ flight[l] = "pool"
       /\ \/ /\ ~TurnsAway(pool)
             /\ bo' = [bo EXCEPT ![Pool] = Allowed(pool)]
             /\ flight' = [flight EXCEPT ![l] = "insert"]
             /\ probes' = IF pool.failures > 0 THEN probes \cup {<<l, Pool>>} ELSE probes
             /\ UNCHANGED wait
          \/ /\ TurnsAway(pool)
             /\ bo' = [bo EXCEPT ![Pool] = pool]
             /\ flight' = [flight EXCEPT ![l] = "refused"]
             /\ \E w \in Waits(pool) : wait' = Delayed(RowsAt(l, "flushing"), w)
             /\ UNCHANGED probes
       /\ UNCHANGED <<open, row, down>>

\* A pool that turns the flush away: the table's probe is handed back.
Refused(l) ==
    /\ flight[l] = "refused"
    /\ bo' = [bo EXCEPT ![TableKey[l]] = Released(bo[TableKey[l]])]
    /\ flight' = [flight EXCEPT ![l] = "idle"]
    /\ row' = Moved(RowsAt(l, "flushing"), "queued")
    /\ probes' = probes \ {<<l, TableKey[l]>>}
    /\ UNCHANGED <<open, wait, down>>

\* The INSERTs of the flush and their verdict: every row settled, a failure
\* of the table alone, or one of the server.
InsertSettles(l) ==
    /\ flight[l] = "insert" /\ down \cap {Pool, TableKey[l]} = {}
    /\ row' = Moved(RowsAt(l, "flushing"), "done")
    /\ flight' = [flight EXCEPT ![l] = "closePool"]
    /\ UNCHANGED <<bo, open, wait, down, probes>>

InsertTableFails(l) ==
    /\ flight[l] = "insert" /\ Pool \notin down /\ TableKey[l] \in down
    /\ flight' = [flight EXCEPT ![l] = "poolUp"]
    /\ UNCHANGED <<bo, open, row, wait, down, probes>>

InsertPoolFails(l) ==
    /\ flight[l] = "insert" /\ Pool \in down
    /\ flight' = [flight EXCEPT ![l] = "releaseTable"]
    /\ UNCHANGED <<bo, open, row, wait, down, probes>>

\* closeBackoff(pool): after a settled flush, or a failure of the table
\* alone, which shows the pool to be up.
ClosePool(l) ==
    /\ flight[l] \in {"closePool", "poolUp"}
    /\ bo' = [bo EXCEPT ![Pool] = Succeeded(bo[Pool])]
    /\ open' = open - SucceedCount(bo[Pool])
    /\ flight' = [flight EXCEPT ![l] = IF @ = "closePool" THEN "closeTable" ELSE "failTable"]
    /\ probes' = probes \ {<<l, Pool>>}
    /\ UNCHANGED <<row, wait, down>>

\* closeBackoff(table)
CloseTable(l) ==
    /\ flight[l] = "closeTable"
    /\ bo' = [bo EXCEPT ![TableKey[l]] = Succeeded(bo[TableKey[l]])]
    /\ open' = open - SucceedCount(bo[TableKey[l]])
    /\ flight' = [flight EXCEPT ![l] = "idle"]
    /\ probes' = probes \ {<<l, TableKey[l]>>}
    /\ UNCHANGED <<row, wait, down>>

\* The failure was the server's: the table's probe is handed back first.
ReleaseTable(l) ==
    /\ flight[l] = "releaseTable"
    /\ bo' = [bo EXCEPT ![TableKey[l]] = Released(bo[TableKey[l]])]
    /\ flight' = [flight EXCEPT ![l] = "failPool"]
    /\ probes' = probes \ {<<l, TableKey[l]>>}
    /\ UNCHANGED <<open, row, wait, down>>

\* failed.fail, then retryLater of what was not settled.
Report(l, k) ==
    /\ \E b \in Failed(bo[k], Cap[l]) :
         /\ bo' = [bo EXCEPT ![k] = b]
         /\ \E w \in FailWaits(bo[k], b) : wait' = Delayed(RowsAt(l, "flushing"), w)
    /\ open' = IF bo[k].failures = 0 THEN open + 1 ELSE open
    /\ flight' = [flight EXCEPT ![l] = "idle"]
    /\ row' = Moved(RowsAt(l, "flushing"), "queued")
    /\ probes' = probes \ {<<l, k>>}
    /\ UNCHANGED down

FailTable(l) == flight[l] = "failTable" /\ Report(l, TableKey[l])

FailPool(l) == flight[l] = "failPool" /\ Report(l, Pool)

FlightStep(l) ==
    \/ StartFlush(l) \/ AskTable(l) \/ AskPool(l) \/ Refused(l)
    \/ InsertSettles(l) \/ InsertTableFails(l) \/ InsertPoolFails(l)
    \/ ClosePool(l) \/ CloseTable(l) \/ ReleaseTable(l) \/ FailTable(l) \/ FailPool(l)

BackoffNext ==
    \/ \E r \in Rows : Publish(r) \/ RowArrives(r) \/ RowAsksTable(r)
    \/ \E k \in Keys : Break(k) \/ Repair(k)
    \/ \E l \in Loops : FlightStep(l)
    \/ Tick

BackoffSpec == BackoffInit /\ [][BackoffNext]_backoffVars

\* The queue redelivers what was handed back, goroutines run, every INSERT
\* ends (its deadline is limits.InsertTimeout) and time passes.  Nothing
\* makes ClickHouse come back or clients publish.
BackoffFairness ==
    /\ \A r \in Rows : WF_backoffVars(RowArrives(r)) /\ WF_backoffVars(RowAsksTable(r))
    /\ \A l \in Loops : WF_backoffVars(FlightStep(l))
    /\ WF_backoffVars(Tick)

BackoffLiveSpec == BackoffSpec /\ BackoffFairness

-----------------------------------------------------------------------------
(* Properties.                                                             *)

BackoffTypeOK ==
    /\ bo \in [Keys -> Breakers]
    /\ open \in Int
    /\ flight \in [Loops -> FlightPhases]
    /\ row \in [Rows -> RowPhases]
    /\ wait \in [Rows -> Nat]
    /\ down \subseteq Keys
    /\ probes \subseteq Loops \X Keys

\* backoffs.open is the number of breakers with a failure not yet followed
\* by a success: were it lower, rows would stop asking a breaker that turns
\* every flush away (backoffs.waiting returns at once when it is 0).
OpenCounted == open = Cardinality({k \in Keys : bo[k].failures > 0})

\* A breaker that says a probe is out has a flush out that will clear it,
\* whatever its INSERT meets.  A probe that no flush hands back would turn
\* every row of the pool or table away for ever.
OutPhases(l, k) ==
    IF k = Pool THEN {"insert", "closePool", "poolUp", "releaseTable", "failPool"}
    ELSE IF k = TableKey[l] THEN FlightPhases \ {"idle", "table", "failPool"}
    ELSE {}

NoLeakedProbe == \A k \in Keys : bo[k].probing => \E l \in Loops : flight[l] \in OutPhases(l, k)

\* No row stays away longer than its own tenant's cap and one jitter, even
\* where a tenant with a larger cap opened the window (backoff.adopt: "no
\* tenant waits longer than its own cap").
WaitWithinCap ==
    \A r \in Rows : row[r] = "queued" /\ Cap[LoopOf[r]] > 0
        => wait[r] < MaxOf(Cap[LoopOf[r]], RetryBase) + RetryBase

\* Once ClickHouse takes inserts into a table again for good, every row of
\* it is written in the end, whatever becomes of the tables beside it: the
\* breakers let probes through until one closes them, and the failures of
\* another table do not hold this one back (poolKey).
Recovers ==
    \A r \in Rows :
        <>[](down \cap {Pool, TableKey[LoopOf[r]]} = {}) => (row[r] # "done" ~> row[r] = "done")

\* What the comment on type backoff says: once the window has elapsed "one
\* flush - the probe - tries, and the rest keep waiting until it reports".
SingleProbe == \A k \in Keys : Cardinality({l \in Loops : <<l, k>> \in probes}) <= 1
=============================================================================
