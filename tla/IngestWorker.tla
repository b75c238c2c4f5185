---------------------------- MODULE IngestWorker ----------------------------
(***************************************************************************)
(* The ingest worker (internal/ingest/worker.go): messages of the ingest   *)
(* queue on their way to ClickHouse or to the dead-letter queue.           *)
(*                                                                         *)
(* The consumer hands messages to dispatchLoop, which routes each to its   *)
(* table's loop; the loop batches them, and flushes run beside it, one at  *)
(* a time.  A flush inserts one group of rows per column list, isolates    *)
(* the rows of a refused group, parks refused rows on the DLQ and hands    *)
(* back what ClickHouse could not take.  Acks run in the background.       *)
(* Stopping drains all of it before the consumer gives its units up.       *)
(*                                                                         *)
(* One tenant is modelled: two tenants' tables are two tables.  What the   *)
(* retry backoff decides is module Backoff's subject; here a failure turns *)
(* a table's rows away until BackoffElapses.                               *)
(***************************************************************************)
EXTENDS Integers, Sequences, FiniteSets

CONSTANTS
    Msgs,       \* the messages there are
    Kind,       \* message -> "good", "bad" (ClickHouse rejects it), "poison"
    Tables,
    Table,      \* message -> its table
    Scope,      \* message -> its scope; "" is none
    BatchLimit, \* limits.MaxBatchBytes, a row being one byte
    Halts,      \* the consumer is an mq.Halter
    DLQ,        \* dlqEnabled at start
    Scenes      \* what a behaviour starts from: the messages the queue holds,
                \* their column lists, consumer.Prefetch, and the failures
                \* that may happen, with a bound on how many of them

FaultKinds == {"crash", "ack", "dlq", "slow", "reload", "end"}

ASSUME WorkerAssumption ==
    /\ Kind \in [Msgs -> {"good", "bad", "poison"}]
    /\ Table \in [Msgs -> Tables]
    /\ DOMAIN Scope = Msgs
    /\ BatchLimit \in Nat \ {0}
    /\ Halts \in BOOLEAN /\ DLQ \in BOOLEAN
    /\ \A s \in DOMAIN Scenes :
         /\ Scenes[s].msgs \subseteq Msgs /\ DOMAIN Scenes[s].cols = Msgs
         /\ Scenes[s].prefetch \in Nat \ {0}
         /\ Scenes[s].faults \subseteq FaultKinds /\ Scenes[s].maxFaults \in Nat

VARIABLES
    avail,     \* messages the queue may deliver now
    acked,     \* messages the queue has deleted
    fetched,   \* fetched by the consumer, on their way to the handler
    consuming, \* the consumer fetches
    stage,     \* where dispatchLoop is
    msgChan,   \* dispatchLoop's channel
    tableChan, \* tableChans: each table loop's channel
    batch,     \* tableBatcher.batch
    sized,     \* tableBatcher.ok: the batch's tenant had limits
    timer,     \* the batch's deadline is armed
    queued,    \* tableBatcher.queued: a trigger fired behind a flush
    flush,     \* the table's flush
    exited,    \* tables whose loop has returned
    tasks,     \* background work on ackWg: <<kind, message>>
    backing,   \* tables whose rows the backoff turns away
    settings,  \* what the adopted settings give the tenant
    server,    \* ClickHouse: "up" or "down"
    stored,    \* messages whose row ClickHouse holds
    bumped,    \* messages whose row's namespaces were invalidated after it was stored
    dlq,       \* messages with a copy on the dead-letter queue
    dropped,   \* poison acked with the DLQ off
    unserved,  \* history: the tenant has been on no pool
    faults,    \* how many failures have happened
    scene      \* the scene; it never changes

queueVars == <<avail, acked, fetched, consuming>>
loopVars  == <<tableChan, batch, sized, timer, queued, exited>>
sinkVars  == <<stored, bumped, dlq, dropped>>
envVars   == <<settings, server, unserved, faults>>
vars == <<queueVars, stage, msgChan, loopVars, flush, tasks, backing, sinkVars, envVars>>

\* A flush: the batch it took, the positions in it of the rows of the group
\* being written that are not settled, and those of the later groups.
FlushOf(rows, ok) == [phase |-> "begin", ok |-> ok, rows |-> rows, group |-> {}, later |-> DOMAIN rows]
Emptied(phase) == [phase |-> phase, ok |-> TRUE, rows |-> <<>>, group |-> {}, later |-> {}]
Idle == Emptied("idle")
FlushPhases == {"idle", "begin", "bulk", "bump", "isolate", "bumpOne", "park", "parkAck",
                "parkOne", "parkOneAck", "fail", "close", "done"}
Stages == {"run", "halting", "drain", "closing", "abandon", "stop", "stopped"}

Elems(s) == {s[i] : i \in 1..Len(s)}

\* The messages at some positions of a flush, and those not settled.
At(f, positions) == {f.rows[i] : i \in positions}
Unsettled(f) == At(f, f.group \cup f.later)

\* Rows are taken in arrival order.
First(positions, i) == i \in positions /\ \A j \in positions : i <= j

\* groupByColumns: the rows with the column list of the first one left.
FirstGroup(f) ==
    {j \in f.later : \E i \in f.later : First(f.later, i)
        /\ Scenes[scene].cols[f.rows[j]] = Scenes[scene].cols[f.rows[i]]}

\* The messages the worker holds a delivery of.
InHand ==
    UNION {Elems(fetched), Elems(msgChan), {x[2] : x \in tasks},
           UNION {Elems(tableChan[t]) \cup Elems(batch[t]) \cup Unsettled(flush[t]) : t \in Tables}}

Fault(kind) == kind \in Scenes[scene].faults /\ faults < Scenes[scene].maxFaults /\ faults' = faults + 1

\* Nak and NakWithDelay: the queue delivers the rows again, unless one was
\* acked through another delivery.
Nak(ms) == avail' = avail \cup (ms \ acked)

\* DoubleAck
Ack(ms) == acked' = acked \cup ms /\ avail' = avail \ ms

Init ==
    /\ scene \in DOMAIN Scenes
    /\ avail = Scenes[scene].msgs /\ acked = {} /\ fetched = <<>> /\ consuming = TRUE
    /\ stage = "run" /\ msgChan = <<>>
    /\ tableChan = [t \in Tables |-> <<>>]
    /\ batch = [t \in Tables |-> <<>>]
    /\ sized = [t \in Tables |-> TRUE]
    /\ timer = [t \in Tables |-> FALSE]
    /\ queued = [t \in Tables |-> FALSE]
    /\ flush = [t \in Tables |-> Idle]
    /\ exited = {} /\ tasks = {} /\ backing = {}
    /\ settings = [pool |-> TRUE, limits |-> TRUE, dlq |-> DLQ]
    /\ server = "up"
    /\ stored = {} /\ bumped = {} /\ dlq = {} /\ dropped = {}
    /\ unserved = FALSE /\ faults = 0

-----------------------------------------------------------------------------
(* The queue and its consumer.                                             *)

Fetch(m) ==
    /\ consuming /\ (Halts => stage = "run") /\ stage # "stopped"
    /\ m \in avail /\ Len(fetched) < Scenes[scene].prefetch
    /\ avail' = avail \ {m} /\ fetched' = Append(fetched, m)
    /\ UNCHANGED <<acked, consuming, stage, msgChan, loopVars, flush, tasks, backing, sinkVars, envVars>>

\* The handler dispatchLoop gave Consume: a send on msgChan, or a nak once
\* abandon is closed; with both possible, either.
Handle ==
    /\ fetched # <<>> /\ fetched' = Tail(fetched)
    /\ \/ /\ Len(msgChan) < 2 * Scenes[scene].prefetch
          /\ msgChan' = Append(msgChan, Head(fetched))
          /\ UNCHANGED avail
       \/ /\ stage \in {"stop", "stopped"}
          /\ Nak({Head(fetched)})
          /\ UNCHANGED msgChan
    /\ UNCHANGED <<acked, consuming, stage, loopVars, flush, tasks, backing, sinkVars, envVars>>

\* The ack wait of a message nobody settled ends; and that of one the
\* worker still holds, when it was too slow.
Redeliver(m) ==
    /\ m \in Scenes[scene].msgs \ (acked \cup avail)
    /\ \/ m \notin InHand /\ UNCHANGED faults
       \/ m \in InHand /\ Fault("slow")
    /\ avail' = avail \cup {m}
    /\ UNCHANGED <<acked, fetched, consuming, stage, msgChan, loopVars, flush, tasks, backing, sinkVars,
                   settings, server, unserved>>

-----------------------------------------------------------------------------
(* dispatchLoop.                                                           *)

\* rejectPoison's background work: park it, or drop it with the DLQ off.
PoisonTask == IF settings.dlq THEN "park" ELSE "drop"

\* dispatchLoop routes while it runs, while the consumer halts, and after.
RoutingBug == stage \in {"run", "drain"}

Routing == stage \in {"run", "halting", "drain"}

\* route, with parseMsg.
Route ==
    LET m == Head(msgChan)
    IN /\ Routing /\ msgChan # <<>>
       /\ msgChan' = Tail(msgChan)
       /\ \/ /\ Kind[m] = "poison"
             /\ tasks' = tasks \cup {<<PoisonTask, m>>}
             /\ UNCHANGED tableChan
          \/ /\ Kind[m] # "poison" /\ Len(tableChan[Table[m]]) < Scenes[scene].prefetch
             /\ tableChan' = [tableChan EXCEPT ![Table[m]] = Append(@, m)]
             /\ UNCHANGED tasks
       /\ UNCHANGED <<queueVars, stage, batch, sized, timer, queued, exited, flush, backing, sinkVars, envVars>>

\* ctx.Done
Cancel ==
    /\ stage = "run" /\ stage' = "halting"
    /\ UNCHANGED <<queueVars, msgChan, loopVars, flush, tasks, backing, sinkVars, envVars>>

\* deliveryEnded: the queue gave up on the consumer.
DeliveryEnds ==
    /\ stage = "run" /\ Fault("end")
    /\ stage' = "halting" /\ consuming' = FALSE
    /\ UNCHANGED <<avail, acked, fetched, msgChan, loopVars, flush, tasks, backing, sinkVars, settings, server, unserved>>

\* haltRouting: a halter returns once all it fetched reached the handler.
Halted ==
    /\ stage = "halting" /\ (Halts => fetched = <<>>)
    /\ stage' = "drain"
    /\ UNCHANGED <<queueVars, msgChan, loopVars, flush, tasks, backing, sinkVars, envVars>>

\* ... and then msgChan is routed until it is found empty; shutdown closes
\* the tables' channels.
CloseTables ==
    /\ stage = "drain" /\ msgChan = <<>>
    /\ stage' = "closing"
    /\ UNCHANGED <<queueVars, msgChan, loopVars, flush, tasks, backing, sinkVars, envVars>>

\* tableWg.Wait, then ackWg.Wait.
MayAbandonBug == exited = Tables

MayAbandon == exited = Tables /\ tasks = {}

Drained ==
    /\ stage = "closing" /\ MayAbandon
    /\ stage' = "abandon"
    /\ UNCHANGED <<queueVars, msgChan, loopVars, flush, tasks, backing, sinkVars, envVars>>

\* The deferred close(abandon) and nakLeft.
Abandon ==
    /\ stage = "abandon" /\ stage' = "stop"
    /\ msgChan' = <<>> /\ Nak(Elems(msgChan))
    /\ UNCHANGED <<acked, fetched, consuming, loopVars, flush, tasks, backing, sinkVars, envVars>>

\* stop gives the consumer's units up; nakLeft again.
Stop ==
    /\ stage = "stop" /\ stage' = "stopped"
    /\ consuming' = FALSE
    /\ msgChan' = <<>> /\ Nak(Elems(msgChan))
    /\ UNCHANGED <<acked, fetched, loopVars, flush, tasks, backing, sinkVars, envVars>>

-----------------------------------------------------------------------------
(* tableLoop and tableBatcher.                                             *)

\* requestFlush of the rows bs, whose limits were read as ok.
LatchBug(t) == UNCHANGED queued

Latch(t) == queued' = [queued EXCEPT ![t] = TRUE]

RequestFlush(t, bs, ok, armed) ==
    \/ /\ flush[t].phase = "idle"
       /\ flush' = [flush EXCEPT ![t] = FlushOf(bs, ok)]
       /\ batch' = [batch EXCEPT ![t] = <<>>]
       /\ queued' = [queued EXCEPT ![t] = FALSE]
       /\ timer' = [timer EXCEPT ![t] = FALSE]
    \/ /\ flush[t].phase # "idle"
       /\ batch' = [batch EXCEPT ![t] = bs]
       /\ timer' = [timer EXCEPT ![t] = armed]
       /\ Latch(t)
       /\ UNCHANGED flush

\* add: a row is turned away by the backoff, ...
AddTurnedAway(t) ==
    /\ tableChan[t] # <<>> /\ t \in backing
    /\ tableChan' = [tableChan EXCEPT ![t] = Tail(@)]
    /\ Nak({Head(tableChan[t])})
    /\ UNCHANGED <<acked, fetched, consuming, stage, msgChan, batch, sized, timer, queued, exited, flush, tasks,
                   backing, sinkVars, envVars>>

\* ... handed back for want of limits, ...
AddUnconfigured(t) ==
    /\ tableChan[t] # <<>> /\ t \notin backing /\ batch[t] = <<>>
    /\ ~settings.limits /\ settings.pool
    /\ tableChan' = [tableChan EXCEPT ![t] = Tail(@)]
    /\ Nak({Head(tableChan[t])})
    /\ UNCHANGED <<acked, fetched, consuming, stage, msgChan, batch, sized, timer, queued, exited, flush, tasks,
                   backing, sinkVars, envVars>>

\* ... or batched; a full batch, or one with no limits, asks for a flush.
AddRow(t) ==
    LET first == batch[t] = <<>>
        ok == IF first THEN settings.limits ELSE sized[t]
        armed == IF first THEN ok ELSE timer[t]
        bs == Append(batch[t], Head(tableChan[t]))
    IN /\ tableChan[t] # <<>> /\ t \notin backing
       /\ first => settings.limits \/ ~settings.pool
       /\ tableChan' = [tableChan EXCEPT ![t] = Tail(@)]
       /\ sized' = [sized EXCEPT ![t] = ok]
       /\ \/ /\ ok => Len(bs) >= BatchLimit
             /\ RequestFlush(t, bs, ok, armed)
          \/ /\ ok /\ Len(bs) < BatchLimit
             /\ batch' = [batch EXCEPT ![t] = bs]
             /\ timer' = [timer EXCEPT ![t] = armed]
             /\ UNCHANGED <<queued, flush>>
       /\ UNCHANGED <<queueVars, stage, msgChan, exited, tasks, backing, sinkVars, envVars>>

TimerFires(t) ==
    /\ timer[t]
    /\ RequestFlush(t, batch[t], sized[t], FALSE)
    /\ UNCHANGED <<queueVars, stage, msgChan, tableChan, sized, exited, tasks, backing, sinkVars, envVars>>

\* onFlushDone: only a latched trigger starts the next flush.
DueBug(t) == FALSE

Due(t) == queued[t]

FlushDone(t) ==
    /\ flush[t].phase = "done" /\ t \notin exited
    /\ \/ /\ Due(t)
          /\ flush' = [flush EXCEPT ![t] = FlushOf(batch[t], sized[t])]
          /\ batch' = [batch EXCEPT ![t] = <<>>]
          /\ queued' = [queued EXCEPT ![t] = FALSE]
          /\ timer' = [timer EXCEPT ![t] = FALSE]
       \/ /\ ~Due(t)
          /\ flush' = [flush EXCEPT ![t] = Idle]
          /\ UNCHANGED <<batch, queued, timer>>
    /\ UNCHANGED <<queueVars, stage, msgChan, tableChan, sized, exited, tasks, backing, sinkVars, envVars>>

\* drainAndExit, once the closed channel is empty: the flush in flight is
\* waited for, the remainder flushed, and the loop returns.
ChannelClosed(t) == stage = "closing" /\ tableChan[t] = <<>> /\ t \notin exited

DrainFlush(t) ==
    /\ ChannelClosed(t) /\ flush[t].phase \in {"idle", "done"} /\ batch[t] # <<>>
    /\ flush' = [flush EXCEPT ![t] = FlushOf(batch[t], sized[t])]
    /\ batch' = [batch EXCEPT ![t] = <<>>]
    /\ queued' = [queued EXCEPT ![t] = FALSE]
    /\ timer' = [timer EXCEPT ![t] = FALSE]
    /\ UNCHANGED <<queueVars, stage, msgChan, tableChan, sized, exited, tasks, backing, sinkVars, envVars>>

LoopExits(t) ==
    /\ ChannelClosed(t) /\ flush[t].phase \in {"idle", "done"} /\ batch[t] = <<>>
    /\ exited' = exited \cup {t}
    /\ UNCHANGED <<queueVars, stage, msgChan, tableChan, batch, sized, timer, queued, flush, tasks, backing,
                   sinkVars, envVars>>

-----------------------------------------------------------------------------
(* One flush: flushTable and flushGroup.                                   *)

To(t, f) == flush' = [flush EXCEPT ![t] = f]
Phase(t, phase) == To(t, [flush[t] EXCEPT !.phase = phase])

\* The tenant is on no pool: its DLQ switch is asked once for the batch.
FlushParks(t) ==
    /\ flush[t].phase = "begin" /\ ~settings.pool
    /\ To(t, IF settings.dlq THEN [flush[t] EXCEPT !.phase = "park", !.group = flush[t].later, !.later = {}]
             ELSE Emptied("done"))
    /\ UNCHANGED <<queueVars, stage, msgChan, loopVars, tasks, backing, sinkVars, envVars>>

\* The batch was begun with no limits, or the backoff turns the flush away.
FlushHandsBack(t) ==
    /\ flush[t].phase = "begin" /\ settings.pool
    /\ ~flush[t].ok \/ t \in backing
    /\ Nak(Unsettled(flush[t]))
    /\ To(t, Emptied("done"))
    /\ UNCHANGED <<acked, fetched, consuming, stage, msgChan, loopVars, tasks, backing, sinkVars, envVars>>

\* What flushTable goes on to when a group, and flushGroup when a row, is done.
NextGroup(f) ==
    IF f.later = {} THEN Emptied("close")
    ELSE [f EXCEPT !.phase = "bulk", !.group = FirstGroup(f), !.later = f.later \ FirstGroup(f)]

NextRow(f, i) ==
    IF f.group = {i} THEN NextGroup(f)
    ELSE [f EXCEPT !.phase = "isolate", !.group = f.group \ {i}]

FlushTries(t) ==
    /\ flush[t].phase = "begin" /\ settings.pool /\ flush[t].ok /\ t \notin backing
    /\ To(t, NextGroup(flush[t]))
    /\ UNCHANGED <<queueVars, stage, msgChan, loopVars, tasks, backing, sinkVars, envVars>>

\* What an INSERT of rows may meet.  ClickHouse judges rows only when it is
\* up and the tenant still has a pool; a request that got no answer may
\* have been written all the same.
Answers(ms) ==
    IF ~settings.pool THEN {"unjudged"}
    ELSE IF server = "down" THEN {"unjudged", "lost"}
    ELSE IF \E m \in ms : Kind[m] = "bad" THEN {"rejected"} ELSE {"ok"}

Written(ms, ans) ==
    IF ans = "ok" \/ (ans = "lost" /\ \A m \in ms : Kind[m] = "good")
    THEN stored' = stored \cup ms ELSE UNCHANGED stored

\* The group's bulk INSERT.
Bulk(t) ==
    LET f == flush[t]
        ms == At(f, f.group)
    IN /\ f.phase = "bulk"
       /\ \E ans \in Answers(ms) :
            /\ Written(ms, ans)
            /\ \/ ans = "ok" /\ Phase(t, "bump")
               \/ ans = "rejected" /\ Phase(t, "isolate")
               \/ ans \in {"unjudged", "lost"} /\ Phase(t, "fail")
               \/ ans = "unjudged" /\ server = "down" /\ Cardinality(f.group) > 1 /\ Phase(t, "isolate")   \* Splittable
       /\ UNCHANGED <<queueVars, stage, msgChan, loopVars, tasks, backing, bumped, dlq, dropped, envVars>>

\* invalidate: the namespaces a batch changes, "" being the whole table,
\* which covers every scope of it.
NamespacesBug(ms) == {Scope[m] : m \in ms} \ {""}

Namespaces(ms) == IF \E m \in ms : Scope[m] = "" THEN {""} ELSE {Scope[m] : m \in ms}

Covered(ms) == {m \in ms : {"", Scope[m]} \cap Namespaces(ms) # {}}

\* handleSuccess, of the group or of one row: invalidate, and only then ack
\* in the background.
Succeed(t, ms, f) ==
    /\ bumped' = bumped \cup Covered(ms)
    /\ tasks' = tasks \cup {<<"ack", m>> : m \in ms}
    /\ To(t, f)
    /\ UNCHANGED <<queueVars, stage, msgChan, loopVars, backing, stored, dlq, dropped, envVars>>

Bump(t) ==
    LET f == flush[t]
    IN \/ f.phase = "bump" /\ Succeed(t, At(f, f.group), NextGroup(f))
       \/ /\ f.phase = "bumpOne"
          /\ \E i \in f.group : First(f.group, i) /\ Succeed(t, {f.rows[i]}, NextRow(f, i))

\* Isolation: the INSERT of one row.  A rejected row meets the DLQ switch;
\* one that was not judged, and the rest, go back to the queue.
RefusedRow(t, i) == IF settings.dlq THEN Phase(t, "parkOne") ELSE To(t, NextRow(flush[t], i))

UnjudgedBug(t) == Phase(t, "parkOne")

Unjudged(t) == Phase(t, "fail")

Isolate(t) ==
    LET f == flush[t]
    IN /\ f.phase = "isolate"
       /\ \E i \in f.group : First(f.group, i) /\ \E ans \in Answers({f.rows[i]}) :
            /\ Written({f.rows[i]}, ans)
            /\ \/ ans = "ok" /\ Phase(t, "bumpOne")
               \/ ans = "rejected" /\ RefusedRow(t, i)
               \/ ans \in {"unjudged", "lost"} /\ Unjudged(t)
       /\ UNCHANGED <<queueVars, stage, msgChan, loopVars, tasks, backing, bumped, dlq, dropped, envVars>>

\* parkOnDLQ, of a batch's rows in turn or of an isolated one: the copy is
\* published, ...
Parked(f, i) ==
    IF f.phase \in {"parkOne", "parkOneAck"} THEN NextRow(f, i)
    ELSE IF f.group = {i} THEN Emptied("done")
    ELSE [f EXCEPT !.phase = "park", !.group = f.group \ {i}]

AwaitsAck(f) == [f EXCEPT !.phase = IF f.phase = "park" THEN "parkAck" ELSE "parkOneAck"]

\* A publish that fails leaves the row unacked.
NotParkedBug(f, i) == AwaitsAck(f)

NotParked(f, i) == Parked(f, i)

Park(t) ==
    LET f == flush[t]
    IN /\ f.phase \in {"park", "parkOne"}
       /\ \E i \in f.group : First(f.group, i) /\
            \/ /\ dlq' = dlq \cup {f.rows[i]}
               /\ To(t, AwaitsAck(f))
               /\ UNCHANGED faults
            \/ /\ Fault("dlq")
               /\ To(t, NotParked(f, i))
               /\ UNCHANGED dlq
       /\ UNCHANGED <<queueVars, stage, msgChan, loopVars, tasks, backing, stored, bumped, dropped,
                      settings, server, unserved>>

\* ... and the original acked.
ParkAck(t) ==
    LET f == flush[t]
    IN /\ f.phase \in {"parkAck", "parkOneAck"}
       /\ \E i \in f.group :
            /\ First(f.group, i)
            /\ \/ Ack({f.rows[i]}) /\ UNCHANGED faults
               \/ Fault("ack") /\ UNCHANGED <<avail, acked>>
            /\ To(t, Parked(f, i))
       /\ UNCHANGED <<fetched, consuming, stage, msgChan, loopVars, tasks, backing, sinkVars, settings, server, unserved>>

\* fail and retryLater: the rows not settled go back, those of the later
\* groups too.  A failure of the server holds back every table of the pool;
\* one of the table alone also closes the pool's backoff.
Fails(t) ==
    /\ flush[t].phase = "fail"
    /\ Nak(Unsettled(flush[t]))
    /\ backing' \in {Tables, {t}, backing \cup {t}}
    /\ To(t, Emptied("done"))
    /\ UNCHANGED <<acked, fetched, consuming, stage, msgChan, loopVars, tasks, sinkVars, envVars>>

\* closeBackoff of the pool and the table; another table's own stays.
Close(t) ==
    /\ flush[t].phase = "close"
    /\ backing' \in {{}, backing \ {t}}
    /\ Phase(t, "done")
    /\ UNCHANGED <<queueVars, stage, msgChan, loopVars, tasks, sinkVars, envVars>>

BackoffElapses(t) ==
    /\ t \in backing /\ backing' = backing \ {t}
    /\ UNCHANGED <<queueVars, stage, msgChan, loopVars, flush, tasks, sinkVars, envVars>>

-----------------------------------------------------------------------------
(* Background work on ackWg.                                               *)

\* The acks of handleSuccess, and of a poison message that is dropped.
AckTask(x) ==
    /\ x \in tasks /\ x[1] \in {"ack", "parkAck", "drop"}
    /\ tasks' = tasks \ {x}
    /\ \/ /\ Ack({x[2]}) /\ UNCHANGED faults
          /\ dropped' = IF x[1] = "drop" THEN dropped \cup {x[2]} ELSE dropped
       \/ Fault("ack") /\ UNCHANGED <<avail, acked, dropped>>
    /\ UNCHANGED <<fetched, consuming, stage, msgChan, loopVars, flush, backing, stored, bumped, dlq,
                   settings, server, unserved>>

\* rejectPoison's parkOnDLQ: a publish that fails leaves the message unacked.
AfterFailedPark(m) == {}

ParkTask(x) ==
    /\ x \in tasks /\ x[1] = "park"
    /\ \/ /\ dlq' = dlq \cup {x[2]}
          /\ tasks' = (tasks \ {x}) \cup {<<"parkAck", x[2]>>}
          /\ UNCHANGED faults
       \/ /\ Fault("dlq") /\ tasks' = (tasks \ {x}) \cup AfterFailedPark(x[2])
          /\ UNCHANGED dlq
    /\ UNCHANGED <<queueVars, stage, msgChan, loopVars, flush, backing, stored, bumped, dropped,
                   settings, server, unserved>>

-----------------------------------------------------------------------------
(* The environment.                                                        *)

ServerTurns ==
    /\ server' = IF server = "up" THEN "down" ELSE "up"
    /\ UNCHANGED <<queueVars, stage, msgChan, loopVars, flush, tasks, backing, sinkVars, settings, unserved, faults>>

Reload ==
    /\ Fault("reload")
    /\ settings' \in [pool : BOOLEAN, limits : BOOLEAN, dlq : BOOLEAN] \ {settings}
    /\ unserved' = (unserved \/ ~settings'.pool)
    /\ UNCHANGED <<queueVars, stage, msgChan, loopVars, flush, tasks, backing, sinkVars, server>>

\* The process dies, or its shutdown deadline passes, and one starts again:
\* what was delivered and not acked is delivered again.
Crash ==
    /\ Fault("crash") /\ stage # "stopped"
    /\ avail' = Scenes[scene].msgs \ acked /\ fetched' = <<>> /\ consuming' = TRUE
    /\ stage' = "run" /\ msgChan' = <<>>
    /\ tableChan' = [t \in Tables |-> <<>>] /\ batch' = [t \in Tables |-> <<>>]
    /\ sized' = [t \in Tables |-> TRUE]
    /\ timer' = [t \in Tables |-> FALSE] /\ queued' = [t \in Tables |-> FALSE]
    /\ flush' = [t \in Tables |-> Idle]
    /\ exited' = {} /\ tasks' = {} /\ backing' = {}
    /\ UNCHANGED <<acked, sinkVars, settings, server, unserved>>

Dispatch == Route \/ Halted \/ CloseTables \/ Drained \/ Abandon \/ Stop

TableStep(t) ==
    \/ AddTurnedAway(t) \/ AddUnconfigured(t) \/ AddRow(t)
    \/ FlushDone(t) \/ DrainFlush(t) \/ LoopExits(t)

FlushStep(t) ==
    \/ FlushParks(t) \/ FlushHandsBack(t) \/ FlushTries(t) \/ Bulk(t) \/ Bump(t) \/ Isolate(t)
    \/ Park(t) \/ ParkAck(t) \/ Fails(t) \/ Close(t)

TaskStep(x) == AckTask(x) \/ ParkTask(x)

Next ==
    /\ \/ \E m \in Msgs : Fetch(m) \/ Redeliver(m)
       \/ Handle \/ Dispatch \/ Cancel \/ DeliveryEnds
       \/ \E t \in Tables : TableStep(t) \/ TimerFires(t) \/ FlushStep(t) \/ BackoffElapses(t)
       \/ \E x \in tasks : TaskStep(x)
       \/ ServerTurns \/ Reload \/ Crash
    /\ UNCHANGED scene

Spec == Init /\ [][Next]_<<vars, scene>>

TaskKinds == {"ack", "park", "parkAck", "drop"}

\* Goroutines run, INSERTs and acks end, timers fire, the queue delivers
\* and redelivers.  Nothing makes ClickHouse come back.
Fairness ==
    /\ \A m \in Msgs : WF_vars(Fetch(m)) /\ WF_vars(Redeliver(m))
    /\ WF_vars(Handle) /\ WF_vars(Dispatch)
    /\ \A t \in Tables : WF_vars(TableStep(t)) /\ WF_vars(TimerFires(t)) /\ WF_vars(FlushStep(t))
                         /\ WF_vars(BackoffElapses(t))
    /\ \A x \in TaskKinds \X Msgs : WF_vars(TaskStep(x))

LiveSpec == Spec /\ Fairness

-----------------------------------------------------------------------------
(* Properties.                                                             *)

TypeOK ==
    /\ avail \subseteq Msgs /\ acked \subseteq Msgs /\ avail \cap acked = {}
    /\ fetched \in Seq(Msgs) /\ consuming \in BOOLEAN
    /\ stage \in Stages /\ msgChan \in Seq(Msgs)
    /\ tableChan \in [Tables -> Seq(Msgs)] /\ batch \in [Tables -> Seq(Msgs)]
    /\ sized \in [Tables -> BOOLEAN] /\ timer \in [Tables -> BOOLEAN] /\ queued \in [Tables -> BOOLEAN]
    /\ flush \in [Tables -> [phase : FlushPhases, ok : BOOLEAN, rows : Seq(Msgs),
                             group : SUBSET Nat, later : SUBSET Nat]]
    /\ exited \subseteq Tables /\ tasks \subseteq TaskKinds \X Msgs /\ backing \subseteq Tables
    /\ settings \in [pool : BOOLEAN, limits : BOOLEAN, dlq : BOOLEAN] /\ server \in {"up", "down"}
    /\ stored \subseteq Msgs /\ bumped \subseteq stored /\ dlq \subseteq Msgs /\ dropped \subseteq Msgs
    /\ unserved \in BOOLEAN /\ faults \in 0..Scenes[scene].maxFaults /\ scene \in DOMAIN Scenes

\* The queue deletes a message only when ClickHouse or the dead-letter queue
\* holds it, or it is poison and the DLQ was off: no order of failures,
\* redeliveries, reloads and crashes loses a row.
NoRowLost == acked \subseteq stored \cup dlq \cup {m \in dropped : Kind[m] = "poison"}

\* A row ClickHouse would take is dead-lettered only when its tenant had no
\* pool: no outage, and no batch it shares with a refused row, parks it
\* (flushTable: "none to the DLQ").
OnlyRefusedParked == \A m \in dlq : Kind[m] = "good" => unserved

\* A row acked as written had its cache namespaces invalidated first: an
\* ack the cache never heard of would leave stale results for good, since
\* the row is not delivered again (handleSuccess).
InvalidatedFirst == \A m \in acked : m \in stored /\ m \notin dlq => m \in bumped

\* Rows in a batch have something that will flush them: their deadline, a
\* trigger latched behind the running flush, or the shutdown drain.
NoBatchStranded ==
    \A t \in Tables : batch[t] # <<>> =>
        timer[t] \/ (queued[t] /\ flush[t].phase # "idle") \/ ChannelClosed(t)

\* A halting consumer gives its units up only when the worker holds no
\* delivery: each was settled, or handed back before a later owner could
\* be given anything newer (dispatchLoop).
UnitsGivenUpEmpty == Halts /\ stage = "stopped" => InHand = {} /\ tasks = {}

\* Once ClickHouse and the settings stay well, and the worker is not
\* stopped, every message is settled in the end, and a settled one stays so.
Well == server = "up" /\ settings = [pool |-> TRUE, limits |-> TRUE, dlq |-> TRUE]

Settles == <>[](Well /\ stage = "run") => <>(Scenes[scene].msgs \subseteq acked)

\* A stop always ends, with ClickHouse down too: no loop, flush or ack
\* waits for another that waits for it.
StopEnds == stage # "run" ~> (stage = "stopped" \/ stage = "run")
=============================================================================
