-------------------------- MODULE IngestWorkerProofs --------------------------
(***************************************************************************)
(* Proofs about the ingest worker: IngestWorker, for any messages, tables, *)
(* batch limit, scenes and numbers of failures, and Backoff, for every set *)
(* of loops, tables, rows and caps.  The two modules share no state.       *)
(*                                                                         *)
(* That a message is deleted only once it is somewhere is a matter of what *)
(* each step of a flush may rely on: the phase of a flush says which of    *)
(* its rows ClickHouse or the DLQ already holds (Progress), and a task     *)
(* waiting in the background carries what is owed for it (Owed).  That     *)
(* nothing is in hand when the units are given up is a matter of the order *)
(* of the drain (Drain): each stage begins where the one before has        *)
(* emptied what nothing can fill again.                                    *)
(*                                                                         *)
(* That a probe is reported rests on BreakerInv: a probe is out only of an *)
(* open breaker whose window has elapsed.  Without it the early return of  *)
(* fail (window still running) could leave the flag set behind a flush     *)
(* that has reported.                                                      *)
(***************************************************************************)
EXTENDS IngestWorker, Backoff, SequenceTheorems, FiniteSetTheorems, TLAPS

-----------------------------------------------------------------------------
(* The inductive invariant.                                                *)

\* Poison never gets past route.
Routed(ms) == ms \subseteq Msgs /\ \A m \in ms : Kind[m] # "poison"

Clean ==
    /\ \A t \in Tables : Routed(Elems(tableChan[t])) /\ Routed(Elems(batch[t])) /\ Routed(Elems(flush[t].rows))
    /\ Routed(stored)

\* A flush counts its rows by their positions in the batch, and is over
\* when it has none left.
PlacedIn(f) ==
    /\ f.group \cup f.later \subseteq DOMAIN f.rows
    /\ f.phase \in {"idle", "close", "done"} => f.group \cup f.later = {}

Placed == \A t \in Tables : PlacedIn(flush[t])

\* What has become of the rows a flush is about to settle: ClickHouse holds
\* the ones in st, the DLQ those in d, and out says if the tenant has been on
\* no pool.
ProgressIn(f, st, d, out) ==
    /\ f.phase = "bump" => At(f, f.group) \subseteq st
    /\ f.phase \in {"park", "parkAck"} => out
    /\ \A i \in f.group : First(f.group, i) =>
        /\ f.phase = "bumpOne" => f.rows[i] \in st
        /\ f.phase \in {"parkAck", "parkOneAck"} => f.rows[i] \in d
        /\ f.phase \in {"parkOne", "parkOneAck"} => Kind[f.rows[i]] = "bad"

Progress == \A t \in Tables : ProgressIn(flush[t], stored, dlq, unserved)

\* What has become of the messages of the background work: those in b were
\* invalidated.
OwedFor(x, b, d) ==
    /\ x[1] = "ack" => x[2] \in b
    /\ x[1] = "parkAck" => x[2] \in d
    /\ x[1] \in {"park", "drop"} => Kind[x[2]] = "poison"

Owed == \A x \in tasks : OwedFor(x, bumped, dlq)

\* Where a message that was deleted is, and which may be on the DLQ.
Kept ==
    /\ \A m \in acked : m \in bumped \cup dlq \/ (m \in dropped /\ Kind[m] = "poison")
    /\ OnlyRefusedParked
    /\ ~settings.pool => unserved

\* Batched rows have something to flush them, and a timer something to flush.
Armed ==
    \A t \in Tables :
        /\ batch[t] # <<>> => timer[t] \/ (queued[t] /\ flush[t].phase # "idle")
        /\ timer[t] => batch[t] # <<>>

\* The order of the drain.
Drain ==
    /\ Halts /\ stage \notin {"run", "halting"} => fetched = <<>>
    /\ Halts /\ stage \in {"closing", "abandon", "stop", "stopped"} => msgChan = <<>>
    /\ stage \in {"run", "halting", "drain"} => exited = {}
    /\ \A t \in exited :
        tableChan[t] = <<>> /\ batch[t] = <<>> /\ flush[t].phase \in {"idle", "done"}
    /\ stage \in {"abandon", "stop", "stopped"} => exited = Tables /\ tasks = {}

WorkerInv ==
    /\ TypeOK /\ Clean /\ Placed /\ Progress /\ Owed /\ Kept /\ Armed /\ Drain

-----------------------------------------------------------------------------
(* Sequences and positions.                                                *)

\* An empty channel holds nothing.
LEMMA ElemsEmpty == Elems(<<>>) = {}
    BY DEF Elems

\* A channel's elements after a send.
LEMMA ElemsAppend ==
    ASSUME NEW S, NEW s \in Seq(S), NEW e \in S
    PROVE  /\ Append(s, e) \in Seq(S) /\ Append(s, e) # <<>>
           /\ Elems(Append(s, e)) = Elems(s) \cup {e}
<1>1. /\ Append(s, e) \in Seq(S) /\ Append(s, e) # <<>> /\ Len(Append(s, e)) = Len(s) + 1
      /\ \A i \in 1..Len(s) : Append(s, e)[i] = s[i]
      /\ Append(s, e)[Len(s) + 1] = e
    BY AppendProperties
<1>2. Len(s) \in Nat  BY LenProperties
<1> QED  BY <1>1, <1>2 DEF Elems

\* ... after a receive.
LEMMA ElemsTail ==
    ASSUME NEW S, NEW s \in Seq(S), s # <<>>
    PROVE  /\ Tail(s) \in Seq(S) /\ Head(s) \in S /\ Head(s) \in Elems(s)
           /\ Elems(Tail(s)) \subseteq Elems(s)
<1>1. /\ Head(s) \in S /\ Tail(s) \in Seq(S) /\ Len(Tail(s)) = Len(s) - 1
      /\ \A i \in 1..Len(Tail(s)) : Tail(s)[i] = s[i + 1]
    BY HeadTailProperties
<1>2. Len(s) \in Nat /\ Len(s) > 0  BY LenProperties, EmptySeq
<1>3. Head(s) = s[1]  OBVIOUS
<1> QED  BY <1>1, <1>2, <1>3 DEF Elems

\* ... and as the values of its positions.
LEMMA ElemsIn ==
    ASSUME NEW S, NEW s \in Seq(S)
    PROVE  Elems(s) = {s[i] : i \in DOMAIN s} /\ Elems(s) \subseteq S /\ DOMAIN s \subseteq Nat
    BY LenProperties, ElementOfSeq DEF Elems

\* A group has one first position.
LEMMA OneFirst ==
    ASSUME NEW S, S \subseteq Nat, NEW i, NEW j, First(S, i), First(S, j)
    PROVE  i = j
    BY DEF First

Flushes == [phase : FlushPhases, ok : BOOLEAN, rows : Seq(Msgs), group : SUBSET Nat, later : SUBSET Nat]

\* Every row that is invalidated is covered.
LEMMA AllCovered == ASSUME NEW ms PROVE Covered(ms) = ms
<1>1. ASSUME NEW m \in ms  PROVE {"", Scope[m]} \cap Namespaces(ms) # {}
    <2>1. CASE \E x \in ms : Scope[x] = ""  BY <2>1 DEF Namespaces
    <2>2. CASE ~\E x \in ms : Scope[x] = ""
        <3>1. Scope[m] \in Namespaces(ms)  BY <2>2 DEF Namespaces
        <3> QED  BY <3>1
    <2> QED  BY <2>1, <2>2
<1> QED  BY <1>1 DEF Covered

-----------------------------------------------------------------------------
(* A step of one table's loop or flush.                                    *)

\* What it does to the table: its channel, its batch, the batch's deadline,
\* the latch, and its flush.
TableMoves(t, chan, bs, armed, latched, f) ==
    /\ tableChan' = [tableChan EXCEPT ![t] = chan] /\ batch' = [batch EXCEPT ![t] = bs]
    /\ timer' = [timer EXCEPT ![t] = armed] /\ queued' = [queued EXCEPT ![t] = latched]
    /\ flush' = [flush EXCEPT ![t] = f]
    /\ chan \in Seq(Msgs) /\ bs \in Seq(Msgs) /\ armed \in BOOLEAN /\ latched \in BOOLEAN /\ f \in Flushes
    /\ Routed(Elems(chan)) /\ Routed(Elems(bs)) /\ Routed(Elems(f.rows)) /\ PlacedIn(f)
    /\ bs # <<>> => armed \/ (latched /\ f.phase # "idle")
    /\ armed => bs # <<>>
    /\ sized' \in [Tables -> BOOLEAN]
    /\ UNCHANGED <<fetched, consuming, stage, msgChan, exited, scene>>

\* What it does outside the worker.
SinksMove ==
    /\ avail' \subseteq Msgs /\ acked' \subseteq Msgs /\ avail' \cap acked' = {}
    /\ \A m \in acked' : m \in acked \/ m \in dlq'
    /\ Routed(stored') /\ stored \subseteq stored'
    /\ bumped \subseteq bumped' /\ bumped' \subseteq stored'
    /\ dlq \subseteq dlq' /\ dlq' \subseteq Msgs
    /\ \A m \in dlq' : m \in dlq \/ Kind[m] = "bad" \/ unserved
    /\ UNCHANGED <<dropped, settings, server, unserved>>
    /\ tasks' \subseteq TaskKinds \X Msgs
    /\ \A x \in tasks' : x \in tasks \/ OwedFor(x, bumped', dlq')
    /\ backing' \subseteq Tables
    /\ faults' \in 0..Scenes[scene].maxFaults

\* What a flush has left to do stays accounted for as the sinks grow.
LEMMA Progresses ==
    ASSUME NEW f, NEW st, NEW d, NEW out, ProgressIn(f, st, d, out),
           NEW st2, NEW d2, NEW out2, st \subseteq st2, d \subseteq d2, out => out2
    PROVE  ProgressIn(f, st2, d2, out2)
    BY DEF ProgressIn

\* A step of one loop that hands its rows on keeps the invariant.
LEMMA TableKeeps ==
    ASSUME WorkerInv, NEW t \in Tables, t \notin exited,
           NEW chan, NEW bs, NEW armed, NEW latched, NEW f,
           TableMoves(t, chan, bs, armed, latched, f), SinksMove,
           ProgressIn(f, stored', dlq', unserved)
    PROVE  WorkerInv'
<1>1. /\ tableChan \in [Tables -> Seq(Msgs)] /\ batch \in [Tables -> Seq(Msgs)]
      /\ timer \in [Tables -> BOOLEAN] /\ queued \in [Tables -> BOOLEAN] /\ flush \in [Tables -> Flushes]
    BY DEF WorkerInv, TypeOK, Flushes
<1>2. /\ tableChan'[t] = chan /\ batch'[t] = bs /\ timer'[t] = armed /\ queued'[t] = latched
      /\ flush'[t] = f
    BY <1>1 DEF TableMoves
<1>3. \A u \in Tables \ {t} :
        /\ tableChan'[u] = tableChan[u] /\ batch'[u] = batch[u] /\ timer'[u] = timer[u]
        /\ queued'[u] = queued[u] /\ flush'[u] = flush[u]
    BY <1>1 DEF TableMoves
<1>4. TypeOK'
    <2>1. /\ tableChan' \in [Tables -> Seq(Msgs)] /\ batch' \in [Tables -> Seq(Msgs)]
          /\ timer' \in [Tables -> BOOLEAN] /\ queued' \in [Tables -> BOOLEAN] /\ flush' \in [Tables -> Flushes]
        BY <1>1 DEF TableMoves
    <2>2. /\ avail' \subseteq Msgs /\ acked' \subseteq Msgs /\ avail' \cap acked' = {}
          /\ tasks' \subseteq TaskKinds \X Msgs /\ backing' \subseteq Tables
          /\ stored' \subseteq Msgs /\ bumped' \subseteq stored' /\ dlq' \subseteq Msgs
          /\ faults' \in 0..Scenes[scene].maxFaults
          /\ UNCHANGED <<dropped, settings, server, unserved>>
        BY DEF SinksMove, Routed
    <2>3. sized' \in [Tables -> BOOLEAN] /\ UNCHANGED <<fetched, consuming, stage, msgChan, exited, scene>>
        BY DEF TableMoves
    <2> QED  BY <2>1, <2>2, <2>3 DEF WorkerInv, TypeOK, Flushes
<1>5. Clean'
    <2>1. \A u \in Tables :
            Routed(Elems(tableChan'[u])) /\ Routed(Elems(batch'[u])) /\ Routed(Elems(flush'[u].rows))
        BY <1>2, <1>3 DEF TableMoves, WorkerInv, Clean
    <2> QED  BY <2>1 DEF Clean, SinksMove, Elems
<1>6. Placed'
    <2>1. \A u \in Tables : PlacedIn(flush'[u])  BY <1>2, <1>3 DEF TableMoves, WorkerInv, Placed
    <2> QED  BY <2>1 DEF Placed, PlacedIn
<1>7. Progress'
    <2>1. stored \subseteq stored' /\ dlq \subseteq dlq' /\ unserved' = unserved  BY DEF SinksMove
    <2>2. \A u \in Tables \ {t} : ProgressIn(flush'[u], stored', dlq', unserved)
        BY <1>3, <2>1, Progresses DEF WorkerInv, Progress
    <2>3. \A u \in Tables : ProgressIn(flush'[u], stored', dlq', unserved)  BY <1>2, <2>2
    <2> QED  BY <2>1, <2>3 DEF Progress
<1>8. Owed'
    <2>1. \A x \in tasks' : OwedFor(x, bumped', dlq')
        BY DEF SinksMove, WorkerInv, Owed, OwedFor
    <2> QED  BY <2>1 DEF Owed
<1>9. Kept'
    BY DEF SinksMove, WorkerInv, Kept, OnlyRefusedParked
<1>10. Armed'
    <2>1. \A u \in Tables :
            /\ batch'[u] # <<>> => timer'[u] \/ (queued'[u] /\ flush'[u].phase # "idle")
            /\ timer'[u] => batch'[u] # <<>>
        BY <1>2, <1>3 DEF TableMoves, WorkerInv, Armed
    <2> QED  BY <2>1 DEF Armed
<1>11. Drain'
    <2>1. exited \subseteq Tables \ {t}  BY DEF WorkerInv, TypeOK
    <2>2. \A u \in exited :
            tableChan'[u] = <<>> /\ batch'[u] = <<>> /\ flush'[u].phase \in {"idle", "done"}
        BY <1>3, <2>1 DEF WorkerInv, Drain
    <2>3. stage \notin {"abandon", "stop", "stopped"}  BY DEF WorkerInv, Drain
    <2> QED  BY <2>2, <2>3 DEF TableMoves, WorkerInv, Drain
<1> QED  BY <1>4, <1>5, <1>6, <1>7, <1>8, <1>9, <1>10, <1>11 DEF WorkerInv

\* A table whose loop has returned has no row, no flush and no deadline.
LEMMA ExitedQuiet ==
    ASSUME WorkerInv, NEW t \in Tables, t \in exited
    PROVE  tableChan[t] = <<>> /\ batch[t] = <<>> /\ flush[t].phase \in {"idle", "done"} /\ ~timer[t]
    BY DEF WorkerInv, Drain, Armed

\* What the invariant says of one table.
LEMMA TableOf ==
    ASSUME WorkerInv, NEW t \in Tables
    PROVE  /\ tableChan[t] \in Seq(Msgs) /\ batch[t] \in Seq(Msgs) /\ sized[t] \in BOOLEAN
           /\ timer[t] \in BOOLEAN /\ queued[t] \in BOOLEAN /\ flush[t] \in Flushes
           /\ Routed(Elems(tableChan[t])) /\ Routed(Elems(batch[t])) /\ Routed(Elems(flush[t].rows))
           /\ PlacedIn(flush[t]) /\ ProgressIn(flush[t], stored, dlq, unserved)
           /\ batch[t] # <<>> => timer[t] \/ (queued[t] /\ flush[t].phase # "idle")
           /\ timer[t] => batch[t] # <<>>
    BY DEF WorkerInv, TypeOK, Flushes, Clean, Placed, Progress, Armed

\* What a flush has left to settle are messages, none of them poison.
LEMMA UnsettledRouted ==
    ASSUME WorkerInv, NEW t \in Tables
    PROVE  /\ \A i \in flush[t].group \cup flush[t].later :
                flush[t].rows[i] \in Msgs /\ Kind[flush[t].rows[i]] # "poison"
           /\ Routed(At(flush[t], flush[t].group)) /\ Unsettled(flush[t]) \subseteq Msgs
           /\ flush[t].group \subseteq Nat /\ flush[t].later \subseteq Nat
<1>1. /\ flush[t].rows \in Seq(Msgs) /\ flush[t].group \subseteq Nat /\ flush[t].later \subseteq Nat
      /\ flush[t].group \cup flush[t].later \subseteq DOMAIN flush[t].rows /\ Routed(Elems(flush[t].rows))
    BY TableOf DEF Flushes, PlacedIn
<1>2. Elems(flush[t].rows) = {flush[t].rows[i] : i \in DOMAIN flush[t].rows}  BY <1>1, ElemsIn
<1> QED  BY <1>1, <1>2 DEF Routed, At, Unsettled

\* What the queue holds, of the messages that come and go.
LEMMA NakTypes ==
    ASSUME WorkerInv, NEW ms, ms \subseteq Msgs, Nak(ms), acked' = acked
    PROVE  avail' \subseteq Msgs /\ acked' \subseteq Msgs /\ avail' \cap acked' = {}
    BY DEF WorkerInv, TypeOK, Nak

\* A step that touches nothing outside the worker but what it hands back.
LEMMA SinksStill ==
    ASSUME WorkerInv, avail' \subseteq Msgs, acked' = acked, avail' \cap acked = {},
           UNCHANGED <<sinkVars, tasks, settings, server, unserved>>, backing' \subseteq Tables,
           faults' \in 0..Scenes[scene].maxFaults
    PROVE  SinksMove
    BY DEF WorkerInv, TypeOK, Clean, SinksMove, sinkVars

\* The bounded faults, and what is up for delivery, have their types.
LEMMA FaultsStay ==
    ASSUME WorkerInv
    PROVE  /\ faults \in 0..Scenes[scene].maxFaults /\ avail \subseteq Msgs /\ avail \cap acked = {}
           /\ backing \subseteq Tables /\ acked \subseteq Msgs
    BY DEF WorkerInv, TypeOK

\* A fault that happens stays within the bound.
LEMMA FaultsCount ==
    ASSUME WorkerInv, NEW kind, Fault(kind)
    PROVE  faults' \in 0..Scenes[scene].maxFaults
<1>1. Scenes[scene].maxFaults \in Nat /\ faults \in 0..Scenes[scene].maxFaults
    BY WorkerAssumption DEF WorkerInv, TypeOK
<1> QED  BY <1>1 DEF Fault

-----------------------------------------------------------------------------
(* The table's loop.                                                       *)

\* A flush that has just taken a batch.
LEMMA FlushBegins ==
    ASSUME NEW bs \in Seq(Msgs), NEW ok \in BOOLEAN, Routed(Elems(bs)), NEW st, NEW d, NEW out
    PROVE  /\ FlushOf(bs, ok) \in Flushes /\ PlacedIn(FlushOf(bs, ok))
           /\ FlushOf(bs, ok).rows = bs /\ FlushOf(bs, ok).phase = "begin"
           /\ ProgressIn(FlushOf(bs, ok), st, d, out)
<1>1. DOMAIN bs \subseteq Nat  BY ElemsIn
<1> DEFINE f == FlushOf(bs, ok)
<1>2. /\ f \in Flushes /\ f.phase = "begin" /\ f.rows = bs /\ f.group = {} /\ f.later = DOMAIN bs
    BY <1>1 DEF FlushOf, Flushes, FlushPhases
<1> HIDE DEF f
<1>3. PlacedIn(f) /\ ProgressIn(f, st, d, out)  BY <1>2 DEF PlacedIn, ProgressIn
<1> QED  BY <1>2, <1>3 DEF f

\* A flush that has nothing left.
LEMMA FlushEmpties ==
    ASSUME NEW phase \in {"idle", "close", "done"}, NEW st, NEW d, NEW out
    PROVE  /\ Emptied(phase) \in Flushes /\ PlacedIn(Emptied(phase)) /\ Routed(Elems(Emptied(phase).rows))
           /\ Emptied(phase).phase = phase /\ ProgressIn(Emptied(phase), st, d, out)
<1> DEFINE f == Emptied(phase)
<1>1. /\ f.phase = phase /\ f.rows = <<>> /\ f.group = {} /\ f.later = {} /\ f.ok = TRUE
      /\ f = [phase |-> phase, ok |-> TRUE, rows |-> <<>>, group |-> {}, later |-> {}]
    BY DEF Emptied
<1>2. f \in Flushes
    <2>1. phase \in FlushPhases /\ <<>> \in Seq(Msgs) /\ {} \in SUBSET Nat  BY DEF FlushPhases
    <2> QED  BY <1>1, <2>1 DEF Flushes
<1> HIDE DEF f
<1>3. PlacedIn(f) /\ ProgressIn(f, st, d, out) /\ Routed(Elems(f.rows))
    BY <1>1, ElemsEmpty DEF PlacedIn, ProgressIn, Routed
<1> QED  BY <1>1, <1>2, <1>3 DEF f

\* A row the backoff turns away is handed back.
LEMMA AddTurnedAwayKeeps ==
    ASSUME WorkerInv, NEW t \in Tables, UNCHANGED scene,
           tableChan[t] # <<>>, tableChan' = [tableChan EXCEPT ![t] = Tail(@)],
           Nak({Head(tableChan[t])}),
           UNCHANGED <<acked, fetched, consuming, stage, msgChan, batch, sized, timer, queued, exited, flush, tasks,
                       backing, sinkVars, envVars>>
    PROVE  WorkerInv'
<1>1. /\ Tail(tableChan[t]) \in Seq(Msgs) /\ Head(tableChan[t]) \in Msgs
      /\ Routed(Elems(Tail(tableChan[t])))
    BY TableOf, ElemsTail DEF Routed
<1>2. t \notin exited  BY ExitedQuiet
<1>3. /\ batch' = [batch EXCEPT ![t] = batch[t]] /\ timer' = [timer EXCEPT ![t] = timer[t]]
      /\ queued' = [queued EXCEPT ![t] = queued[t]] /\ flush' = [flush EXCEPT ![t] = flush[t]]
      /\ sized' \in [Tables -> BOOLEAN]
    BY DEF WorkerInv, TypeOK
<1>4. TableMoves(t, Tail(tableChan[t]), batch[t], timer[t], queued[t], flush[t])
    BY <1>1, <1>3, TableOf DEF TableMoves
<1>5. SinksMove
    <2>1. avail' \subseteq Msgs /\ avail' \cap acked' = {}  BY <1>1, NakTypes
    <2> QED  BY <2>1, FaultsStay, SinksStill DEF envVars
<1>6. ProgressIn(flush[t], stored', dlq', unserved)  BY TableOf DEF sinkVars
<1> QED  BY <1>2, <1>4, <1>5, <1>6, TableKeeps

\* requestFlush: the batch goes into a flush, or waits with a trigger latched.
LEMMA RequestKeeps ==
    ASSUME WorkerInv, NEW t \in Tables, t \notin exited, NEW chan \in Seq(Msgs), Routed(Elems(chan)),
           NEW bs \in Seq(Msgs), Routed(Elems(bs)), bs # <<>>, NEW ok \in BOOLEAN, NEW armed \in BOOLEAN,
           tableChan' = [tableChan EXCEPT ![t] = chan], RequestFlush(t, bs, ok, armed),
           sized' \in [Tables -> BOOLEAN],
           UNCHANGED <<queueVars, stage, msgChan, exited, tasks, backing, sinkVars, envVars, scene>>
    PROVE  WorkerInv'
<1>1. SinksMove  BY FaultsStay, SinksStill DEF envVars, queueVars
<1>2. CASE flush[t].phase = "idle"
    <2>1. TableMoves(t, chan, <<>>, FALSE, FALSE, FlushOf(bs, ok))
        <3>1. Routed(Elems(<<>>)) /\ <<>> \in Seq(Msgs)  BY ElemsEmpty DEF Routed
        <3> QED  BY <1>2, <3>1, FlushBegins DEF TableMoves, RequestFlush, queueVars
    <2> QED  BY <1>1, <2>1, FlushBegins, TableKeeps
<1>3. CASE flush[t].phase # "idle"
    <2>1. flush' = [flush EXCEPT ![t] = flush[t]]  BY <1>3 DEF RequestFlush, WorkerInv, TypeOK
    <2>2. TableMoves(t, chan, bs, armed, TRUE, flush[t])
        BY <1>3, <2>1, TableOf DEF TableMoves, RequestFlush, Latch, queueVars
    <2>3. ProgressIn(flush[t], stored', dlq', unserved)  BY TableOf DEF sinkVars
    <2> QED  BY <1>1, <2>2, <2>3, TableKeeps
<1> QED  BY <1>2, <1>3

\* A row joins its table's batch: the batch has a timer or a trigger.
LEMMA AddRowKeeps == ASSUME WorkerInv, NEW t \in Tables, AddRow(t), UNCHANGED scene PROVE WorkerInv'
<1> DEFINE chan == Tail(tableChan[t])
           first == batch[t] = <<>>
           ok == IF first THEN settings.limits ELSE sized[t]
           armed == IF first THEN ok ELSE timer[t]
           bs == Append(batch[t], Head(tableChan[t]))
<1>1. tableChan[t] # <<>>  BY DEF AddRow
<1>2. /\ chan \in Seq(Msgs) /\ Head(tableChan[t]) \in Msgs /\ Routed(Elems(chan))
      /\ Head(tableChan[t]) \in Elems(tableChan[t])
    BY <1>1, TableOf, ElemsTail DEF Routed
<1>3. bs \in Seq(Msgs) /\ bs # <<>> /\ Elems(bs) = Elems(batch[t]) \cup {Head(tableChan[t])}
    BY <1>2, TableOf, ElemsAppend
<1>4. Routed(Elems(bs))  BY <1>2, <1>3, TableOf DEF Routed
<1>5. ok \in BOOLEAN /\ armed \in BOOLEAN
    <2>1. settings.limits \in BOOLEAN  BY DEF WorkerInv, TypeOK
    <2> QED  BY <2>1, TableOf
<1>6. t \notin exited  BY <1>1, ExitedQuiet
<1>7. /\ tableChan' = [tableChan EXCEPT ![t] = chan] /\ sized' = [sized EXCEPT ![t] = ok]
      /\ UNCHANGED <<queueVars, stage, msgChan, exited, tasks, backing, sinkVars, envVars>>
    BY DEF AddRow
<1>8. sized' \in [Tables -> BOOLEAN]  BY <1>5, <1>7 DEF WorkerInv, TypeOK
<1>9. \/ RequestFlush(t, bs, ok, armed)
      \/ /\ ok /\ batch' = [batch EXCEPT ![t] = bs] /\ timer' = [timer EXCEPT ![t] = armed]
         /\ UNCHANGED <<queued, flush>>
    BY DEF AddRow
<1>10. batch[t] = <<>> => armed = ok  OBVIOUS
<1>11. batch[t] # <<>> => armed = timer[t]  OBVIOUS
<1> HIDE DEF chan, first, ok, armed, bs
<1>12. CASE RequestFlush(t, bs, ok, armed)
    <2>1. UNCHANGED <<queueVars, stage, msgChan, exited, tasks, backing, sinkVars, envVars, scene>>
        BY <1>7
    <2>2. chan \in Seq(Msgs) /\ Routed(Elems(chan)) /\ tableChan' = [tableChan EXCEPT ![t] = chan]
        BY <1>2, <1>7
    <2>3. bs \in Seq(Msgs) /\ bs # <<>>  BY <1>3
    <2> QED  BY <1>4, <1>5, <1>6, <1>8, <1>12, <2>1, <2>2, <2>3, RequestKeeps
<1>13. CASE /\ ok /\ batch' = [batch EXCEPT ![t] = bs] /\ timer' = [timer EXCEPT ![t] = armed]
            /\ UNCHANGED <<queued, flush>>
    <2>1. queued' = [queued EXCEPT ![t] = queued[t]] /\ flush' = [flush EXCEPT ![t] = flush[t]]
        BY <1>13 DEF WorkerInv, TypeOK
    <2>2. armed \/ (queued[t] /\ flush[t].phase # "idle")
        BY <1>10, <1>11, <1>13, TableOf
    <2>3. TableMoves(t, chan, bs, armed, queued[t], flush[t])
        BY <1>2, <1>3, <1>4, <1>5, <1>7, <1>8, <1>13, <2>1, <2>2, TableOf DEF TableMoves, queueVars
    <2>4. SinksMove  BY <1>7, FaultsStay, SinksStill DEF envVars, queueVars
    <2>5. ProgressIn(flush[t], stored', dlq', unserved)  BY <1>7, TableOf DEF sinkVars
    <2> QED  BY <1>6, <2>3, <2>4, <2>5, TableKeeps
<1> QED  BY <1>9, <1>12, <1>13

\* The batch's timer asks for a flush.
LEMMA TimerFiresKeeps == ASSUME WorkerInv, NEW t \in Tables, TimerFires(t), UNCHANGED scene PROVE WorkerInv'
<1>1. timer[t] /\ RequestFlush(t, batch[t], sized[t], FALSE)
      /\ UNCHANGED <<queueVars, stage, msgChan, tableChan, sized, exited, tasks, backing, sinkVars, envVars>>
    BY DEF TimerFires
<1>2. batch[t] # <<>> /\ t \notin exited  BY <1>1, TableOf, ExitedQuiet
<1>3. /\ tableChan' = [tableChan EXCEPT ![t] = tableChan[t]] /\ sized' \in [Tables -> BOOLEAN]
    BY <1>1 DEF WorkerInv, TypeOK
<1>4. UNCHANGED <<queueVars, stage, msgChan, exited, tasks, backing, sinkVars, envVars, scene>>
    BY <1>1
<1>5. /\ tableChan[t] \in Seq(Msgs) /\ Routed(Elems(tableChan[t])) /\ batch[t] \in Seq(Msgs)
      /\ Routed(Elems(batch[t])) /\ sized[t] \in BOOLEAN
    BY TableOf
<1> QED  BY <1>1, <1>2, <1>3, <1>4, <1>5, RequestKeeps

\* A flush that ends is followed by one of what was batched, or by none.
LEMMA NextFlushKeeps ==
    ASSUME WorkerInv, NEW t \in Tables, t \notin exited,
           flush' = [flush EXCEPT ![t] = FlushOf(batch[t], sized[t])],
           batch' = [batch EXCEPT ![t] = <<>>], queued' = [queued EXCEPT ![t] = FALSE],
           timer' = [timer EXCEPT ![t] = FALSE],
           UNCHANGED <<queueVars, stage, msgChan, tableChan, sized, exited, tasks, backing, sinkVars, envVars, scene>>
    PROVE  WorkerInv'
<1>1. SinksMove  BY FaultsStay, SinksStill DEF envVars, queueVars
<1>2. /\ tableChan' = [tableChan EXCEPT ![t] = tableChan[t]] /\ sized' \in [Tables -> BOOLEAN]
    BY DEF WorkerInv, TypeOK
<1>3. Routed(Elems(<<>>)) /\ <<>> \in Seq(Msgs)  BY ElemsEmpty DEF Routed
<1> DEFINE f == FlushOf(batch[t], sized[t])
<1>4. /\ f \in Flushes /\ PlacedIn(f) /\ Routed(Elems(f.rows)) /\ ProgressIn(f, stored', dlq', unserved)
      /\ tableChan[t] \in Seq(Msgs) /\ Routed(Elems(tableChan[t]))
    BY TableOf, FlushBegins
<1> HIDE DEF f
<1>5. TableMoves(t, tableChan[t], <<>>, FALSE, FALSE, f)
    BY <1>2, <1>3, <1>4 DEF TableMoves, queueVars, f
<1> QED  BY <1>1, <1>4, <1>5, TableKeeps

\* A flush that is over lets the next, latched one start.
LEMMA FlushDoneKeeps == ASSUME WorkerInv, NEW t \in Tables, FlushDone(t), UNCHANGED scene PROVE WorkerInv'
<1>1. /\ t \notin exited /\ flush[t].phase = "done"
      /\ UNCHANGED <<queueVars, stage, msgChan, tableChan, sized, exited, tasks, backing, sinkVars, envVars>>
    BY DEF FlushDone
<1>2. CASE Due(t)  BY <1>1, <1>2, NextFlushKeeps DEF FlushDone
<1>3. CASE ~Due(t)
    <2>1. flush' = [flush EXCEPT ![t] = Emptied("idle")] /\ UNCHANGED <<batch, queued, timer>>
        BY <1>3 DEF FlushDone, Idle
    <2>2. batch[t] # <<>> => timer[t]  BY <1>3, TableOf DEF Due
    <2>3. /\ tableChan' = [tableChan EXCEPT ![t] = tableChan[t]] /\ sized' \in [Tables -> BOOLEAN]
          /\ batch' = [batch EXCEPT ![t] = batch[t]] /\ timer' = [timer EXCEPT ![t] = timer[t]]
          /\ queued' = [queued EXCEPT ![t] = queued[t]]
        BY <1>1, <2>1 DEF WorkerInv, TypeOK
    <2>4. TableMoves(t, tableChan[t], batch[t], timer[t], queued[t], Emptied("idle"))
        BY <1>1, <2>1, <2>2, <2>3, TableOf, FlushEmpties DEF TableMoves, queueVars
    <2>5. SinksMove  BY <1>1, FaultsStay, SinksStill DEF envVars, queueVars
    <2> QED  BY <1>1, <2>4, <2>5, FlushEmpties, TableKeeps
<1> QED  BY <1>2, <1>3

\* The drain flushes what the loop still holds.
LEMMA DrainFlushKeeps == ASSUME WorkerInv, NEW t \in Tables, DrainFlush(t), UNCHANGED scene PROVE WorkerInv'
    BY NextFlushKeeps DEF DrainFlush, ChannelClosed

\* The parts of the invariant that say nothing of the dispatch loop.
LEMMA PartsStay ==
    ASSUME WorkerInv,
           UNCHANGED <<tableChan, batch, flush, timer, queued, tasks, stored, bumped, dlq, unserved>>
    PROVE  Clean' /\ Placed' /\ Progress' /\ Owed' /\ Armed'
<1>1. Clean'  BY DEF WorkerInv, Clean, Elems, Routed
<1>2. Placed'  BY DEF WorkerInv, Placed, PlacedIn
<1>3. Progress'  BY DEF WorkerInv, Progress
<1>4. Owed'  BY DEF WorkerInv, Owed
<1>5. Armed'  BY DEF WorkerInv, Armed
<1> QED  BY <1>1, <1>2, <1>3, <1>4, <1>5

\* A loop exits with no row in hand.
LEMMA LoopExitsKeeps == ASSUME WorkerInv, NEW t \in Tables, LoopExits(t), UNCHANGED scene PROVE WorkerInv'
<1>1. /\ exited' = exited \cup {t} /\ stage = "closing" /\ tableChan[t] = <<>> /\ batch[t] = <<>>
      /\ flush[t].phase \in {"idle", "done"}
      /\ UNCHANGED <<queueVars, stage, msgChan, tableChan, batch, sized, timer, queued, flush, tasks, backing,
                     sinkVars, envVars>>
    BY DEF LoopExits, ChannelClosed
<1>2. TypeOK'  BY <1>1 DEF WorkerInv, TypeOK, queueVars, sinkVars, envVars
<1>3. Clean' /\ Placed' /\ Progress' /\ Owed' /\ Armed'
    <2>1. UNCHANGED <<tableChan, batch, flush, timer, queued, tasks, stored, bumped, dlq, unserved>>
        BY <1>1 DEF sinkVars, envVars
    <2> QED  BY <2>1, PartsStay
<1>4. Kept'  BY <1>1 DEF WorkerInv, Kept, OnlyRefusedParked, queueVars, sinkVars, envVars
<1>5. Drain'  BY <1>1 DEF WorkerInv, Drain, queueVars
<1> QED  BY <1>2, <1>3, <1>4, <1>5 DEF WorkerInv

-----------------------------------------------------------------------------
(* The flush.                                                              *)

\* A step of t's flush, to f.
FlushMoves(t, f) ==
    /\ flush' = [flush EXCEPT ![t] = f]
    /\ f \in Flushes /\ PlacedIn(f) /\ Routed(Elems(f.rows)) /\ f.phase # "idle"
    /\ flush[t].phase \notin {"idle", "done"}
    /\ UNCHANGED <<fetched, consuming, stage, msgChan, loopVars, scene>>

\* A step of a flush that moves only its own rows keeps the invariant.
LEMMA FlushKeeps ==
    ASSUME WorkerInv, NEW t \in Tables, NEW f, FlushMoves(t, f), SinksMove,
           ProgressIn(f, stored', dlq', unserved)
    PROVE  WorkerInv'
<1>1. t \notin exited  BY ExitedQuiet DEF FlushMoves
<1>2. /\ tableChan' = [tableChan EXCEPT ![t] = tableChan[t]] /\ batch' = [batch EXCEPT ![t] = batch[t]]
      /\ timer' = [timer EXCEPT ![t] = timer[t]] /\ queued' = [queued EXCEPT ![t] = queued[t]]
      /\ sized' \in [Tables -> BOOLEAN]
    BY DEF WorkerInv, TypeOK, FlushMoves, loopVars
<1>3. batch[t] # <<>> => timer[t] \/ (queued[t] /\ f.phase # "idle")
    BY TableOf DEF FlushMoves
<1>4. TableMoves(t, tableChan[t], batch[t], timer[t], queued[t], f)
    BY <1>2, <1>3, TableOf DEF TableMoves, FlushMoves, loopVars
<1> QED  BY <1>1, <1>4, TableKeeps

\* A flush that has fewer rows left of those it had, in another phase.
LEMMA LessOfFlush ==
    ASSUME WorkerInv, NEW t \in Tables, flush[t].phase \notin {"idle", "done"},
           NEW f \in Flushes, f.rows = flush[t].rows, f.phase \notin {"idle", "close", "done"},
           f.group \cup f.later \subseteq flush[t].group \cup flush[t].later,
           flush' = [flush EXCEPT ![t] = f],
           UNCHANGED <<fetched, consuming, stage, msgChan, loopVars, scene>>
    PROVE  FlushMoves(t, f)
<1>1. PlacedIn(flush[t]) /\ Routed(Elems(flush[t].rows))  BY TableOf
<1>2. PlacedIn(f)  BY <1>1 DEF PlacedIn
<1> QED  BY <1>1, <1>2 DEF FlushMoves

\* ... in another phase only.
LEMMA PhaseMoves ==
    ASSUME WorkerInv, NEW t \in Tables, flush[t].phase \notin {"idle", "close", "done"},
           NEW phase \in FlushPhases \ {"idle", "close", "done"}, Phase(t, phase),
           UNCHANGED <<fetched, consuming, stage, msgChan, loopVars, scene>>
    PROVE  \E f : /\ FlushMoves(t, f) /\ f.phase = phase /\ f.group = flush[t].group
                  /\ f.rows = flush[t].rows
<1> DEFINE f == [flush[t] EXCEPT !.phase = phase]
<1>1. flush[t] \in Flushes /\ flush' = [flush EXCEPT ![t] = f]  BY TableOf DEF Phase, To
<1>2. /\ f \in Flushes /\ f.phase = phase /\ f.group = flush[t].group /\ f.later = flush[t].later
      /\ f.rows = flush[t].rows
    BY <1>1 DEF Flushes
<1> HIDE DEF f
<1>3. FlushMoves(t, f)  BY <1>1, <1>2, LessOfFlush
<1> QED  BY <1>2, <1>3

\* ... which is over.
LEMMA EndOfFlush ==
    ASSUME WorkerInv, NEW t \in Tables, flush[t].phase \notin {"idle", "done"},
           NEW phase \in {"close", "done"}, To(t, Emptied(phase)),
           UNCHANGED <<fetched, consuming, stage, msgChan, loopVars, scene>>
    PROVE  FlushMoves(t, Emptied(phase)) /\ ProgressIn(Emptied(phase), stored', dlq', unserved)
    BY FlushEmpties DEF FlushMoves, To

\* The next group, or the end of the flush.
LEMMA NextGroupMoves ==
    ASSUME WorkerInv, NEW t \in Tables, flush[t].phase \notin {"idle", "done"},
           To(t, NextGroup(flush[t])),
           UNCHANGED <<fetched, consuming, stage, msgChan, loopVars, scene>>
    PROVE  /\ FlushMoves(t, NextGroup(flush[t]))
           /\ ProgressIn(NextGroup(flush[t]), stored', dlq', unserved)
<1>1. CASE flush[t].later = {}
    <2>1. NextGroup(flush[t]) = Emptied("close")  BY <1>1 DEF NextGroup
    <2> QED  BY <2>1, EndOfFlush
<1>2. CASE flush[t].later # {}
    <2> DEFINE group == FirstGroup(flush[t])
               later == flush[t].later \ group
               f == [flush[t] EXCEPT !.phase = "bulk", !.group = group, !.later = later]
    <2>1. NextGroup(flush[t]) = f  BY <1>2 DEF NextGroup
    <2>2. group \subseteq flush[t].later  BY DEF FirstGroup
    <2> HIDE DEF group
    <2>3. /\ f \in Flushes /\ f.phase = "bulk" /\ f.rows = flush[t].rows
          /\ f.group \cup f.later \subseteq flush[t].group \cup flush[t].later
        <3>1. flush[t] \in Flushes /\ "bulk" \in FlushPhases  BY TableOf DEF FlushPhases
        <3>2. group \in SUBSET Nat /\ later \in SUBSET Nat  BY <2>2, <3>1 DEF Flushes
        <3> QED  BY <2>2, <3>1, <3>2 DEF Flushes
    <2>4. flush' = [flush EXCEPT ![t] = f]  BY <2>1 DEF To
    <2> HIDE DEF f
    <2>5. FlushMoves(t, f)  BY <2>3, <2>4, LessOfFlush
    <2>6. ProgressIn(f, stored', dlq', unserved)  BY <2>3 DEF ProgressIn
    <2> QED  BY <2>1, <2>5, <2>6
<1> QED  BY <1>1, <1>2

\* The next row of the group.
LEMMA NextRowMoves ==
    ASSUME WorkerInv, NEW t \in Tables, flush[t].phase \notin {"idle", "close", "done"},
           NEW i, To(t, NextRow(flush[t], i)),
           UNCHANGED <<fetched, consuming, stage, msgChan, loopVars, scene>>
    PROVE  /\ FlushMoves(t, NextRow(flush[t], i))
           /\ ProgressIn(NextRow(flush[t], i), stored', dlq', unserved)
<1>1. CASE flush[t].group = {i}
    BY <1>1, NextGroupMoves DEF NextRow
<1>2. CASE flush[t].group # {i}
    <2> DEFINE group == flush[t].group \ {i}
               f == [flush[t] EXCEPT !.phase = "isolate", !.group = group]
    <2>1. NextRow(flush[t], i) = f  BY <1>2 DEF NextRow
    <2>2. /\ f \in Flushes /\ f.phase = "isolate" /\ f.rows = flush[t].rows
          /\ f.group \cup f.later \subseteq flush[t].group \cup flush[t].later
        <3>1. flush[t] \in Flushes /\ "isolate" \in FlushPhases  BY TableOf DEF FlushPhases
        <3>2. group \in SUBSET Nat  BY <3>1 DEF Flushes
        <3> QED  BY <3>1, <3>2 DEF Flushes
    <2>3. flush' = [flush EXCEPT ![t] = f]  BY <2>1 DEF To
    <2> HIDE DEF f
    <2>5. FlushMoves(t, f)  BY <1>2, <2>2, <2>3, LessOfFlush
    <2>6. ProgressIn(f, stored', dlq', unserved)  BY <2>2 DEF ProgressIn
    <2> QED  BY <2>1, <2>5, <2>6
<1> QED  BY <1>1, <1>2

\* The next row to park.
LEMMA ParkedMoves ==
    ASSUME WorkerInv, NEW t \in Tables,
           flush[t].phase \in {"park", "parkAck", "parkOne", "parkOneAck"},
           NEW i, To(t, Parked(flush[t], i)),
           UNCHANGED <<fetched, consuming, stage, msgChan, loopVars, scene>>
    PROVE  /\ FlushMoves(t, Parked(flush[t], i))
           /\ ProgressIn(Parked(flush[t], i), stored', dlq', unserved)
<1>1. CASE flush[t].phase \in {"parkOne", "parkOneAck"}
    BY <1>1, NextRowMoves DEF Parked
<1>2. CASE flush[t].phase \in {"park", "parkAck"} /\ flush[t].group = {i}
    BY <1>2, EndOfFlush DEF Parked
<1>3. CASE flush[t].phase \in {"park", "parkAck"} /\ flush[t].group # {i}
    <2> DEFINE group == flush[t].group \ {i}
               f == [flush[t] EXCEPT !.phase = "park", !.group = group]
    <2>1. Parked(flush[t], i) = f  BY <1>3 DEF Parked
    <2>2. /\ f \in Flushes /\ f.phase = "park" /\ f.rows = flush[t].rows
          /\ f.group \cup f.later \subseteq flush[t].group \cup flush[t].later
        <3>1. flush[t] \in Flushes /\ "park" \in FlushPhases  BY TableOf DEF FlushPhases
        <3>2. group \in SUBSET Nat  BY <3>1 DEF Flushes
        <3> QED  BY <3>1, <3>2 DEF Flushes
    <2>3. flush' = [flush EXCEPT ![t] = f]  BY <2>1 DEF To
    <2> HIDE DEF f
    <2>5. FlushMoves(t, f)  BY <1>3, <2>2, <2>3, LessOfFlush
    <2>6. unserved  BY <1>3, TableOf DEF ProgressIn
    <2>7. ProgressIn(f, stored', dlq', unserved)  BY <2>2, <2>6 DEF ProgressIn
    <2> QED  BY <2>1, <2>5, <2>7
<1> QED  BY <1>1, <1>2, <1>3

\* The row a flush is at is one of its rows, and the only one.
LEMMA RowOfFlush ==
    ASSUME WorkerInv, NEW t \in Tables, NEW i, First(flush[t].group, i)
    PROVE  /\ i \in flush[t].group /\ flush[t].rows[i] \in Msgs /\ Kind[flush[t].rows[i]] # "poison"
           /\ flush[t].phase \notin {"idle", "close", "done"}
           /\ \A j : First(flush[t].group, j) => j = i
<1>1. i \in flush[t].group /\ flush[t].group \subseteq Nat  BY UnsettledRouted DEF First
<1>2. \A j : First(flush[t].group, j) => j = i  BY <1>1, OneFirst
<1>3. flush[t].phase \notin {"idle", "close", "done"}  BY <1>1, TableOf DEF PlacedIn
<1> QED  BY <1>1, <1>2, <1>3, UnsettledRouted

\* A flush of a tenant on no pool parks its rows.
LEMMA FlushParksKeeps == ASSUME WorkerInv, NEW t \in Tables, FlushParks(t), UNCHANGED scene PROVE WorkerInv'
<1>1. /\ flush[t].phase = "begin" /\ ~settings.pool
      /\ UNCHANGED <<queueVars, stage, msgChan, loopVars, tasks, backing, sinkVars, envVars>>
    BY DEF FlushParks
<1>2. SinksMove  BY <1>1, FaultsStay, SinksStill DEF envVars, queueVars
<1>3. UNCHANGED <<fetched, consuming, stage, msgChan, loopVars, scene>>  BY <1>1 DEF queueVars
<1>4. CASE settings.dlq
    <2> DEFINE f == [flush[t] EXCEPT !.phase = "park", !.group = flush[t].later, !.later = {}]
    <2>1. flush' = [flush EXCEPT ![t] = f]  BY <1>4 DEF FlushParks, To
    <2>2. /\ f \in Flushes /\ f.phase = "park" /\ f.rows = flush[t].rows
          /\ f.group \cup f.later \subseteq flush[t].group \cup flush[t].later
        <3>1. flush[t] \in Flushes /\ "park" \in FlushPhases  BY TableOf DEF FlushPhases
        <3> QED  BY <3>1 DEF Flushes
    <2> HIDE DEF f
    <2>3. FlushMoves(t, f)  BY <1>1, <1>3, <2>1, <2>2, LessOfFlush
    <2>4. unserved  BY <1>1 DEF WorkerInv, Kept
    <2>5. ProgressIn(f, stored', dlq', unserved)  BY <2>2, <2>4 DEF ProgressIn
    <2> QED  BY <1>2, <2>3, <2>5, FlushKeeps
<1>5. CASE ~settings.dlq
    <2>1. To(t, Emptied("done"))  BY <1>5 DEF FlushParks
    <2>2. FlushMoves(t, Emptied("done")) /\ ProgressIn(Emptied("done"), stored', dlq', unserved)
        BY <1>1, <1>3, <2>1, EndOfFlush
    <2> QED  BY <1>2, <2>2, FlushKeeps
<1> QED  BY <1>4, <1>5

\* A flush that ends by handing its rows back.
LEMMA HandsBackKeeps ==
    ASSUME WorkerInv, NEW t \in Tables, flush[t].phase \notin {"idle", "done"},
           Nak(Unsettled(flush[t])), To(t, Emptied("done")), backing' \subseteq Tables,
           UNCHANGED <<acked, fetched, consuming, stage, msgChan, loopVars, tasks, sinkVars, envVars, scene>>
    PROVE  WorkerInv'
<1>1. avail' \subseteq Msgs /\ avail' \cap acked = {}  BY UnsettledRouted, NakTypes
<1>2. SinksMove  BY <1>1, FaultsStay, SinksStill DEF envVars
<1>3. FlushMoves(t, Emptied("done")) /\ ProgressIn(Emptied("done"), stored', dlq', unserved)
    BY EndOfFlush
<1> QED  BY <1>2, <1>3, FlushKeeps

\* A flush the backoff refuses hands its rows back.
LEMMA FlushHandsBackKeeps ==
    ASSUME WorkerInv, NEW t \in Tables, FlushHandsBack(t), UNCHANGED scene
    PROVE  WorkerInv'
    BY HandsBackKeeps, FaultsStay DEF FlushHandsBack

\* A flush that fails hands back the rows it has not settled.
LEMMA FailsKeeps == ASSUME WorkerInv, NEW t \in Tables, Fails(t), UNCHANGED scene PROVE WorkerInv'
<1>1. backing' \subseteq Tables  BY FaultsStay DEF Fails
<1> QED  BY <1>1, HandsBackKeeps DEF Fails

\* A flush starts with its first group.
LEMMA FlushTriesKeeps == ASSUME WorkerInv, NEW t \in Tables, FlushTries(t), UNCHANGED scene PROVE WorkerInv'
<1>1. /\ flush[t].phase = "begin" /\ To(t, NextGroup(flush[t]))
      /\ UNCHANGED <<queueVars, stage, msgChan, loopVars, tasks, backing, sinkVars, envVars>>
    BY DEF FlushTries
<1>2. SinksMove  BY <1>1, FaultsStay, SinksStill DEF envVars, queueVars
<1>3. UNCHANGED <<fetched, consuming, stage, msgChan, loopVars, scene>>  BY <1>1 DEF queueVars
<1>4. /\ FlushMoves(t, NextGroup(flush[t]))
      /\ ProgressIn(NextGroup(flush[t]), stored', dlq', unserved)
    BY <1>1, <1>3, NextGroupMoves
<1> QED  BY <1>2, <1>4, FlushKeeps

\* A flush reports to the backoff and is done.
LEMMA CloseKeeps == ASSUME WorkerInv, NEW t \in Tables, Close(t), UNCHANGED scene PROVE WorkerInv'
<1>1. /\ flush[t].phase = "close" /\ backing' \subseteq Tables
      /\ flush' = [flush EXCEPT ![t] = [flush[t] EXCEPT !.phase = "done"]]
      /\ UNCHANGED <<queueVars, stage, msgChan, loopVars, tasks, sinkVars, envVars>>
    BY FaultsStay DEF Close, Phase, To
<1>2. SinksMove  BY <1>1, FaultsStay, SinksStill DEF envVars, queueVars
<1> DEFINE f == [flush[t] EXCEPT !.phase = "done"]
<1>3. /\ f \in Flushes /\ f.phase = "done" /\ f.rows = flush[t].rows
      /\ f.group = flush[t].group /\ f.later = flush[t].later
    <2>1. flush[t] \in Flushes /\ "done" \in FlushPhases  BY TableOf DEF FlushPhases
    <2> QED  BY <2>1 DEF Flushes
<1>4. flush' = [flush EXCEPT ![t] = f]  BY <1>1
<1> HIDE DEF f
<1>5. PlacedIn(f) /\ Routed(Elems(f.rows))  BY <1>1, <1>3, TableOf DEF PlacedIn
<1>6. FlushMoves(t, f)  BY <1>1, <1>3, <1>4, <1>5 DEF FlushMoves, queueVars
<1>7. ProgressIn(f, stored', dlq', unserved)  BY <1>3 DEF ProgressIn
<1> QED  BY <1>2, <1>6, <1>7, FlushKeeps

\* An INSERT of some rows.
LEMMA WrittenMoves ==
    ASSUME WorkerInv, NEW ms, Routed(ms), NEW ans, Written(ms, ans),
           UNCHANGED <<queueVars, tasks, backing, bumped, dlq, dropped, envVars, scene>>
    PROVE  SinksMove /\ (ans = "ok" => ms \subseteq stored')
<1>1. stored' = stored \/ stored' = stored \cup ms  BY DEF Written
<1>2. Routed(stored') /\ stored \subseteq stored'  BY <1>1 DEF Routed, WorkerInv, Clean
<1>3. ans = "ok" => ms \subseteq stored'  BY DEF Written
<1>4. bumped \subseteq stored /\ dlq \subseteq Msgs /\ tasks \subseteq TaskKinds \X Msgs
    BY DEF WorkerInv, TypeOK
<1>5. /\ UNCHANGED <<avail, acked, dropped, settings, server, unserved>>
      /\ bumped' = bumped /\ dlq' = dlq /\ tasks' = tasks /\ backing' = backing /\ faults' = faults
    BY DEF queueVars, envVars
<1> QED  BY <1>2, <1>3, <1>4, <1>5, FaultsStay DEF SinksMove

\* A group's bulk insert is written, refused or left unanswered.
LEMMA BulkKeeps == ASSUME WorkerInv, NEW t \in Tables, Bulk(t), UNCHANGED scene PROVE WorkerInv'
<1> DEFINE ms == At(flush[t], flush[t].group)
<1>1. PICK ans \in Answers(ms) :
        /\ Written(ms, ans)
        /\ \/ ans = "ok" /\ Phase(t, "bump")
           \/ Phase(t, "isolate")
           \/ Phase(t, "fail")
    BY DEF Bulk
<1>2. /\ flush[t].phase = "bulk"
      /\ UNCHANGED <<queueVars, stage, msgChan, loopVars, tasks, backing, bumped, dlq, dropped, envVars>>
    BY DEF Bulk
<1>3. Routed(ms)  BY UnsettledRouted
<1>4. UNCHANGED <<queueVars, tasks, backing, bumped, dlq, dropped, envVars, scene>>  BY <1>2
<1>5. SinksMove /\ (ans = "ok" => ms \subseteq stored')  BY <1>1, <1>3, <1>4, WrittenMoves
<1>6. UNCHANGED <<fetched, consuming, stage, msgChan, loopVars, scene>>  BY <1>2 DEF queueVars
<1>7. PICK phase \in {"bump", "isolate", "fail"} : Phase(t, phase) /\ (phase = "bump" => ans = "ok")
    BY <1>1
<1>8. phase \in FlushPhases \ {"idle", "close", "done"}  BY <1>7 DEF FlushPhases
<1>9. PICK f : /\ FlushMoves(t, f) /\ f.phase = phase /\ f.group = flush[t].group
                /\ f.rows = flush[t].rows
    BY <1>2, <1>6, <1>7, <1>8, PhaseMoves
<1>10. At(f, f.group) = ms  BY <1>9 DEF At
<1>11. ProgressIn(f, stored', dlq', unserved)
    BY <1>5, <1>7, <1>9, <1>10 DEF ProgressIn
<1> QED  BY <1>5, <1>9, <1>11, FlushKeeps

\* handleSuccess of rows ClickHouse holds.
LEMMA SucceedMoves ==
    ASSUME WorkerInv, NEW t, NEW ms, Routed(ms), ms \subseteq stored, NEW f, Succeed(t, ms, f), UNCHANGED scene
    PROVE  SinksMove
<1>1. /\ bumped' = bumped \cup ms /\ tasks' = tasks \cup {<<"ack", m>> : m \in ms}
      /\ UNCHANGED <<queueVars, backing, stored, dlq, dropped, envVars>>
    BY AllCovered DEF Succeed
<1>2. \A x \in tasks' : x \in tasks \/ (x[1] = "ack" /\ x[2] \in ms)  BY <1>1
<1>3. \A x \in tasks' : x \in tasks \/ OwedFor(x, bumped', dlq')
    BY <1>1, <1>2 DEF OwedFor
<1>4. tasks' \subseteq TaskKinds \X Msgs
    BY <1>1 DEF WorkerInv, TypeOK, Routed, TaskKinds
<1>5. bumped \subseteq bumped' /\ bumped' \subseteq stored  BY <1>1 DEF WorkerInv, TypeOK
<1>6. /\ UNCHANGED <<avail, acked, dropped, settings, server, unserved>>
      /\ dlq' = dlq /\ stored' = stored /\ backing' = backing /\ faults' = faults
    BY <1>1 DEF queueVars, envVars
<1>7. dlq \subseteq Msgs /\ Routed(stored)  BY DEF WorkerInv, TypeOK, Clean
<1> QED  BY <1>3, <1>4, <1>5, <1>6, <1>7, FaultsStay DEF SinksMove, Routed

\* A group's namespaces are bumped before its rows are acked.
LEMMA BumpKeeps == ASSUME WorkerInv, NEW t \in Tables, Bump(t), UNCHANGED scene PROVE WorkerInv'
<1> DEFINE f == flush[t]
<1>1. CASE f.phase = "bump" /\ Succeed(t, At(f, f.group), NextGroup(f))
    <2>1. Routed(At(f, f.group)) /\ At(f, f.group) \subseteq stored
        BY <1>1, UnsettledRouted, TableOf DEF ProgressIn
    <2>2. SinksMove  BY <1>1, <2>1, SucceedMoves
    <2>3. To(t, NextGroup(flush[t])) /\ UNCHANGED <<fetched, consuming, stage, msgChan, loopVars, scene>>
        BY <1>1 DEF Succeed, queueVars
    <2>4. /\ FlushMoves(t, NextGroup(flush[t]))
          /\ ProgressIn(NextGroup(flush[t]), stored', dlq', unserved)
        BY <1>1, <2>3, NextGroupMoves
    <2> QED  BY <2>2, <2>4, FlushKeeps
<1>2. ASSUME f.phase = "bumpOne", NEW i \in f.group, First(f.group, i), Succeed(t, {f.rows[i]}, NextRow(f, i))
      PROVE  WorkerInv'
    <2>1. Routed({f.rows[i]}) /\ {f.rows[i]} \subseteq stored
        BY <1>2, RowOfFlush, TableOf DEF ProgressIn, Routed
    <2>2. SinksMove  BY <1>2, <2>1, SucceedMoves
    <2>3. To(t, NextRow(flush[t], i)) /\ UNCHANGED <<fetched, consuming, stage, msgChan, loopVars, scene>>
        BY <1>2 DEF Succeed, queueVars
    <2>4. /\ FlushMoves(t, NextRow(flush[t], i))
          /\ ProgressIn(NextRow(flush[t], i), stored', dlq', unserved)
        BY <1>2, <2>3, NextRowMoves
    <2> QED  BY <2>2, <2>4, FlushKeeps
<1> QED  BY <1>1, <1>2 DEF Bump

\* A refused group is inserted row by row.
LEMMA IsolateKeeps == ASSUME WorkerInv, NEW t \in Tables, Isolate(t), UNCHANGED scene PROVE WorkerInv'
<1>1. PICK i \in flush[t].group : /\ First(flush[t].group, i)
        /\ \E ans \in Answers({flush[t].rows[i]}) :
            /\ Written({flush[t].rows[i]}, ans)
            /\ \/ ans = "ok" /\ Phase(t, "bumpOne")
               \/ ans = "rejected" /\ RefusedRow(t, i)
               \/ ans \in {"unjudged", "lost"} /\ Unjudged(t)
    BY DEF Isolate
<1> DEFINE r == flush[t].rows[i]
<1>2. PICK ans \in Answers({r}) :
        /\ Written({r}, ans)
        /\ \/ ans = "ok" /\ Phase(t, "bumpOne")
           \/ ans = "rejected" /\ RefusedRow(t, i)
           \/ ans \in {"unjudged", "lost"} /\ Unjudged(t)
    BY <1>1
<1>3. /\ flush[t].phase = "isolate"
      /\ UNCHANGED <<queueVars, stage, msgChan, loopVars, tasks, backing, bumped, dlq, dropped, envVars>>
    BY DEF Isolate
<1>4. Routed({r}) /\ \A j : First(flush[t].group, j) => j = i
    BY <1>1, RowOfFlush DEF Routed
<1>5. UNCHANGED <<queueVars, tasks, backing, bumped, dlq, dropped, envVars, scene>>  BY <1>3
<1>6. SinksMove /\ (ans = "ok" => {r} \subseteq stored')  BY <1>2, <1>4, <1>5, WrittenMoves
<1>7. UNCHANGED <<fetched, consuming, stage, msgChan, loopVars, scene>>  BY <1>3 DEF queueVars
<1>8. ans = "rejected" => Kind[r] = "bad"  BY <1>2 DEF Answers
<1>9. CASE To(t, NextRow(flush[t], i))
    <2>1. /\ FlushMoves(t, NextRow(flush[t], i))
          /\ ProgressIn(NextRow(flush[t], i), stored', dlq', unserved)
        BY <1>3, <1>7, <1>9, NextRowMoves
    <2> QED  BY <1>6, <2>1, FlushKeeps
<1>10. ASSUME NEW phase \in {"bumpOne", "parkOne", "fail"}, Phase(t, phase),
              phase = "bumpOne" => ans = "ok", phase = "parkOne" => ans = "rejected"
       PROVE  WorkerInv'
    <2>1. phase \in FlushPhases \ {"idle", "close", "done"}  BY DEF FlushPhases
    <2>2. PICK f : /\ FlushMoves(t, f) /\ f.phase = phase /\ f.group = flush[t].group
                   /\ f.rows = flush[t].rows
        BY <1>3, <1>7, <1>10, <2>1, PhaseMoves
    <2>3. phase = "bumpOne" => r \in stored'  BY <1>6, <1>10
    <2>4. phase = "parkOne" => Kind[r] = "bad"  BY <1>8, <1>10
    <2>5. ProgressIn(f, stored', dlq', unserved)
        BY <1>4, <2>2, <2>3, <2>4 DEF ProgressIn
    <2> QED  BY <1>6, <2>2, <2>5, FlushKeeps
<1>11. \/ To(t, NextRow(flush[t], i))
       \/ ans = "ok" /\ Phase(t, "bumpOne")
       \/ ans = "rejected" /\ Phase(t, "parkOne")
       \/ Phase(t, "fail")
    BY <1>2 DEF RefusedRow, Unjudged
<1> QED  BY <1>9, <1>10, <1>11

\* A step of the flush that ParkAck and Park share: the row parked is told
\* apart from those not parked yet.
LEMMA ParkKeeps == ASSUME WorkerInv, NEW t \in Tables, Park(t), UNCHANGED scene PROVE WorkerInv'
<1>1. /\ flush[t].phase \in {"park", "parkOne"}
      /\ UNCHANGED <<queueVars, stage, msgChan, loopVars, tasks, backing, stored, bumped, dropped,
                     settings, server, unserved>>
    BY DEF Park
<1>2. PICK i \in flush[t].group :
        /\ First(flush[t].group, i)
        /\ \/ /\ dlq' = dlq \cup {flush[t].rows[i]}
              /\ To(t, AwaitsAck(flush[t]))
              /\ UNCHANGED faults
           \/ /\ Fault("dlq")
              /\ To(t, NotParked(flush[t], i))
              /\ UNCHANGED dlq
    BY DEF Park
<1> DEFINE r == flush[t].rows[i]
<1>3. r \in Msgs /\ \A j : First(flush[t].group, j) => j = i
    BY <1>2, RowOfFlush
<1>4. UNCHANGED <<fetched, consuming, stage, msgChan, loopVars, scene>>  BY <1>1 DEF queueVars
<1>5. flush[t].phase = "park" => unserved  BY TableOf DEF ProgressIn
<1>6. flush[t].phase = "parkOne" => Kind[r] = "bad"  BY <1>2, TableOf DEF ProgressIn
<1>7. /\ avail' \subseteq Msgs /\ acked' = acked /\ acked \subseteq Msgs /\ avail' \cap acked' = {}
      /\ stored' = stored /\ Routed(stored) /\ bumped' = bumped /\ bumped \subseteq stored
      /\ tasks' = tasks /\ tasks \subseteq TaskKinds \X Msgs /\ backing' = backing /\ backing \subseteq Tables
      /\ UNCHANGED <<dropped, settings, server, unserved>> /\ dlq \subseteq Msgs
    BY <1>1 DEF queueVars, WorkerInv, TypeOK, Clean
<1>8. ASSUME dlq' = dlq \cup {r}, To(t, AwaitsAck(flush[t])), UNCHANGED faults
      PROVE  WorkerInv'
    <2>1. SinksMove
        <3>1. \A m \in dlq' : m \in dlq \/ Kind[m] = "bad" \/ unserved
            BY <1>1, <1>5, <1>6, <1>8
        <3>2. dlq \subseteq dlq' /\ dlq' \subseteq Msgs /\ faults' \in 0..Scenes[scene].maxFaults
            BY <1>3, <1>7, <1>8, FaultsStay
        <3> QED  BY <1>7, <3>1, <3>2 DEF SinksMove
    <2>2. PICK phase \in {"parkAck", "parkOneAck"} :
            /\ Phase(t, phase)
            /\ phase = "parkAck" => flush[t].phase = "park"
            /\ phase = "parkOneAck" => flush[t].phase = "parkOne"
        BY <1>1, <1>8 DEF AwaitsAck, Phase
    <2>3. phase \in FlushPhases \ {"idle", "close", "done"}  BY DEF FlushPhases
    <2>4. PICK f : /\ FlushMoves(t, f) /\ f.phase = phase /\ f.group = flush[t].group
                   /\ f.rows = flush[t].rows
        BY <1>1, <1>4, <2>2, <2>3, PhaseMoves
    <2>5. r \in dlq'  BY <1>8
    <2>6. ProgressIn(f, stored', dlq', unserved)
        BY <1>3, <1>5, <1>6, <2>2, <2>4, <2>5 DEF ProgressIn
    <2> QED  BY <2>1, <2>4, <2>6, FlushKeeps
<1>9. ASSUME Fault("dlq"), To(t, Parked(flush[t], i)), UNCHANGED dlq
      PROVE  WorkerInv'
    <2>1. faults' \in 0..Scenes[scene].maxFaults  BY <1>9, FaultsCount
    <2>2. SinksMove  BY <1>7, <1>9, <2>1 DEF SinksMove
    <2>3. /\ FlushMoves(t, Parked(flush[t], i))
          /\ ProgressIn(Parked(flush[t], i), stored', dlq', unserved)
        BY <1>1, <1>4, <1>9, ParkedMoves
    <2> QED  BY <2>2, <2>3, FlushKeeps
<1> QED  BY <1>2, <1>8, <1>9 DEF NotParked

\* A parked row is acked once the DLQ has it.
LEMMA ParkAckKeeps == ASSUME WorkerInv, NEW t \in Tables, ParkAck(t), UNCHANGED scene PROVE WorkerInv'
<1>1. /\ flush[t].phase \in {"parkAck", "parkOneAck"}
      /\ UNCHANGED <<fetched, consuming, stage, msgChan, loopVars, tasks, backing, sinkVars, settings, server, unserved>>
    BY DEF ParkAck
<1>2. PICK i \in flush[t].group :
        /\ First(flush[t].group, i)
        /\ \/ Ack({flush[t].rows[i]}) /\ UNCHANGED faults
           \/ Fault("ack") /\ UNCHANGED <<avail, acked>>
        /\ To(t, Parked(flush[t], i))
    BY DEF ParkAck
<1> DEFINE r == flush[t].rows[i]
<1>3. r \in Msgs /\ r \in dlq  BY <1>1, <1>2, RowOfFlush, TableOf DEF ProgressIn
<1>4. UNCHANGED <<fetched, consuming, stage, msgChan, loopVars, scene>>  BY <1>1
<1>5. faults' \in 0..Scenes[scene].maxFaults  BY <1>2, FaultsStay, FaultsCount
<1>6. /\ avail' \subseteq Msgs /\ acked' \subseteq Msgs /\ avail' \cap acked' = {}
      /\ \A m \in acked' : m \in acked \/ m \in dlq
    BY <1>2, <1>3, FaultsStay DEF Ack
<1>7. /\ stored' = stored /\ Routed(stored) /\ bumped' = bumped /\ bumped \subseteq stored
      /\ tasks' = tasks /\ tasks \subseteq TaskKinds \X Msgs /\ backing' = backing /\ backing \subseteq Tables
      /\ UNCHANGED <<dropped, settings, server, unserved>> /\ dlq' = dlq /\ dlq \subseteq Msgs
    BY <1>1 DEF sinkVars, WorkerInv, TypeOK, Clean
<1>8. SinksMove  BY <1>5, <1>6, <1>7 DEF SinksMove
<1>9. /\ FlushMoves(t, Parked(flush[t], i))
      /\ ProgressIn(Parked(flush[t], i), stored', dlq', unserved)
    BY <1>1, <1>2, <1>4, ParkedMoves
<1> QED  BY <1>8, <1>9, FlushKeeps

-----------------------------------------------------------------------------
(* The queue, the dispatch loop, background work and the environment.      *)

\* A step that leaves the tables, the flushes and the sinks alone.
LEMMA QueueKeeps ==
    ASSUME WorkerInv, UNCHANGED <<loopVars, flush, tasks, sinkVars, settings, unserved, scene>>,
           avail' \subseteq Msgs, acked' = acked, avail' \cap acked = {},
           fetched' \in Seq(Msgs), consuming' \in BOOLEAN, stage' \in Stages, msgChan' \in Seq(Msgs),
           backing' \subseteq Tables, server' \in {"up", "down"}, faults' \in 0..Scenes[scene].maxFaults,
           Drain'
    PROVE  WorkerInv'
<1>1. /\ tableChan' = tableChan /\ batch' = batch /\ sized' = sized /\ timer' = timer /\ queued' = queued
      /\ exited' = exited /\ flush' = flush /\ tasks' = tasks /\ stored' = stored /\ bumped' = bumped
      /\ dlq' = dlq /\ dropped' = dropped /\ settings' = settings /\ unserved' = unserved /\ scene' = scene
    BY DEF loopVars, sinkVars
<1>2. TypeOK'  BY <1>1 DEF WorkerInv, TypeOK
<1>3. Clean' /\ Placed' /\ Progress' /\ Owed' /\ Armed'
    <2>1. UNCHANGED <<tableChan, batch, flush, timer, queued, tasks, stored, bumped, dlq, unserved>>
        BY <1>1
    <2> QED  BY <2>1, PartsStay
<1>4. Kept'  BY <1>1 DEF WorkerInv, Kept, OnlyRefusedParked
<1> QED  BY <1>2, <1>3, <1>4 DEF WorkerInv

\* What the invariant says of the queue and the dispatch loop.
LEMMA QueueOf ==
    ASSUME WorkerInv
    PROVE  /\ avail \subseteq Msgs /\ acked \subseteq Msgs /\ avail \cap acked = {}
           /\ fetched \in Seq(Msgs) /\ consuming \in BOOLEAN /\ stage \in Stages /\ msgChan \in Seq(Msgs)
           /\ backing \subseteq Tables /\ server \in {"up", "down"} /\ faults \in 0..Scenes[scene].maxFaults
           /\ scene \in DOMAIN Scenes /\ Scenes[scene].msgs \subseteq Msgs
           /\ Elems(msgChan) \subseteq Msgs
<1>1. scene \in DOMAIN Scenes /\ msgChan \in Seq(Msgs)  BY DEF WorkerInv, TypeOK
<1>2. Scenes[scene].msgs \subseteq Msgs  BY <1>1, WorkerAssumption
<1>3. Elems(msgChan) \subseteq Msgs  BY <1>1, ElemsIn
<1> QED  BY <1>2, <1>3 DEF WorkerInv, TypeOK

\* A delivery reaches the consumer.
LEMMA FetchKeeps == ASSUME WorkerInv, NEW m \in Msgs, Fetch(m), UNCHANGED scene PROVE WorkerInv'
<1>1. /\ Halts => stage = "run"
      /\ avail' = avail \ {m} /\ fetched' = Append(fetched, m)
      /\ UNCHANGED <<acked, consuming, stage, msgChan, loopVars, flush, tasks, backing, sinkVars, envVars>>
    BY DEF Fetch
<1>2. fetched' \in Seq(Msgs)  BY <1>1, QueueOf, ElemsAppend
<1>3. Drain'
    <2>1. UNCHANGED <<stage, msgChan, tableChan, batch, exited, flush, tasks>>  BY <1>1 DEF loopVars
    <2> QED  BY <1>1, <2>1 DEF WorkerInv, Drain
<1>4. avail' \subseteq Msgs /\ avail' \cap acked = {}  BY <1>1, QueueOf
<1>5. /\ UNCHANGED <<loopVars, flush, tasks, sinkVars, settings, unserved, scene>> /\ acked' = acked
      /\ consuming' = consuming /\ stage' = stage /\ msgChan' = msgChan /\ backing' = backing
      /\ server' = server /\ faults' = faults
    BY <1>1 DEF envVars
<1> QED  BY <1>2, <1>3, <1>4, <1>5, QueueOf, QueueKeeps

\* The consumer hands a delivery to the dispatch, or back once it is stopped.
LEMMA HandleKeeps == ASSUME WorkerInv, Handle, UNCHANGED scene PROVE WorkerInv'
<1>1. /\ fetched # <<>> /\ fetched' = Tail(fetched)
      /\ UNCHANGED <<acked, consuming, stage, loopVars, flush, tasks, backing, sinkVars, envVars>>
    BY DEF Handle
<1>2. \/ msgChan' = Append(msgChan, Head(fetched)) /\ UNCHANGED avail
      \/ Nak({Head(fetched)}) /\ UNCHANGED msgChan
    BY DEF Handle
<1>3. Head(fetched) \in Msgs /\ fetched' \in Seq(Msgs)  BY <1>1, QueueOf, ElemsTail
<1>4. msgChan' \in Seq(Msgs)  BY <1>2, <1>3, QueueOf, ElemsAppend
<1>5. avail' \subseteq Msgs /\ avail' \cap acked = {}  BY <1>2, <1>3, QueueOf DEF Nak
<1>6. Drain'
    <2>1. UNCHANGED <<stage, tableChan, batch, exited, flush, tasks>>  BY <1>1 DEF loopVars
    <2>2. Halts => stage \in {"run", "halting"}  BY <1>1 DEF WorkerInv, Drain
    <2> QED  BY <2>1, <2>2 DEF WorkerInv, Drain
<1>7. /\ UNCHANGED <<loopVars, flush, tasks, sinkVars, settings, unserved, scene>> /\ acked' = acked
      /\ consuming' = consuming /\ stage' = stage /\ backing' = backing
      /\ server' = server /\ faults' = faults
    BY <1>1 DEF envVars
<1> QED  BY <1>3, <1>4, <1>5, <1>6, <1>7, QueueOf, QueueKeeps

\* The queue delivers again what is not acked.
LEMMA RedeliverKeeps == ASSUME WorkerInv, NEW m \in Msgs, Redeliver(m), UNCHANGED scene PROVE WorkerInv'
<1>1. /\ m \notin acked /\ avail' = avail \cup {m}
      /\ UNCHANGED <<acked, fetched, consuming, stage, msgChan, loopVars, flush, tasks, backing, sinkVars,
                     settings, server, unserved>>
    BY DEF Redeliver
<1>2. faults' \in 0..Scenes[scene].maxFaults
    <2>1. UNCHANGED faults \/ Fault("slow")  BY DEF Redeliver
    <2> QED  BY <2>1, FaultsCount, QueueOf
<1>3. Drain'
    <2>1. UNCHANGED <<fetched, stage, msgChan, tableChan, batch, exited, flush, tasks>>
        BY <1>1 DEF loopVars
    <2> QED  BY <2>1 DEF WorkerInv, Drain
<1>4. avail' \subseteq Msgs /\ avail' \cap acked = {}  BY <1>1, QueueOf
<1>5. /\ UNCHANGED <<loopVars, flush, tasks, sinkVars, settings, unserved, scene>> /\ acked' = acked
      /\ fetched' = fetched /\ consuming' = consuming /\ stage' = stage /\ msgChan' = msgChan
      /\ backing' = backing /\ server' = server
    BY <1>1
<1> QED  BY <1>2, <1>3, <1>4, <1>5, QueueOf, QueueKeeps

\* A step of the dispatch loop to another stage.
LEMMA StageKeeps ==
    ASSUME WorkerInv, UNCHANGED <<acked, fetched, loopVars, flush, tasks, backing, sinkVars, settings, server,
                                  unserved, scene>>,
           stage' \in Stages, consuming' \in BOOLEAN, faults' \in 0..Scenes[scene].maxFaults,
           \/ msgChan' = msgChan /\ avail' = avail
           \/ msgChan' = <<>> /\ Nak(Elems(msgChan)),
           stage' = "run" => stage = "run",
           Halts /\ stage' \notin {"run", "halting"} => fetched = <<>>,
           Halts /\ stage' \in {"closing", "abandon", "stop", "stopped"} => msgChan' = <<>>,
           stage' \in {"halting", "drain", "closing"} => stage \in {"run", "halting", "drain"},
           stage' \in {"abandon", "stop", "stopped"} => exited = Tables /\ tasks = {}
    PROVE  WorkerInv'
<1>1. Drain'
    <2>1. UNCHANGED <<fetched, tableChan, batch, exited, flush, tasks>>  BY DEF loopVars
    <2>2. \A t \in exited : tableChan[t] = <<>> /\ batch[t] = <<>> /\ flush[t].phase \in {"idle", "done"}
        BY DEF WorkerInv, Drain
    <2>3. stage' \in {"run", "halting", "drain"} => exited = {}  BY DEF WorkerInv, Drain
    <2> QED  BY <2>1, <2>2, <2>3 DEF Drain
<1>2. avail' \subseteq Msgs /\ avail' \cap acked = {} /\ msgChan' \in Seq(Msgs)
    <2>1. CASE msgChan' = msgChan /\ avail' = avail  BY <2>1, QueueOf
    <2>2. CASE msgChan' = <<>> /\ Nak(Elems(msgChan))
        <3>1. avail' = avail \cup (Elems(msgChan) \ acked)  BY <2>2 DEF Nak
        <3>2. <<>> \in Seq(Msgs)  OBVIOUS
        <3>3. avail' \subseteq Msgs /\ avail' \cap acked = {}  BY <3>1, QueueOf
        <3> QED  BY <2>2, <3>2, <3>3
    <2> QED  BY <2>1, <2>2
<1>3. UNCHANGED <<loopVars, flush, tasks, sinkVars, settings, unserved, scene>>  OBVIOUS
<1> QED  BY <1>1, <1>2, <1>3, QueueOf, QueueKeeps

\* The dispatch routes a row to its table, a poison message to the background.
LEMMA RouteKeeps == ASSUME WorkerInv, Route, UNCHANGED scene PROVE WorkerInv'
<1> DEFINE m == Head(msgChan)
<1>1. /\ stage \in {"run", "halting", "drain"} /\ msgChan # <<>> /\ msgChan' = Tail(msgChan)
      /\ UNCHANGED <<queueVars, stage, batch, sized, timer, queued, exited, flush, backing, sinkVars, envVars>>
    BY DEF Route, Routing
<1>2. m \in Msgs /\ msgChan' \in Seq(Msgs)  BY <1>1, QueueOf, ElemsTail
<1>3. \/ /\ Kind[m] = "poison" /\ tasks' = tasks \cup {<<PoisonTask, m>>}
         /\ UNCHANGED tableChan
      \/ /\ Kind[m] # "poison" /\ UNCHANGED tasks
         /\ tableChan' = [tableChan EXCEPT ![Table[m]] = Append(@, m)]
    BY DEF Route
<1> DEFINE u == Table[m]
<1>4. u \in Tables  BY <1>2, WorkerAssumption
<1> HIDE DEF m, u
<1>5. tableChan \in [Tables -> Seq(Msgs)]  BY DEF WorkerInv, TypeOK
<1>6. /\ tableChan' \in [Tables -> Seq(Msgs)]
      /\ \A t \in Tables : Routed(Elems(tableChan'[t]))
    <2>1. CASE UNCHANGED tableChan  BY <1>5, <2>1, TableOf
    <2>2. CASE Kind[m] # "poison" /\ tableChan' = [tableChan EXCEPT ![u] = Append(@, m)]
        <3>1. /\ Append(tableChan[u], m) \in Seq(Msgs)
              /\ Elems(Append(tableChan[u], m)) = Elems(tableChan[u]) \cup {m}
            BY <1>2, <1>4, <1>5, ElemsAppend
        <3>2. Routed(Elems(Append(tableChan[u], m)))  BY <1>2, <1>4, <2>2, <3>1, TableOf DEF Routed
        <3>3. \A t \in Tables : tableChan'[t] = IF t = u THEN Append(tableChan[u], m) ELSE tableChan[t]
            BY <1>5, <2>2
        <3>4. tableChan' \in [Tables -> Seq(Msgs)]  BY <1>5, <2>2, <3>1
        <3>5. \A t \in Tables : Routed(Elems(tableChan'[t]))  BY <3>2, <3>3, TableOf
        <3> QED  BY <3>4, <3>5
    <2> QED  BY <1>3, <2>1, <2>2 DEF u
<1>7. /\ tasks' \subseteq TaskKinds \X Msgs
      /\ \A x \in tasks' : x \in tasks \/ (Kind[x[2]] = "poison" /\ x[1] \in {"park", "drop"})
    <2>1. tasks \subseteq TaskKinds \X Msgs  BY DEF WorkerInv, TypeOK
    <2>2. PoisonTask \in TaskKinds /\ PoisonTask \in {"park", "drop"}  BY DEF PoisonTask, TaskKinds
    <2> QED  BY <1>2, <1>3, <2>1, <2>2
<1>8. /\ UNCHANGED <<avail, acked, fetched, consuming, stage, batch, sized, timer, queued, exited, flush,
                     backing, stored, bumped, dlq, dropped, settings, server, unserved, faults>>
    BY <1>1 DEF queueVars, sinkVars, envVars
<1>9. TypeOK'  BY <1>2, <1>6, <1>7, <1>8 DEF WorkerInv, TypeOK
<1>10. Clean'
    <2>1. \A t \in Tables :
            Routed(Elems(tableChan'[t])) /\ Routed(Elems(batch'[t])) /\ Routed(Elems(flush'[t].rows))
        BY <1>6, <1>8, TableOf
    <2>2. Routed(stored')  BY <1>8 DEF WorkerInv, Clean
    <2> QED  BY <2>1, <2>2 DEF Clean, Elems
<1>11. Placed'  BY <1>8 DEF WorkerInv, Placed, PlacedIn
<1>12. Progress'  BY <1>8 DEF WorkerInv, Progress
<1>13. Owed'  BY <1>7, <1>8 DEF WorkerInv, Owed, OwedFor
<1>14. Kept'  BY <1>8 DEF WorkerInv, Kept, OnlyRefusedParked
<1>15. Armed'  BY <1>8 DEF WorkerInv, Armed
<1>16. Drain'
    <2>1. exited = {}  BY <1>1 DEF WorkerInv, Drain
    <2> QED  BY <1>1, <1>8, <2>1 DEF WorkerInv, Drain
<1> QED  BY <1>9, <1>10, <1>11, <1>12, <1>13, <1>14, <1>15, <1>16 DEF WorkerInv

\* The worker is cancelled.
LEMMA CancelKeeps == ASSUME WorkerInv, Cancel, UNCHANGED scene PROVE WorkerInv'
<1>1. /\ stage = "run" /\ stage' = "halting"
      /\ UNCHANGED <<queueVars, msgChan, loopVars, flush, tasks, backing, sinkVars, envVars>>
    BY DEF Cancel
<1>2. /\ UNCHANGED <<acked, fetched, loopVars, flush, tasks, backing, sinkVars, settings, server, unserved, scene>>
      /\ msgChan' = msgChan /\ avail' = avail /\ consuming' = consuming /\ faults' = faults
    BY <1>1 DEF queueVars, envVars
<1>3. stage' \in Stages  BY <1>1 DEF Stages
<1> QED  BY <1>1, <1>2, <1>3, QueueOf, StageKeeps

\* The queue ends the deliveries.
LEMMA DeliveryEndsKeeps == ASSUME WorkerInv, DeliveryEnds, UNCHANGED scene PROVE WorkerInv'
<1>1. /\ stage = "run" /\ stage' = "halting" /\ consuming' = FALSE /\ Fault("end")
      /\ UNCHANGED <<avail, acked, fetched, msgChan, loopVars, flush, tasks, backing, sinkVars, settings, server, unserved>>
    BY DEF DeliveryEnds
<1>2. /\ UNCHANGED <<acked, fetched, loopVars, flush, tasks, backing, sinkVars, settings, server, unserved, scene>>
      /\ msgChan' = msgChan /\ avail' = avail /\ consuming' \in BOOLEAN
    BY <1>1
<1>3. stage' \in Stages  BY <1>1 DEF Stages
<1>4. faults' \in 0..Scenes[scene].maxFaults  BY <1>1, FaultsCount
<1> QED  BY <1>1, <1>2, <1>3, <1>4, QueueOf, StageKeeps

\* The consumer has stopped handing rows on.
LEMMA HaltedKeeps == ASSUME WorkerInv, Halted, UNCHANGED scene PROVE WorkerInv'
<1>1. /\ stage = "halting" /\ stage' = "drain" /\ (Halts => fetched = <<>>)
      /\ UNCHANGED <<queueVars, msgChan, loopVars, flush, tasks, backing, sinkVars, envVars>>
    BY DEF Halted
<1>2. /\ UNCHANGED <<acked, fetched, loopVars, flush, tasks, backing, sinkVars, settings, server, unserved, scene>>
      /\ msgChan' = msgChan /\ avail' = avail /\ consuming' = consuming /\ faults' = faults
    BY <1>1 DEF queueVars, envVars
<1>3. stage' \in Stages  BY <1>1 DEF Stages
<1> QED  BY <1>1, <1>2, <1>3, QueueOf, StageKeeps

\* The stages after the routing has ended keep what it left.
LEMMA DrainOf ==
    ASSUME WorkerInv
    PROVE  /\ Halts /\ stage \notin {"run", "halting"} => fetched = <<>>
           /\ Halts /\ stage \in {"closing", "abandon", "stop", "stopped"} => msgChan = <<>>
           /\ stage \in {"abandon", "stop", "stopped"} => exited = Tables /\ tasks = {}
    BY DEF WorkerInv, Drain

\* The dispatch has emptied its channel and closes the tables'.
LEMMA CloseTablesKeeps == ASSUME WorkerInv, CloseTables, UNCHANGED scene PROVE WorkerInv'
<1>1. /\ stage = "drain" /\ stage' = "closing" /\ msgChan = <<>>
      /\ UNCHANGED <<queueVars, msgChan, loopVars, flush, tasks, backing, sinkVars, envVars>>
    BY DEF CloseTables
<1>2. /\ UNCHANGED <<acked, fetched, loopVars, flush, tasks, backing, sinkVars, settings, server, unserved, scene>>
      /\ msgChan' = msgChan /\ avail' = avail /\ consuming' = consuming /\ faults' = faults
    BY <1>1 DEF queueVars, envVars
<1>3. stage' \in Stages  BY <1>1 DEF Stages
<1> QED  BY <1>1, <1>2, <1>3, QueueOf, DrainOf, StageKeeps

\* Every loop and every background ack is done.
LEMMA DrainedKeeps == ASSUME WorkerInv, Drained, UNCHANGED scene PROVE WorkerInv'
<1>1. /\ stage = "closing" /\ stage' = "abandon" /\ exited = Tables /\ tasks = {}
      /\ UNCHANGED <<queueVars, msgChan, loopVars, flush, tasks, backing, sinkVars, envVars>>
    BY DEF Drained, MayAbandon
<1>2. /\ UNCHANGED <<acked, fetched, loopVars, flush, tasks, backing, sinkVars, settings, server, unserved, scene>>
      /\ msgChan' = msgChan /\ avail' = avail /\ consuming' = consuming /\ faults' = faults
    BY <1>1 DEF queueVars, envVars
<1>3. stage' \in Stages  BY <1>1 DEF Stages
<1> QED  BY <1>1, <1>2, <1>3, QueueOf, DrainOf, StageKeeps

\* What is left in the channel is handed back.
LEMMA AbandonKeeps == ASSUME WorkerInv, Abandon, UNCHANGED scene PROVE WorkerInv'
<1>1. /\ stage = "abandon" /\ stage' = "stop" /\ msgChan' = <<>> /\ Nak(Elems(msgChan))
      /\ UNCHANGED <<acked, fetched, consuming, loopVars, flush, tasks, backing, sinkVars, envVars>>
    BY DEF Abandon
<1>2. /\ UNCHANGED <<acked, fetched, loopVars, flush, tasks, backing, sinkVars, settings, server, unserved, scene>>
      /\ consuming' = consuming /\ faults' = faults
    BY <1>1 DEF envVars
<1>3. stage' \in Stages  BY <1>1 DEF Stages
<1> QED  BY <1>1, <1>2, <1>3, QueueOf, DrainOf, StageKeeps

\* ... and so is what arrived until the consumer stopped.
LEMMA StopKeeps == ASSUME WorkerInv, Stop, UNCHANGED scene PROVE WorkerInv'
<1>1. /\ stage = "stop" /\ stage' = "stopped" /\ consuming' = FALSE /\ msgChan' = <<>> /\ Nak(Elems(msgChan))
      /\ UNCHANGED <<acked, fetched, loopVars, flush, tasks, backing, sinkVars, envVars>>
    BY DEF Stop
<1>2. /\ UNCHANGED <<acked, fetched, loopVars, flush, tasks, backing, sinkVars, settings, server, unserved, scene>>
      /\ consuming' \in BOOLEAN /\ faults' = faults
    BY <1>1 DEF envVars
<1>3. stage' \in Stages  BY <1>1 DEF Stages
<1> QED  BY <1>1, <1>2, <1>3, QueueOf, DrainOf, StageKeeps

\* A step of the background work.
LEMMA TasksKeep ==
    ASSUME WorkerInv, tasks # {},
           UNCHANGED <<fetched, consuming, stage, msgChan, loopVars, flush, backing, stored, bumped,
                       settings, server, unserved, scene>>,
           avail' \subseteq Msgs, acked' \subseteq Msgs, avail' \cap acked' = {},
           tasks' \subseteq TaskKinds \X Msgs,
           \A x \in tasks' : x \in tasks \/ OwedFor(x, bumped, dlq'),
           dlq \subseteq dlq', dlq' \subseteq Msgs, \A m \in dlq' : m \in dlq \/ Kind[m] = "poison",
           dropped \subseteq dropped', dropped' \subseteq Msgs,
           \A m \in acked' : \/ m \in acked \/ m \in bumped \cup dlq'
                             \/ m \in dropped' /\ Kind[m] = "poison",
           faults' \in 0..Scenes[scene].maxFaults
    PROVE  WorkerInv'
<1>1. /\ tableChan' = tableChan /\ batch' = batch /\ sized' = sized /\ timer' = timer /\ queued' = queued
      /\ exited' = exited
    BY DEF loopVars
<1>2. TypeOK'  BY <1>1 DEF WorkerInv, TypeOK
<1>3. Clean'  BY <1>1 DEF WorkerInv, Clean, Elems, Routed
<1>4. Placed'  BY DEF WorkerInv, Placed, PlacedIn
<1>5. Progress'
    <2>1. \A t \in Tables : ProgressIn(flush[t], stored, dlq', unserved)
        BY Progresses DEF WorkerInv, Progress
    <2> QED  BY <2>1 DEF Progress
<1>6. Owed'  BY DEF WorkerInv, Owed, OwedFor
<1>7. Kept'  BY DEF WorkerInv, Kept, OnlyRefusedParked
<1>8. Armed'  BY <1>1 DEF WorkerInv, Armed
<1>9. Drain'  BY <1>1 DEF WorkerInv, Drain
<1> QED  BY <1>2, <1>3, <1>4, <1>5, <1>6, <1>7, <1>8, <1>9 DEF WorkerInv

\* What the invariant says of a task.
LEMMA TaskOf ==
    ASSUME WorkerInv, NEW x \in tasks
    PROVE  /\ x[1] \in TaskKinds /\ x[2] \in Msgs /\ OwedFor(x, bumped, dlq)
           /\ tasks \subseteq TaskKinds \X Msgs /\ dlq \subseteq Msgs /\ dropped \subseteq Msgs
    BY DEF WorkerInv, TypeOK, Owed

\* A background ack lands or is lost.
LEMMA AckTaskKeeps == ASSUME WorkerInv, NEW x \in tasks, AckTask(x), UNCHANGED scene PROVE WorkerInv'
<1>1. /\ x[1] \in {"ack", "parkAck", "drop"} /\ tasks' = tasks \ {x}
      /\ UNCHANGED <<fetched, consuming, stage, msgChan, loopVars, flush, backing, stored, bumped, dlq,
                     settings, server, unserved>>
    BY DEF AckTask
<1>2. \/ /\ Ack({x[2]}) /\ UNCHANGED faults
         /\ dropped' = IF x[1] = "drop" THEN dropped \cup {x[2]} ELSE dropped
      \/ Fault("ack") /\ UNCHANGED <<avail, acked, dropped>>
    BY DEF AckTask
<1>3. faults' \in 0..Scenes[scene].maxFaults  BY <1>2, FaultsStay, FaultsCount
<1>4. avail' \subseteq Msgs /\ acked' \subseteq Msgs /\ avail' \cap acked' = {}
    BY <1>2, TaskOf, FaultsStay DEF Ack
<1>5. dropped \subseteq dropped' /\ dropped' \subseteq Msgs  BY <1>2, TaskOf
<1>6. \A m \in acked' : \/ m \in acked \/ m \in bumped \cup dlq'
                        \/ m \in dropped' /\ Kind[m] = "poison"
    BY <1>1, <1>2, TaskOf DEF Ack, OwedFor
<1>7. /\ UNCHANGED <<fetched, consuming, stage, msgChan, loopVars, flush, backing, stored, bumped,
                     settings, server, unserved, scene>>
      /\ dlq' = dlq
    BY <1>1
<1> QED  BY <1>1, <1>3, <1>4, <1>5, <1>6, <1>7, TaskOf, TasksKeep

\* A background park: the DLQ has the message, or it stays unacked.
LEMMA ParkTaskKeeps == ASSUME WorkerInv, NEW x \in tasks, ParkTask(x), UNCHANGED scene PROVE WorkerInv'
<1>1. /\ x[1] = "park"
      /\ UNCHANGED <<queueVars, stage, msgChan, loopVars, flush, backing, stored, bumped, dropped,
                     settings, server, unserved>>
    BY DEF ParkTask
<1>2. \/ /\ dlq' = dlq \cup {x[2]} /\ tasks' = (tasks \ {x}) \cup {<<"parkAck", x[2]>>}
         /\ UNCHANGED faults
      \/ /\ Fault("dlq") /\ tasks' = tasks \ {x} /\ UNCHANGED dlq
    BY DEF ParkTask, AfterFailedPark
<1>3. faults' \in 0..Scenes[scene].maxFaults  BY <1>2, FaultsStay, FaultsCount
<1>4. x[2] \in Msgs /\ Kind[x[2]] = "poison"  BY <1>1, TaskOf DEF OwedFor
<1>5. dlq \subseteq dlq' /\ dlq' \subseteq Msgs /\ \A m \in dlq' : m \in dlq \/ Kind[m] = "poison"
    BY <1>2, <1>4, TaskOf
<1>6. tasks' \subseteq TaskKinds \X Msgs  BY <1>2, <1>4, TaskOf DEF TaskKinds
<1>7. \A y \in tasks' : y \in tasks \/ OwedFor(y, bumped, dlq')
    BY <1>2 DEF OwedFor
<1>8. /\ UNCHANGED <<fetched, consuming, stage, msgChan, loopVars, flush, backing, stored, bumped,
                     settings, server, unserved, scene>>
      /\ avail' = avail /\ acked' = acked /\ dropped' = dropped
    BY <1>1 DEF queueVars
<1> QED  BY <1>3, <1>5, <1>6, <1>7, <1>8, FaultsStay, TaskOf, TasksKeep

\* A step that only the environment takes.
LEMMA BackoffElapsesKeeps ==
    ASSUME WorkerInv, NEW t \in Tables, BackoffElapses(t), UNCHANGED scene
    PROVE  WorkerInv'
<1>1. /\ UNCHANGED <<loopVars, flush, tasks, sinkVars, settings, unserved, scene>>
      /\ avail' = avail /\ acked' = acked /\ fetched' = fetched /\ consuming' = consuming /\ stage' = stage
      /\ msgChan' = msgChan /\ server' = server /\ faults' = faults /\ backing' \subseteq backing
    BY DEF BackoffElapses, queueVars, envVars
<1>2. Drain'
    <2>1. UNCHANGED <<fetched, stage, msgChan, tableChan, batch, exited, flush, tasks>>
        BY <1>1 DEF loopVars
    <2> QED  BY <2>1 DEF WorkerInv, Drain
<1>3. backing' \subseteq Tables  BY <1>1, FaultsStay
<1> QED  BY <1>1, <1>2, <1>3, QueueOf, QueueKeeps

\* ClickHouse starts to fail, or recovers.
LEMMA ServerTurnsKeeps == ASSUME WorkerInv, ServerTurns, UNCHANGED scene PROVE WorkerInv'
<1>1. /\ UNCHANGED <<loopVars, flush, tasks, sinkVars, settings, unserved, scene>>
      /\ avail' = avail /\ acked' = acked /\ fetched' = fetched /\ consuming' = consuming /\ stage' = stage
      /\ msgChan' = msgChan /\ server' \in {"up", "down"} /\ faults' = faults /\ backing' = backing
    BY DEF ServerTurns, queueVars
<1>2. Drain'
    <2>1. UNCHANGED <<fetched, stage, msgChan, tableChan, batch, exited, flush, tasks>>
        BY <1>1 DEF loopVars
    <2> QED  BY <2>1 DEF WorkerInv, Drain
<1> QED  BY <1>1, <1>2, QueueOf, QueueKeeps

\* A reload changes the tenant's pool, limits and DLQ.
LEMMA ReloadKeeps == ASSUME WorkerInv, Reload, UNCHANGED scene PROVE WorkerInv'
<1>1. /\ settings' \in [pool : BOOLEAN, limits : BOOLEAN, dlq : BOOLEAN]
      /\ unserved' = (unserved \/ ~settings'.pool)
      /\ UNCHANGED <<queueVars, stage, msgChan, loopVars, flush, tasks, backing, sinkVars, server>>
    BY DEF Reload
<1>2. faults' \in 0..Scenes[scene].maxFaults  BY FaultsCount DEF Reload
<1>3. /\ UNCHANGED <<avail, acked, fetched, consuming, stage, msgChan, tableChan, batch, sized, timer, queued,
                     exited, flush, tasks, backing, stored, bumped, dlq, dropped, server, scene>>
    BY <1>1 DEF queueVars, loopVars, sinkVars
<1>4. unserved' \in BOOLEAN /\ (unserved => unserved')  BY <1>1
<1>5. TypeOK'  BY <1>1, <1>2, <1>3, <1>4 DEF WorkerInv, TypeOK
<1>6. Clean'  BY <1>3 DEF WorkerInv, Clean, Elems, Routed
<1>7. Placed'  BY <1>3 DEF WorkerInv, Placed, PlacedIn
<1>8. Progress'
    <2>1. \A t \in Tables : ProgressIn(flush[t], stored, dlq, unserved')
        BY <1>4, Progresses DEF WorkerInv, Progress
    <2> QED  BY <1>3, <2>1 DEF Progress
<1>9. Owed'  BY <1>3 DEF WorkerInv, Owed
<1>10. Kept'
    <2>1. \A m \in acked' : m \in bumped' \cup dlq' \/ (m \in dropped' /\ Kind[m] = "poison")
        BY <1>3 DEF WorkerInv, Kept
    <2>2. OnlyRefusedParked'  BY <1>3, <1>4 DEF WorkerInv, Kept, OnlyRefusedParked
    <2>3. ~settings'.pool => unserved'  BY <1>1
    <2> QED  BY <2>1, <2>2, <2>3 DEF Kept
<1>11. Armed'  BY <1>3 DEF WorkerInv, Armed
<1>12. Drain'  BY <1>3 DEF WorkerInv, Drain
<1> QED  BY <1>5, <1>6, <1>7, <1>8, <1>9, <1>10, <1>11, <1>12 DEF WorkerInv

\* A worker that has just started holds nothing.
Started ==
    /\ fetched = <<>> /\ consuming = TRUE /\ stage = "run" /\ msgChan = <<>>
    /\ tableChan = [t \in Tables |-> <<>>] /\ batch = [t \in Tables |-> <<>>]
    /\ sized = [t \in Tables |-> TRUE] /\ timer = [t \in Tables |-> FALSE]
    /\ queued = [t \in Tables |-> FALSE] /\ flush = [t \in Tables |-> Idle]
    /\ exited = {} /\ tasks = {} /\ backing = {}

\* What outlives a worker.
Outside ==
    /\ avail \subseteq Msgs /\ acked \subseteq Msgs /\ avail \cap acked = {}
    /\ settings \in [pool : BOOLEAN, limits : BOOLEAN, dlq : BOOLEAN] /\ server \in {"up", "down"}
    /\ stored \subseteq Msgs /\ bumped \subseteq stored /\ dlq \subseteq Msgs /\ dropped \subseteq Msgs
    /\ unserved \in BOOLEAN /\ faults \in 0..Scenes[scene].maxFaults /\ scene \in DOMAIN Scenes
    /\ Routed(stored) /\ Kept

\* A worker that has just started holds nothing, whatever the sinks hold.
LEMMA StartedInv == Started /\ Outside => WorkerInv
<1> SUFFICES ASSUME Started, Outside PROVE WorkerInv  OBVIOUS
<1>1. /\ Idle \in Flushes /\ PlacedIn(Idle) /\ Routed(Elems(Idle.rows)) /\ Idle.phase = "idle"
      /\ ProgressIn(Idle, stored, dlq, unserved)
    BY FlushEmpties DEF Idle
<1>2. <<>> \in Seq(Msgs) /\ Routed(Elems(<<>>))  BY ElemsEmpty DEF Routed
<1>3. \A t \in Tables : /\ tableChan[t] = <<>> /\ batch[t] = <<>> /\ ~timer[t] /\ flush[t] = Idle
    BY DEF Started
<1>4. TypeOK
    <2>1. /\ flush \in [Tables -> Flushes]
          /\ tableChan \in [Tables -> Seq(Msgs)] /\ batch \in [Tables -> Seq(Msgs)]
          /\ sized \in [Tables -> BOOLEAN] /\ timer \in [Tables -> BOOLEAN] /\ queued \in [Tables -> BOOLEAN]
        BY <1>1, <1>2 DEF Started
    <2>2. /\ fetched \in Seq(Msgs) /\ consuming \in BOOLEAN /\ stage \in Stages /\ msgChan \in Seq(Msgs)
          /\ exited \subseteq Tables /\ tasks \subseteq TaskKinds \X Msgs /\ backing \subseteq Tables
        BY <1>2 DEF Started, Stages
    <2> QED  BY <2>1, <2>2 DEF TypeOK, Outside, Flushes
<1>5. Clean  BY <1>1, <1>2, <1>3 DEF Clean, Outside
<1>6. Placed /\ Progress  BY <1>1, <1>3 DEF Placed, Progress
<1>7. Owed /\ Kept  BY DEF Started, Outside, Owed
<1>8. Armed  BY <1>3 DEF Armed
<1>9. Drain  BY DEF Started, Drain
<1> QED  BY <1>4, <1>5, <1>6, <1>7, <1>8, <1>9 DEF WorkerInv

\* A crash forgets the worker's memory and no sink.
LEMMA CrashKeeps == ASSUME WorkerInv, Crash, UNCHANGED scene PROVE WorkerInv'
<1>1. faults' \in 0..Scenes[scene].maxFaults  BY FaultsCount DEF Crash
<1>2. /\ avail' = Scenes[scene].msgs \ acked /\ acked' = acked /\ stored' = stored /\ bumped' = bumped
      /\ dlq' = dlq /\ dropped' = dropped /\ settings' = settings /\ server' = server /\ unserved' = unserved
    BY DEF Crash, sinkVars
<1>3. Started'  BY DEF Crash, Started, Idle, Emptied
<1>4. Routed(stored')  BY <1>2 DEF WorkerInv, Clean
<1>5. Kept'  BY <1>2 DEF WorkerInv, Kept, OnlyRefusedParked
<1>6. avail' \subseteq Msgs /\ acked' \subseteq Msgs /\ avail' \cap acked' = {}  BY <1>2, QueueOf
<1>7. /\ settings' \in [pool : BOOLEAN, limits : BOOLEAN, dlq : BOOLEAN] /\ server' \in {"up", "down"}
      /\ stored' \subseteq Msgs /\ bumped' \subseteq stored' /\ dlq' \subseteq Msgs /\ dropped' \subseteq Msgs
      /\ unserved' \in BOOLEAN /\ scene' \in DOMAIN Scenes
    BY <1>2 DEF WorkerInv, TypeOK
<1>8. Outside'  BY <1>1, <1>4, <1>5, <1>6, <1>7 DEF Outside, Routed
<1> QED  BY <1>3, <1>8, StartedInv, PTL

-----------------------------------------------------------------------------
(* The invariant.                                                          *)

\* The first worker starts with every message up for delivery.
LEMMA WorkerInvInit == Init => WorkerInv
<1> SUFFICES ASSUME Init PROVE WorkerInv  OBVIOUS
<1>1. Started  BY DEF Init, Started
<1>2. Scenes[scene].msgs \subseteq Msgs /\ Scenes[scene].maxFaults \in Nat /\ scene \in DOMAIN Scenes
    BY WorkerAssumption DEF Init
<1>3. settings \in [pool : BOOLEAN, limits : BOOLEAN, dlq : BOOLEAN] /\ settings.pool
    BY WorkerAssumption DEF Init
<1>4. Kept /\ Routed(stored)  BY <1>3 DEF Init, Kept, OnlyRefusedParked, Routed
<1>5. /\ avail \subseteq Msgs /\ acked \subseteq Msgs /\ avail \cap acked = {}
    BY <1>2 DEF Init
<1>6. server \in {"up", "down"} /\ unserved \in BOOLEAN
    BY DEF Init
<1>7. faults \in 0..Scenes[scene].maxFaults
    BY <1>2 DEF Init
<1>8. stored \subseteq Msgs /\ bumped \subseteq stored /\ dlq \subseteq Msgs /\ dropped \subseteq Msgs
    BY DEF Init
<1>9. Outside  BY <1>2, <1>3, <1>4, <1>5, <1>6, <1>7, <1>8 DEF Outside
<1> QED  BY <1>1, <1>9, StartedInv

\* Every step keeps the invariant.
LEMMA WorkerInvKept == WorkerInv /\ [Next]_<<vars, scene>> => WorkerInv'
<1> SUFFICES ASSUME WorkerInv, [Next]_<<vars, scene>> PROVE WorkerInv'  OBVIOUS
<1>1. CASE UNCHANGED <<vars, scene>>
    <2>1. /\ UNCHANGED <<loopVars, flush, tasks, sinkVars, settings, unserved, scene>>
          /\ avail' = avail /\ acked' = acked /\ fetched' = fetched /\ consuming' = consuming /\ stage' = stage
          /\ msgChan' = msgChan /\ server' = server /\ faults' = faults /\ backing' = backing
        BY <1>1 DEF vars, queueVars, envVars
    <2>2. Drain'
        <3>1. UNCHANGED <<fetched, stage, msgChan, tableChan, batch, exited, flush, tasks>>
            BY <2>1 DEF loopVars
        <3> QED  BY <3>1 DEF WorkerInv, Drain
    <2> QED  BY <2>1, <2>2, QueueOf, QueueKeeps
<1>2. CASE Next
    <2>1. UNCHANGED scene  BY <1>2 DEF Next
    <2>2. ASSUME NEW m \in Msgs, Fetch(m) \/ Redeliver(m)  PROVE WorkerInv'
        BY <2>1, <2>2, FetchKeeps, RedeliverKeeps
    <2>3. CASE Handle \/ Cancel \/ DeliveryEnds  BY <2>1, <2>3, HandleKeeps, CancelKeeps, DeliveryEndsKeeps
    <2>4. CASE Dispatch
        BY <2>1, <2>4, RouteKeeps, HaltedKeeps, CloseTablesKeeps, DrainedKeeps, AbandonKeeps, StopKeeps
           DEF Dispatch
    <2>5. ASSUME NEW t \in Tables, TableStep(t)  PROVE WorkerInv'
        <3>1. CASE AddTurnedAway(t)  BY <2>1, <3>1, AddTurnedAwayKeeps DEF AddTurnedAway
        <3>2. CASE AddUnconfigured(t)  BY <2>1, <3>2, AddTurnedAwayKeeps DEF AddUnconfigured
        <3>3. CASE AddRow(t) \/ FlushDone(t) \/ DrainFlush(t) \/ LoopExits(t)
            BY <2>1, <3>3, AddRowKeeps, FlushDoneKeeps, DrainFlushKeeps, LoopExitsKeeps
        <3> QED  BY <2>5, <3>1, <3>2, <3>3 DEF TableStep
    <2>6. ASSUME NEW t \in Tables, FlushStep(t)  PROVE WorkerInv'
        BY <2>1, <2>6, FlushParksKeeps, FlushHandsBackKeeps, FlushTriesKeeps, BulkKeeps, BumpKeeps,
           IsolateKeeps, ParkKeeps, ParkAckKeeps, FailsKeeps, CloseKeeps DEF FlushStep
    <2>7. ASSUME NEW t \in Tables, TimerFires(t) \/ BackoffElapses(t)  PROVE WorkerInv'
        BY <2>1, <2>7, TimerFiresKeeps, BackoffElapsesKeeps
    <2>8. ASSUME NEW x \in tasks, TaskStep(x)  PROVE WorkerInv'
        BY <2>1, <2>8, AckTaskKeeps, ParkTaskKeeps DEF TaskStep
    <2>9. CASE ServerTurns \/ Reload \/ Crash
        BY <2>1, <2>9, ServerTurnsKeeps, ReloadKeeps, CrashKeeps
    <2> QED  BY <1>2, <2>2, <2>3, <2>4, <2>5, <2>6, <2>7, <2>8, <2>9 DEF Next
<1> QED  BY <1>1, <1>2

\* WorkerInv is an invariant of the specification.
LEMMA WorkerInvHolds == Spec => []WorkerInv
    BY WorkerInvInit, WorkerInvKept, PTL DEF Spec

-----------------------------------------------------------------------------
(* What follows.                                                           *)

\* An acked message is in ClickHouse or on the DLQ, or is poison that was
\* dropped with the DLQ off: whatever the order of flushes, failed acks,
\* redeliveries, reloads and crashes (flushGroup, parkOnDLQ, rejectPoison).
THEOREM RowsKept == Spec => []NoRowLost
<1>1. WorkerInv => NoRowLost
    BY DEF WorkerInv, TypeOK, Kept, NoRowLost
<1> QED  BY <1>1, WorkerInvHolds, PTL

\* Only rows ClickHouse refused, or of a tenant that was on no pool, go to
\* the DLQ: never rows that share a batch with a refused one, or that an
\* outage met (flushTable, flushGroup).
THEOREM GoodRowsUnparked == Spec => []OnlyRefusedParked
<1>1. WorkerInv => OnlyRefusedParked  BY DEF WorkerInv, Kept
<1> QED  BY <1>1, WorkerInvHolds, PTL

\* A written row's namespaces are invalidated before its ack (handleSuccess).
THEOREM AcksInvalidated == Spec => []InvalidatedFirst
<1>1. WorkerInv => InvalidatedFirst
    <2> SUFFICES ASSUME WorkerInv, NEW m \in acked, m \in stored, m \notin dlq PROVE m \in bumped
        BY DEF InvalidatedFirst
    <2>1. Kind[m] # "poison"  BY DEF WorkerInv, Clean, Routed
    <2> QED  BY <2>1 DEF WorkerInv, Kept
<1> QED  BY <1>1, WorkerInvHolds, PTL

\* A batch always has its deadline, a latched trigger or the drain to flush
\* it (tableBatcher.requestFlush, onFlushDone, drainAndExit).
THEOREM BatchesFlushed == Spec => []NoBatchStranded
<1>1. WorkerInv => NoBatchStranded  BY DEF WorkerInv, Armed, NoBatchStranded
<1> QED  BY <1>1, WorkerInvHolds, PTL

\* A worker whose consumer halts holds no delivery when its units are given
\* up (dispatchLoop, shutdown).
THEOREM StopsEmptyHanded == Spec => []UnitsGivenUpEmpty
<1>1. WorkerInv => UnitsGivenUpEmpty
    <2> SUFFICES ASSUME WorkerInv, Halts, stage = "stopped" PROVE InHand = {} /\ tasks = {}
        BY DEF UnitsGivenUpEmpty
    <2>1. fetched = <<>> /\ msgChan = <<>> /\ exited = Tables /\ tasks = {}  BY DrainOf
    <2>2. \A t \in Tables :
            /\ tableChan[t] = <<>> /\ batch[t] = <<>> /\ flush[t].group \cup flush[t].later = {}
        BY <2>1, ExitedQuiet, TableOf DEF PlacedIn
    <2>3. \A t \in Tables : Elems(tableChan[t]) \cup Elems(batch[t]) \cup Unsettled(flush[t]) = {}
        BY <2>2, ElemsEmpty DEF Unsettled, At
    <2>4. UNION {Elems(tableChan[t]) \cup Elems(batch[t]) \cup Unsettled(flush[t]) : t \in Tables} = {}
        BY <2>3
    <2>5. Elems(fetched) = {} /\ Elems(msgChan) = {} /\ {x[2] : x \in tasks} = {}  BY <2>1, ElemsEmpty
    <2> QED  BY <2>1, <2>4, <2>5 DEF InHand
<1> QED  BY <1>1, WorkerInvHolds, PTL

-----------------------------------------------------------------------------
(* The retry backoff.                                                      *)

\* A breaker with a probe out is open and its window has elapsed.
ProbeSound(b) == b.probing => b.failures > 0 /\ b.left = 0

BreakerInv == \A k \in Keys : ProbeSound(bo[k])

-----------------------------------------------------------------------------
(* The breaker's operators.                                                *)

\* adopt keeps the failures and the probe, never lengthens the window, and
\* leaves it within the cap it folded in.
LEMMA AdoptFacts ==
    ASSUME NEW b \in Breakers, NEW cap \in Nat
    PROVE  /\ Adopt(b, cap) \in Breakers
           /\ Adopt(b, cap).failures = b.failures
           /\ Adopt(b, cap).probing = b.probing
           /\ Adopt(b, cap).left <= b.left
           /\ cap > 0 => Adopt(b, cap).left <= MaxOf(cap, RetryBase)
           /\ b.ceiling = 0 /\ cap > 0 => Adopt(b, cap).ceiling = MaxOf(cap, RetryBase)
    BY BackoffAssumption DEF Adopt, Breaker, Breakers, MaxOf, MinOf

\* allow and waiting fold a cap in the same way.
LEMMA TouchFacts ==
    ASSUME NEW b \in Breakers, NEW cap \in Nat, ProbeSound(b)
    PROVE  /\ Touch(b, cap) \in Breakers
           /\ Touch(b, cap).failures = b.failures
           /\ Touch(b, cap).probing = b.probing
           /\ ProbeSound(Touch(b, cap))
           /\ cap > 0 /\ b.failures > 0 => Touch(b, cap).left <= MaxOf(cap, RetryBase)
<1>1. CASE b.failures = 0  BY <1>1 DEF Touch, Breakers
<1>2. CASE b.failures # 0
    <2>1. Touch(b, cap) = Adopt(b, cap)  BY <1>2 DEF Touch
    <2>2. Adopt(b, cap).left \in Nat /\ b.left \in Nat  BY AdoptFacts DEF Breakers
    <2>3. ProbeSound(Adopt(b, cap))
        <3> SUFFICES ASSUME Adopt(b, cap).probing
                     PROVE  Adopt(b, cap).failures > 0 /\ Adopt(b, cap).left = 0
            BY DEF ProbeSound
        <3>1. b.probing  BY AdoptFacts
        <3>2. b.failures > 0 /\ b.left = 0  BY <3>1 DEF ProbeSound
        <3> QED  BY <2>2, <3>2, AdoptFacts
    <2> QED  BY <2>1, <2>3, AdoptFacts
<1> QED  BY <1>1, <1>2

\* Those turned away get a wait, within the bound of the window's.
LEMMA WaitsFacts ==
    ASSUME NEW b \in Breakers, NEW w \in Waits(b)
    PROVE  /\ w \in Nat
           /\ \A c \in Nat : b.left <= MaxOf(c, RetryBase) => w < MaxOf(c, RetryBase) + RetryBase
    BY BackoffAssumption DEF Waits, Spread, Breakers, MaxOf

\* What fail leaves: an open breaker with no probe out, and a wait for the
\* failed rows within their tenant's cap.
LEMMA FailedFacts ==
    ASSUME NEW b \in Breakers, NEW cap \in Nat, ProbeSound(b), NEW c \in Failed(b, cap)
    PROVE  /\ c \in Breakers
           /\ ~c.probing
           /\ \A w \in FailWaits(b, c) :
                /\ w \in Nat
                /\ cap > 0 => w < MaxOf(cap, RetryBase) + RetryBase
<1>1. CASE Running(b)
    <2>1. c = Adopt(b, cap)  BY <1>1 DEF Failed
    <2>2. c \in Breakers /\ ~c.probing
        BY <1>1, <2>1, AdoptFacts DEF Running, ProbeSound, Breakers
    <2>3. ASSUME NEW w \in FailWaits(b, c)
          PROVE  w \in Nat /\ (cap > 0 => w < MaxOf(cap, RetryBase) + RetryBase)
        <3>1. w \in Waits(c)  BY <1>1 DEF FailWaits
        <3>2. w \in Nat /\ \A d \in Nat : c.left <= MaxOf(d, RetryBase) => w < MaxOf(d, RetryBase) + RetryBase
            BY <2>2, <3>1, WaitsFacts
        <3>3. cap > 0 => c.left <= MaxOf(cap, RetryBase)  BY <2>1, AdoptFacts
        <3> QED  BY <3>2, <3>3
    <2> QED  BY <2>2, <2>3
<1>2. CASE ~Running(b)
    <2> DEFINE n == MinOf(b.failures + 1, MaxFailures)
               o == Breaker(n, b.left, FALSE, 0)
               a == Adopt(o, cap)
               half == Delay(a.failures, a.ceiling) \div 2
    <2>1. n \in 1..MaxFailures  BY BackoffAssumption DEF Breakers, MinOf
    <2>2. o \in Breakers /\ o.failures = n /\ o.ceiling = 0 /\ o.probing = FALSE
        BY <2>1 DEF Breaker, Breakers
    <2>3. /\ a \in Breakers /\ a.failures = n /\ a.probing = FALSE
          /\ cap > 0 => a.ceiling = MaxOf(cap, RetryBase)
        BY <2>2, AdoptFacts
    <2>4. Delay(n, a.ceiling) \in Nat /\ Delay(n, a.ceiling) <= MaxOf(a.ceiling, RetryBase)
        <3>1. 2^(n - 1) \in Nat \ {0}  BY <2>1, DoublingAssumption
        <3> DEFINE p == 2^(n - 1)
        <3>2. p \in Nat  BY <3>1
        <3>3. a.ceiling \in Nat  BY <2>3 DEF Breakers
        <3> HIDE DEF p, n, a
        <3>4. RetryBase * p \in Nat  BY <3>2, BackoffAssumption
        <3> QED  BY <3>3, <3>4, BackoffAssumption DEF Delay, MinOf, MaxOf, p
    <2>5. PICK j \in Spread(half) : c = [a EXCEPT !.left = half + j]
        BY <1>2 DEF Failed
    <2> HIDE DEF a, o, n
    <2>6. half \in Nat /\ 2 * half <= MaxOf(a.ceiling, RetryBase)
        <3> DEFINE d == Delay(n, a.ceiling)
        <3>1. d \in Nat /\ d <= MaxOf(a.ceiling, RetryBase)  BY <2>4
        <3>2. half = d \div 2  BY <2>3
        <3>3. MaxOf(a.ceiling, RetryBase) \in Nat  BY <2>3, BackoffAssumption DEF Breakers, MaxOf
        <3> HIDE DEF d
        <3> QED  BY <3>1, <3>2, <3>3
    <2>7. half + j \in Nat /\ half + j <= MaxOf(a.ceiling, RetryBase)
        <3>1. j \in Nat /\ (j < half \/ j = 0)  BY <2>5, <2>6 DEF Spread
        <3>2. MaxOf(a.ceiling, RetryBase) \in Nat  BY <2>3, BackoffAssumption DEF Breakers, MaxOf
        <3> HIDE DEF half
        <3> QED  BY <2>6, <3>1, <3>2
    <2> HIDE DEF half
    <2>8. c \in Breakers /\ ~c.probing /\ c.left = half + j
        BY <2>3, <2>5, <2>7 DEF Breakers
    <2>9. ASSUME cap > 0  PROVE half + j < MaxOf(cap, RetryBase) + RetryBase
        BY <2>3, <2>7, <2>9, BackoffAssumption DEF MaxOf
    <2>10. FailWaits(b, c) = {c.left}  BY <1>2 DEF FailWaits
    <2> QED  BY <2>7, <2>8, <2>9, <2>10
<1> QED  BY <1>1, <1>2

-----------------------------------------------------------------------------
(* Steps of the state.                                                     *)

\* What WaitWithinCap needs of the rows of a flush the pool turned away:
\* their wait is chosen before they are handed back.
WaitBound(r) ==
    Cap[LoopOf[r]] > 0 /\ (row[r] = "queued" \/ (row[r] = "flushing" /\ flight[LoopOf[r]] = "refused"))
        => wait[r] < MaxOf(Cap[LoopOf[r]], RetryBase) + RetryBase

WaitInv == \A r \in Rows : WaitBound(r)

IInv == BackoffTypeOK /\ BreakerInv /\ NoLeakedProbe /\ WaitInv

\* The keys are the pool and the tables, and the pool is no table.
LEMMA KeyFacts ==
    /\ Pool \in Keys
    /\ \A l \in Loops : TableKey[l] \in Keys /\ TableKey[l] # Pool /\ Cap[l] \in Nat
    /\ \A r \in Rows : LoopOf[r] \in Loops
    BY BackoffAssumption DEF Keys

\* A breaker replaced by a sound one.
LEMMA BreakerStep ==
    ASSUME BackoffTypeOK, BreakerInv, NEW k \in Keys, NEW b \in Breakers, ProbeSound(b),
           bo' = [bo EXCEPT ![k] = b]
    PROVE  bo' \in [Keys -> Breakers] /\ BreakerInv'
    BY DEF BackoffTypeOK, BreakerInv, ProbeSound

\* A flush's step that touches the breaker k: no probe is left without a
\* flush if the flush stays out for every other breaker, and stays out for
\* k or leaves it with no probe of its own.
LEMMA LeakStep ==
    ASSUME BackoffTypeOK, NoLeakedProbe, NEW l \in Loops, NEW k \in Keys, NEW b \in Breakers, NEW p,
           bo' = [bo EXCEPT ![k] = b],
           flight' = [flight EXCEPT ![l] = p],
           \A q \in Keys \ {k} : flight[l] \in OutPhases(l, q) => p \in OutPhases(l, q),
           b.probing => \/ p \in OutPhases(l, k)
                        \/ bo[k].probing /\ flight[l] \notin OutPhases(l, k)
    PROVE  NoLeakedProbe'
<1> SUFFICES ASSUME NEW q \in Keys, bo'[q].probing
             PROVE  \E m \in Loops : flight'[m] \in OutPhases(m, q)
    BY DEF NoLeakedProbe, OutPhases
<1>1. CASE q # k
    <2>1. bo[q].probing  BY <1>1 DEF BackoffTypeOK
    <2>2. PICK m \in Loops : flight[m] \in OutPhases(m, q)  BY <2>1 DEF NoLeakedProbe
    <2>3. flight'[m] \in OutPhases(m, q)
        <3>1. CASE m = l  BY <1>1, <2>2, <3>1 DEF BackoffTypeOK
        <3>2. CASE m # l  BY <2>2, <3>2 DEF BackoffTypeOK
        <3> QED  BY <3>1, <3>2
    <2> QED  BY <2>3
<1>2. CASE q = k
    <2>1. b.probing  BY <1>2 DEF BackoffTypeOK
    <2>2. CASE p \in OutPhases(l, k)  BY <1>2, <2>2 DEF BackoffTypeOK
    <2>3. CASE bo[k].probing /\ flight[l] \notin OutPhases(l, k)
        <3>1. PICK m \in Loops : flight[m] \in OutPhases(m, q)  BY <1>2, <2>3 DEF NoLeakedProbe
        <3>2. m # l  BY <1>2, <2>3, <3>1
        <3>3. flight'[m] = flight[m]  BY <3>2 DEF BackoffTypeOK
        <3> QED  BY <3>1, <3>3
    <2> QED  BY <2>1, <2>2, <2>3
<1> QED  BY <1>1, <1>2

\* Waits given to some rows of one loop keep WaitInv, when they are within
\* its bound and the other rows stay where they are.
LEMMA WaitStep ==
    ASSUME BackoffTypeOK, WaitInv, NEW l \in Loops, NEW rs \in SUBSET Rows, NEW w \in Nat,
           \A r \in rs : LoopOf[r] = l,
           Cap[l] > 0 => w < MaxOf(Cap[l], RetryBase) + RetryBase,
           NEW phase \in RowPhases,
           row' = Moved(rs, phase) \/ row' = row,
           wait' = Delayed(rs, w),
           \/ flight' = flight
           \/ \E p \in FlightPhases : /\ flight' = [flight EXCEPT ![l] = p]
                                      /\ p = "refused" => RowsAt(l, "flushing") \subseteq rs
    PROVE  WaitInv' /\ wait' \in [Rows -> Nat] /\ row' \in [Rows -> RowPhases]
<1>1. wait' \in [Rows -> Nat] /\ row' \in [Rows -> RowPhases]
    BY DEF BackoffTypeOK, Delayed, Moved
<1>2. ASSUME NEW r \in Rows  PROVE WaitBound(r)'
    <2>1. CASE r \in rs
        <3>1. wait'[r] = w /\ LoopOf[r] = l  BY <2>1 DEF Delayed
        <3> QED  BY <3>1 DEF WaitBound
    <2>2. CASE r \notin rs
        <3>1. wait'[r] = wait[r] /\ row'[r] = row[r]  BY <2>2 DEF Delayed, Moved, BackoffTypeOK
        <3>2. WaitBound(r)  BY DEF WaitInv
        <3>3. LoopOf[r] \in Loops  BY KeyFacts
        <3>4. row[r] = "flushing" /\ flight'[LoopOf[r]] = "refused" => flight[LoopOf[r]] = "refused"
            BY <2>2, <3>3 DEF RowsAt, BackoffTypeOK
        <3> QED  BY <3>1, <3>2, <3>4 DEF WaitBound
    <2> QED  BY <2>1, <2>2
<1> QED  BY <1>1, <1>2 DEF WaitInv

\* Steps that choose no wait.
LEMMA NoWaitStep ==
    ASSUME BackoffTypeOK, WaitInv, NEW l \in Loops, NEW rs \in SUBSET Rows,
           NEW phase \in RowPhases, phase = "queued" => flight[l] = "refused" /\ rs = RowsAt(l, "flushing"),
           row' = Moved(rs, phase) \/ row' = row,
           wait' = wait,
           flight' = flight \/ \E p \in FlightPhases \ {"refused"} : flight' = [flight EXCEPT ![l] = p],
           phase = "flushing" => flight' # flight /\ \A r \in rs : LoopOf[r] = l
    PROVE  WaitInv' /\ row' \in [Rows -> RowPhases]
<1>1. row' \in [Rows -> RowPhases]  BY DEF BackoffTypeOK, Moved
<1>2. ASSUME NEW r \in Rows  PROVE WaitBound(r)'
    <2>1. WaitBound(r) /\ LoopOf[r] \in Loops  BY KeyFacts DEF WaitInv
    <2>2. flight'[LoopOf[r]] = "refused" => flight[LoopOf[r]] = "refused" /\ flight'[LoopOf[r]] = flight[LoopOf[r]]
        BY <2>1 DEF BackoffTypeOK
    <2>3. CASE row'[r] = row[r]  BY <2>1, <2>2, <2>3 DEF WaitBound
    <2>4. CASE row'[r] # row[r]
        <3>1. r \in rs /\ row'[r] = phase  BY <2>4 DEF Moved
        <3>2. CASE phase = "queued"
            BY <2>1, <3>1, <3>2 DEF WaitBound, RowsAt
        <3>3. CASE phase = "flushing"
            <4>1. LoopOf[r] = l /\ flight'[l] # "refused"  BY <3>1, <3>3 DEF BackoffTypeOK
            <4> QED  BY <3>1, <3>3, <4>1 DEF WaitBound
        <3>4. CASE phase \notin {"queued", "flushing"}  BY <3>1, <3>4 DEF WaitBound
        <3> QED  BY <3>2, <3>3, <3>4
    <2> QED  BY <2>3, <2>4
<1> QED  BY <1>1, <1>2 DEF WaitInv

-----------------------------------------------------------------------------
(* The environment and the arriving rows.                                  *)

\* Publishing a row, and ClickHouse going and coming back, keep IInv.
LEMMA EnvironmentStep ==
    ASSUME IInv, \/ \E r \in Rows : Publish(r)
                 \/ \E k \in Keys : Break(k) \/ Repair(k)
    PROVE  IInv'
<1>1. ASSUME NEW r \in Rows, Publish(r)  PROVE IInv'
    <2>1. BackoffTypeOK'  BY <1>1 DEF IInv, BackoffTypeOK, Publish, Moved, Delayed, RowPhases
    <2>2. BreakerInv' /\ NoLeakedProbe'
        BY <1>1 DEF IInv, Publish, BreakerInv, ProbeSound, NoLeakedProbe, OutPhases
    <2>3. Cap[LoopOf[r]] > 0 => 0 < MaxOf(Cap[LoopOf[r]], RetryBase) + RetryBase
        BY KeyFacts, BackoffAssumption DEF MaxOf
    <2>4. WaitInv'
        <3>1. LoopOf[r] \in Loops  BY KeyFacts
        <3>2. /\ row' = Moved({r}, "queued") /\ wait' = Delayed({r}, 0) /\ flight' = flight
              /\ "queued" \in RowPhases
            BY <1>1 DEF Publish, RowPhases
        <3> QED  BY <2>3, <3>1, <3>2, WaitStep DEF IInv
    <2> QED  BY <2>1, <2>2, <2>4 DEF IInv
<1>2. ASSUME NEW k \in Keys, Break(k) \/ Repair(k)  PROVE IInv'
    BY <1>2 DEF IInv, Break, Repair, BackoffTypeOK, BreakerInv, ProbeSound, NoLeakedProbe, OutPhases,
                WaitInv, WaitBound
<1> QED  BY <1>1, <1>2

\* So does time passing: windows and waits only shrink.
LEMMA TickStep ==
    ASSUME IInv, Tick
    PROVE  IInv'
<1>1. bo' \in [Keys -> Breakers] /\ \A k \in Keys :
         /\ bo'[k].failures = bo[k].failures /\ bo'[k].probing = bo[k].probing
         /\ bo[k].left = 0 => bo'[k].left = 0
    BY DEF IInv, BackoffTypeOK, Tick, Breakers, MaxOf
<1>2. wait' \in [Rows -> Nat] /\ \A r \in Rows : wait'[r] <= wait[r]
    BY DEF IInv, BackoffTypeOK, Tick, MaxOf
<1>3. BackoffTypeOK'  BY <1>1, <1>2 DEF IInv, BackoffTypeOK, Tick
<1>4. BreakerInv'
    <2> SUFFICES ASSUME NEW k \in Keys, bo'[k].probing
                 PROVE  bo'[k].failures > 0 /\ bo'[k].left = 0
        BY DEF BreakerInv, ProbeSound
    <2>1. bo[k].probing  BY <1>1
    <2>2. bo[k].failures > 0 /\ bo[k].left = 0  BY <2>1 DEF IInv, BreakerInv, ProbeSound
    <2> QED  BY <1>1, <2>2
<1>5. NoLeakedProbe'
    <2> SUFFICES ASSUME NEW k \in Keys, bo'[k].probing
                 PROVE  \E l \in Loops : flight[l] \in OutPhases(l, k)
        BY DEF NoLeakedProbe, OutPhases, Tick
    <2>1. bo[k].probing  BY <1>1
    <2> QED  BY <2>1 DEF IInv, NoLeakedProbe
<1>6. WaitInv'
    <2> SUFFICES ASSUME NEW r \in Rows  PROVE WaitBound(r)'
        BY DEF WaitInv
    <2>1. WaitBound(r) /\ LoopOf[r] \in Loops  BY KeyFacts DEF IInv, WaitInv
    <2>2. wait[r] \in Nat /\ wait'[r] \in Nat /\ wait'[r] <= wait[r]  BY <1>2 DEF IInv, BackoffTypeOK
    <2>3. MaxOf(Cap[LoopOf[r]], RetryBase) + RetryBase \in Nat
        BY <2>1, KeyFacts, BackoffAssumption DEF MaxOf
    <2>4. row' = row /\ flight' = flight  BY DEF Tick
    <2> QED  BY <2>1, <2>2, <2>3, <2>4 DEF WaitBound
<1> QED  BY <1>3, <1>4, <1>5, <1>6 DEF IInv

\* A row asks the breaker k: it folds its tenant's cap in, and is moved on
\* or turned away.
LEMMA RowStep ==
    ASSUME IInv, NEW r \in Rows, NEW k \in Keys, NEW phase \in RowPhases \ {"queued", "flushing"},
           bo' = [bo EXCEPT ![k] = Touch(bo[k], Cap[LoopOf[r]])],
           \/ row' = Moved({r}, phase) /\ wait' = wait
           \/ /\ TurnsAway(Touch(bo[k], Cap[LoopOf[r]]))
              /\ row' = Moved({r}, "queued") \/ row' = row
              /\ \E w \in Waits(Touch(bo[k], Cap[LoopOf[r]])) : wait' = Delayed({r}, w),
           UNCHANGED <<open, flight, down, probes>>
    PROVE  IInv'
<1> DEFINE l == LoopOf[r]
           b == Touch(bo[k], Cap[l])
<1>1. l \in Loops /\ Cap[l] \in Nat /\ bo[k] \in Breakers /\ ProbeSound(bo[k])
    BY KeyFacts DEF IInv, BackoffTypeOK, BreakerInv
<1>2. /\ b \in Breakers /\ ProbeSound(b) /\ b.probing = bo[k].probing /\ b.failures = bo[k].failures
      /\ Cap[l] > 0 /\ bo[k].failures > 0 => b.left <= MaxOf(Cap[l], RetryBase)
    BY <1>1, TouchFacts
<1> HIDE DEF b
<1>3. bo' \in [Keys -> Breakers] /\ BreakerInv'
    BY <1>2, BreakerStep DEF IInv, b
<1>4. NoLeakedProbe'
    <2> SUFFICES ASSUME NEW q \in Keys, bo'[q].probing
                 PROVE  \E m \in Loops : flight[m] \in OutPhases(m, q)
        BY DEF NoLeakedProbe, OutPhases
    <2>1. bo[q].probing
        <3>1. CASE q = k
            <4>1. bo'[k] = b  BY DEF b, IInv, BackoffTypeOK
            <4> QED  BY <1>2, <3>1, <4>1
        <3>2. CASE q # k  BY <3>2 DEF IInv, BackoffTypeOK
        <3> QED  BY <3>1, <3>2
    <2> QED  BY <2>1 DEF IInv, NoLeakedProbe
<1>5. WaitInv' /\ wait' \in [Rows -> Nat] /\ row' \in [Rows -> RowPhases]
    <2>1. CASE row' = Moved({r}, phase) /\ wait' = wait
        <3>1. WaitInv' /\ row' \in [Rows -> RowPhases]
            <4>1. phase \in RowPhases /\ phase # "queued" /\ phase # "flushing" /\ flight' = flight
                  /\ {r} \in SUBSET Rows
                OBVIOUS
            <4> QED  BY <1>1, <2>1, <4>1, NoWaitStep DEF IInv
        <3> QED  BY <2>1, <3>1 DEF IInv, BackoffTypeOK
    <2>2. CASE /\ TurnsAway(b)
               /\ row' = Moved({r}, "queued") \/ row' = row
               /\ \E w \in Waits(b) : wait' = Delayed({r}, w)
        <3>1. PICK w \in Waits(b) : wait' = Delayed({r}, w)  BY <2>2
        <3>2. w \in Nat /\ \A c \in Nat : b.left <= MaxOf(c, RetryBase) => w < MaxOf(c, RetryBase) + RetryBase
            BY <1>2, WaitsFacts
        <3>3. Cap[l] > 0 => w < MaxOf(Cap[l], RetryBase) + RetryBase
            BY <1>1, <1>2, <2>2, <3>2 DEF TurnsAway
        <3>4. "queued" \in RowPhases /\ {r} \in SUBSET Rows /\ \A x \in {r} : LoopOf[x] = l  BY DEF RowPhases
        <3>5. flight' = flight  OBVIOUS
        <3> HIDE DEF l
        <3> QED  BY <1>1, <2>2, <3>1, <3>2, <3>3, <3>4, <3>5, WaitStep DEF IInv
    <2> QED  BY <2>1, <2>2 DEF b
<1>6. BackoffTypeOK'  BY <1>3, <1>5 DEF IInv, BackoffTypeOK
<1> QED  BY <1>3, <1>4, <1>5, <1>6 DEF IInv

\* A row asking backoffs.waiting (tableBatcher.add) keeps IInv.
LEMMA ArrivalStep ==
    ASSUME IInv, NEW r \in Rows, RowArrives(r) \/ RowAsksTable(r)
    PROVE  IInv'
<1> USE DEF RowPhases
<1>1. CASE RowArrives(r) /\ open = 0
    <2>1. /\ row' = Moved({r}, "batched") /\ wait' = wait /\ flight' = flight /\ bo' = bo
          /\ UNCHANGED <<open, down, probes>>
        BY <1>1 DEF RowArrives
    <2>2. WaitInv' /\ row' \in [Rows -> RowPhases]
        <3>1. LoopOf[r] \in Loops /\ {r} \in SUBSET Rows  BY KeyFacts
        <3> QED  BY <2>1, <3>1, NoWaitStep DEF IInv
    <2>3. BreakerInv' /\ NoLeakedProbe'
        BY <2>1 DEF IInv, BreakerInv, ProbeSound, NoLeakedProbe, OutPhases
    <2> QED  BY <2>1, <2>2, <2>3 DEF IInv, BackoffTypeOK
<1>2. CASE RowArrives(r) /\ open # 0
    <2>1. Pool \in Keys /\ "asked" \in RowPhases \ {"queued", "flushing"}  BY KeyFacts
    <2>2. bo' = [bo EXCEPT ![Pool] = Touch(bo[Pool], Cap[LoopOf[r]])]
        BY <1>2 DEF RowArrives
    <2>3. \/ row' = Moved({r}, "asked") /\ wait' = wait
          \/ /\ TurnsAway(Touch(bo[Pool], Cap[LoopOf[r]]))
             /\ row' = Moved({r}, "queued") \/ row' = row
             /\ \E w \in Waits(Touch(bo[Pool], Cap[LoopOf[r]])) : wait' = Delayed({r}, w)
        BY <1>2 DEF RowArrives
    <2>4. UNCHANGED <<open, flight, down, probes>>  BY <1>2 DEF RowArrives
    <2> QED  BY <2>1, <2>2, <2>3, <2>4, RowStep
<1>3. CASE RowAsksTable(r)
    <2> DEFINE k == TableKey[LoopOf[r]]
    <2>1. k \in Keys /\ "batched" \in RowPhases \ {"queued", "flushing"}  BY KeyFacts
    <2>2. bo' = [bo EXCEPT ![k] = Touch(bo[k], Cap[LoopOf[r]])]
        BY <1>3 DEF RowAsksTable
    <2>3. \/ row' = Moved({r}, "batched") /\ wait' = wait
          \/ /\ TurnsAway(Touch(bo[k], Cap[LoopOf[r]]))
             /\ row' = Moved({r}, "queued") \/ row' = row
             /\ \E w \in Waits(Touch(bo[k], Cap[LoopOf[r]])) : wait' = Delayed({r}, w)
        BY <1>3 DEF RowAsksTable
    <2>4. UNCHANGED <<open, flight, down, probes>>  BY <1>3 DEF RowAsksTable
    <2> HIDE DEF k
    <2> QED  BY <2>1, <2>2, <2>3, <2>4, RowStep
<1> QED  BY <1>1, <1>2, <1>3

-----------------------------------------------------------------------------
(* The flush.                                                              *)

\* What a flush's step on the breaker k owes: a sound breaker, no leaked
\* probe, and the types of what it leaves to its caller.
LEMMA FlushBreakerStep ==
    ASSUME IInv, NEW l \in Loops, NEW k \in Keys, NEW b \in Breakers, ProbeSound(b),
           NEW p \in FlightPhases,
           bo' = [bo EXCEPT ![k] = b], flight' = [flight EXCEPT ![l] = p],
           \A q \in Keys \ {k} : flight[l] \in OutPhases(l, q) => p \in OutPhases(l, q),
           b.probing => \/ p \in OutPhases(l, k)
                        \/ bo[k].probing /\ flight[l] \notin OutPhases(l, k),
           WaitInv', wait' \in [Rows -> Nat], row' \in [Rows -> RowPhases],
           open' \in Int, down' = down, probes' \subseteq Loops \X Keys
    PROVE  IInv'
<1>1. bo' \in [Keys -> Breakers] /\ BreakerInv'  BY BreakerStep DEF IInv
<1>2. NoLeakedProbe'  BY LeakStep DEF IInv
<1>3. BackoffTypeOK'  BY <1>1 DEF IInv, BackoffTypeOK
<1> QED  BY <1>1, <1>2, <1>3 DEF IInv

\* Steps that touch no breaker: the flush starts, or its INSERT ends.
LEMMA InsertStep ==
    ASSUME IInv, NEW l \in Loops,
           StartFlush(l) \/ InsertSettles(l) \/ InsertTableFails(l) \/ InsertPoolFails(l)
    PROVE  IInv'
<1> USE DEF RowPhases, FlightPhases
<1>1. \E p \in FlightPhases \ {"refused"} :
         /\ flight' = [flight EXCEPT ![l] = p]
         /\ flight[l] # p
         /\ \A q \in Keys : flight[l] \in OutPhases(l, q) => p \in OutPhases(l, q)
    BY DEF StartFlush, InsertSettles, InsertTableFails, InsertPoolFails, OutPhases
<1>2. PICK p \in FlightPhases \ {"refused"} :
         /\ flight' = [flight EXCEPT ![l] = p]
         /\ flight[l] # p
         /\ \A q \in Keys : flight[l] \in OutPhases(l, q) => p \in OutPhases(l, q)
    BY <1>1
<1>3. bo' = bo /\ wait' = wait /\ UNCHANGED <<open, down, probes>>
    BY DEF StartFlush, InsertSettles, InsertTableFails, InsertPoolFails
<1>4. \E rs \in SUBSET Rows : \E phase \in {"flushing", "done"} :
         /\ row' = Moved(rs, phase) \/ row' = row
         /\ \A r \in rs : LoopOf[r] = l
    BY DEF StartFlush, InsertSettles, InsertTableFails, InsertPoolFails, RowsAt
<1>5. PICK rs \in SUBSET Rows, phase \in {"flushing", "done"} :
         /\ row' = Moved(rs, phase) \/ row' = row
         /\ \A r \in rs : LoopOf[r] = l
    BY <1>4
<1>6. WaitInv' /\ row' \in [Rows -> RowPhases]
    <2>1. flight' # flight  BY <1>2 DEF IInv, BackoffTypeOK
    <2>2. phase \in RowPhases /\ phase # "queued"  OBVIOUS
    <2> QED  BY <1>2, <1>3, <1>5, <2>1, <2>2, NoWaitStep DEF IInv
<1>7. NoLeakedProbe'
    <2> SUFFICES ASSUME NEW q \in Keys, bo'[q].probing
                 PROVE  \E m \in Loops : flight'[m] \in OutPhases(m, q)
        BY DEF NoLeakedProbe, OutPhases
    <2>1. PICK m \in Loops : flight[m] \in OutPhases(m, q)  BY <1>3 DEF IInv, NoLeakedProbe
    <2>2. CASE m = l  BY <1>2, <2>1, <2>2 DEF IInv, BackoffTypeOK
    <2>3. CASE m # l  BY <1>2, <2>1, <2>3 DEF IInv, BackoffTypeOK
    <2> QED  BY <2>2, <2>3
<1>8. BreakerInv'  BY <1>3 DEF IInv, BreakerInv, ProbeSound
<1>9. BackoffTypeOK'  BY <1>2, <1>3, <1>6 DEF IInv, BackoffTypeOK
<1> QED  BY <1>6, <1>7, <1>8, <1>9 DEF IInv

\* A breaker that lets a flush through, and one whose probe is handed back
\* or that is closed, are sound.
LEMMA AnswerFacts ==
    ASSUME NEW b \in Breakers, ProbeSound(b)
    PROVE  /\ ~TurnsAway(b) => Allowed(b) \in Breakers /\ ProbeSound(Allowed(b))
           /\ Released(b) \in Breakers /\ ProbeSound(Released(b)) /\ ~Released(b).probing
           /\ Succeeded(b) \in Breakers /\ ProbeSound(Succeeded(b)) /\ ~Succeeded(b).probing
<1>1. ASSUME ~TurnsAway(b)  PROVE Allowed(b) \in Breakers /\ ProbeSound(Allowed(b))
    <2>1. CASE b.failures > 0
        <3>1. b.left = 0 /\ ~b.probing  BY <1>1, <2>1 DEF TurnsAway, Breakers
        <3>2. Allowed(b) = [b EXCEPT !.probing = TRUE]  BY <2>1 DEF Allowed, Breakers
        <3> QED  BY <2>1, <3>1, <3>2 DEF ProbeSound, Breakers
    <2>2. CASE b.failures = 0  BY <2>2 DEF Allowed
    <2> QED  BY <2>1, <2>2 DEF Breakers
<1>2. Released(b) \in Breakers /\ ProbeSound(Released(b)) /\ ~Released(b).probing
    BY DEF Released, ProbeSound, Breakers
<1>3. Succeeded(b) \in Breakers /\ ProbeSound(Succeeded(b)) /\ ~Succeeded(b).probing
    <2>1. CASE b.failures = 0  BY <2>1 DEF Succeeded, ProbeSound, Breakers
    <2>2. CASE b.failures # 0
        BY <2>2, BackoffAssumption DEF Succeeded, Closed, Breaker, ProbeSound, Breakers
    <2> QED  BY <2>1, <2>2
<1> QED  BY <1>1, <1>2, <1>3

\* What every leaf below starts from.
LEMMA FlushTypes ==
    ASSUME IInv, NEW l \in Loops, NEW k \in Keys
    PROVE  /\ bo[k] \in Breakers /\ ProbeSound(bo[k]) /\ Cap[l] \in Nat
           /\ Touch(bo[k], Cap[l]) \in Breakers /\ ProbeSound(Touch(bo[k], Cap[l]))
           /\ Touch(bo[k], Cap[l]).probing = bo[k].probing
           /\ Touch(bo[k], Cap[l]).failures = bo[k].failures
           /\ Cap[l] > 0 /\ bo[k].failures > 0 => Touch(bo[k], Cap[l]).left <= MaxOf(Cap[l], RetryBase)
           /\ RowsAt(l, "flushing") \in SUBSET Rows
           /\ \A r \in RowsAt(l, "flushing") : LoopOf[r] = l
<1>1. bo[k] \in Breakers /\ ProbeSound(bo[k]) /\ Cap[l] \in Nat
    BY KeyFacts DEF IInv, BackoffTypeOK, BreakerInv
<1>2. RowsAt(l, "flushing") \in SUBSET Rows /\ \A r \in RowsAt(l, "flushing") : LoopOf[r] = l
    BY DEF RowsAt
<1> QED  BY <1>1, <1>2, TouchFacts

\* A wait chosen by a breaker that turned the flush of l away.
LEMMA TurnedAwayWait ==
    ASSUME IInv, NEW l \in Loops, NEW k \in Keys, TurnsAway(Touch(bo[k], Cap[l])),
           NEW w \in Waits(Touch(bo[k], Cap[l]))
    PROVE  w \in Nat /\ (Cap[l] > 0 => w < MaxOf(Cap[l], RetryBase) + RetryBase)
<1>1. w \in Nat /\ \A c \in Nat : Touch(bo[k], Cap[l]).left <= MaxOf(c, RetryBase)
                                    => w < MaxOf(c, RetryBase) + RetryBase
    BY FlushTypes, WaitsFacts
<1> QED  BY <1>1, FlushTypes DEF TurnsAway

\* flushTable asking the table, then the pool (allow), keeps IInv.
LEMMA AskStep ==
    ASSUME IInv, NEW l \in Loops, AskTable(l) \/ AskPool(l)
    PROVE  IInv'
<1> USE DEF RowPhases, FlightPhases
<1>1. CASE AskTable(l)
    <2> DEFINE k == TableKey[l]
               b == Touch(bo[k], Cap[l])
    <2>1. k \in Keys /\ k # Pool  BY KeyFacts
    <2>2. b \in Breakers /\ ProbeSound(b) /\ b.probing = bo[k].probing  BY <2>1, FlushTypes
    <2>3. CASE ~TurnsAway(b)
        <3>1. /\ bo' = [bo EXCEPT ![k] = Allowed(b)] /\ flight' = [flight EXCEPT ![l] = "pool"]
              /\ probes' \in {probes \cup {<<l, k>>}, probes}
              /\ UNCHANGED <<row, wait, open, down>> /\ flight[l] = "table"
            BY <1>1, <2>3 DEF AskTable
        <3>2. Allowed(b) \in Breakers /\ ProbeSound(Allowed(b))  BY <2>2, <2>3, AnswerFacts
        <3>3. "pool" \in OutPhases(l, k) /\ \A q \in Keys \ {k} : "table" \notin OutPhases(l, q)
            BY <2>1 DEF OutPhases
        <3>4. WaitInv'
            <4>1. {} \in SUBSET Rows /\ "done" \in RowPhases  OBVIOUS
            <4>2. \E p \in FlightPhases \ {"refused"} : flight' = [flight EXCEPT ![l] = p]  BY <3>1
            <4> QED  BY <3>1, <4>1, <4>2, NoWaitStep DEF IInv
        <3>5. /\ wait' \in [Rows -> Nat] /\ row' \in [Rows -> RowPhases] /\ open' \in Int
              /\ probes' \subseteq Loops \X Keys
            BY <2>1, <3>1 DEF IInv, BackoffTypeOK
        <3>6. \A q \in Keys \ {k} : flight[l] \in OutPhases(l, q) => "pool" \in OutPhases(l, q)
            BY <3>1, <3>3
        <3> HIDE DEF k, b
        <3> QED  BY <2>1, <3>1, <3>2, <3>3, <3>4, <3>5, <3>6, FlushBreakerStep
    <2>4. CASE TurnsAway(b)
        <3>1. /\ bo' = [bo EXCEPT ![k] = b] /\ flight' = [flight EXCEPT ![l] = "idle"]
              /\ row' = Moved(RowsAt(l, "flushing"), "queued")
              /\ \E w \in Waits(b) : wait' = Delayed(RowsAt(l, "flushing"), w)
              /\ UNCHANGED <<probes, open, down>> /\ flight[l] = "table"
            BY <1>1, <2>4 DEF AskTable
        <3>2. PICK w \in Waits(b) : wait' = Delayed(RowsAt(l, "flushing"), w)  BY <3>1
        <3>3. w \in Nat /\ (Cap[l] > 0 => w < MaxOf(Cap[l], RetryBase) + RetryBase)
            BY <2>1, <2>4, TurnedAwayWait
        <3>4. \A q \in Keys : "table" \notin OutPhases(l, q)  BY DEF OutPhases
        <3>5. WaitInv' /\ wait' \in [Rows -> Nat] /\ row' \in [Rows -> RowPhases]
            <4>1. \E p \in FlightPhases : /\ flight' = [flight EXCEPT ![l] = p]
                                          /\ p = "refused" => RowsAt(l, "flushing") \subseteq RowsAt(l, "flushing")
                BY <3>1
            <4>2. RowsAt(l, "flushing") \in SUBSET Rows /\ \A r \in RowsAt(l, "flushing") : LoopOf[r] = l
                BY DEF RowsAt
            <4> QED  BY <3>1, <3>2, <3>3, <4>1, <4>2, WaitStep DEF IInv
        <3>6. open' \in Int /\ probes' \subseteq Loops \X Keys  BY <3>1 DEF IInv, BackoffTypeOK
        <3>7. \A q \in Keys \ {k} : flight[l] \in OutPhases(l, q) => "idle" \in OutPhases(l, q)
            BY <3>1, <3>4
        <3>8. b.probing => \/ "idle" \in OutPhases(l, k)
                           \/ bo[k].probing /\ flight[l] \notin OutPhases(l, k)
            BY <2>1, <2>2, <3>1, <3>4
        <3> HIDE DEF k, b
        <3> QED  BY <2>1, <2>2, <3>1, <3>5, <3>6, <3>7, <3>8, FlushBreakerStep
    <2> QED  BY <2>3, <2>4
<1>2. CASE AskPool(l)
    <2> DEFINE b == Touch(bo[Pool], Cap[l])
    <2>1. Pool \in Keys  BY KeyFacts
    <2>2. b \in Breakers /\ ProbeSound(b) /\ b.probing = bo[Pool].probing  BY <2>1, FlushTypes
    <2>3. CASE ~TurnsAway(b)
        <3>1. /\ bo' = [bo EXCEPT ![Pool] = Allowed(b)] /\ flight' = [flight EXCEPT ![l] = "insert"]
              /\ probes' \in {probes \cup {<<l, Pool>>}, probes}
              /\ UNCHANGED <<row, wait, open, down>> /\ flight[l] = "pool"
            BY <1>2, <2>3 DEF AskPool
        <3>2. Allowed(b) \in Breakers /\ ProbeSound(Allowed(b))  BY <2>2, <2>3, AnswerFacts
        <3>3. /\ "insert" \in OutPhases(l, Pool)
              /\ \A q \in Keys \ {Pool} : flight[l] \in OutPhases(l, q) => "insert" \in OutPhases(l, q)
            BY <3>1 DEF OutPhases
        <3>4. WaitInv'
            <4>1. {} \in SUBSET Rows /\ "done" \in RowPhases  OBVIOUS
            <4>2. \E p \in FlightPhases \ {"refused"} : flight' = [flight EXCEPT ![l] = p]  BY <3>1
            <4> QED  BY <3>1, <4>1, <4>2, NoWaitStep DEF IInv
        <3>5. /\ wait' \in [Rows -> Nat] /\ row' \in [Rows -> RowPhases] /\ open' \in Int
              /\ probes' \subseteq Loops \X Keys
            BY <2>1, <3>1 DEF IInv, BackoffTypeOK
        <3> HIDE DEF b
        <3> QED  BY <2>1, <3>1, <3>2, <3>3, <3>4, <3>5, FlushBreakerStep
    <2>4. CASE TurnsAway(b)
        <3>1. /\ bo' = [bo EXCEPT ![Pool] = b] /\ flight' = [flight EXCEPT ![l] = "refused"]
              /\ \E w \in Waits(b) : wait' = Delayed(RowsAt(l, "flushing"), w)
              /\ UNCHANGED <<row, probes, open, down>> /\ flight[l] = "pool"
            BY <1>2, <2>4 DEF AskPool
        <3>2. PICK w \in Waits(b) : wait' = Delayed(RowsAt(l, "flushing"), w)  BY <3>1
        <3>3. w \in Nat /\ (Cap[l] > 0 => w < MaxOf(Cap[l], RetryBase) + RetryBase)
            BY <2>1, <2>4, TurnedAwayWait
        <3>5. WaitInv' /\ wait' \in [Rows -> Nat] /\ row' \in [Rows -> RowPhases]
            <4>1. \E p \in FlightPhases : /\ flight' = [flight EXCEPT ![l] = p]
                                          /\ p = "refused" => RowsAt(l, "flushing") \subseteq RowsAt(l, "flushing")
                BY <3>1
            <4>2. RowsAt(l, "flushing") \in SUBSET Rows /\ \A r \in RowsAt(l, "flushing") : LoopOf[r] = l
                BY DEF RowsAt
            <4>3. "queued" \in RowPhases  OBVIOUS
            <4> QED  BY <3>1, <3>2, <3>3, <4>1, <4>2, <4>3, WaitStep DEF IInv
        <3>6. open' \in Int /\ probes' \subseteq Loops \X Keys  BY <3>1 DEF IInv, BackoffTypeOK
        <3>7. /\ \A q \in Keys \ {Pool} : flight[l] \in OutPhases(l, q) => "refused" \in OutPhases(l, q)
              /\ flight[l] \notin OutPhases(l, Pool)
            BY <3>1 DEF OutPhases
        <3> HIDE DEF b
        <3> QED  BY <2>1, <2>2, <3>1, <3>5, <3>6, <3>7, FlushBreakerStep
    <2> QED  BY <2>3, <2>4
<1> QED  BY <1>1, <1>2

\* The flush hands the table's probe back.
LEMMA ReleaseStep ==
    ASSUME IInv, NEW l \in Loops, Refused(l) \/ ReleaseTable(l)
    PROVE  IInv'
<1> USE DEF RowPhases, FlightPhases
<1> DEFINE k == TableKey[l]
           b == Released(bo[k])
<1>1. k \in Keys /\ k # Pool  BY KeyFacts
<1>2. b \in Breakers /\ ProbeSound(b) /\ ~b.probing  BY <1>1, FlushTypes, AnswerFacts
<1>3. \E p \in FlightPhases \ {"refused"} :
        /\ flight' = [flight EXCEPT ![l] = p]
        /\ \A q \in Keys \ {k} : flight[l] \in OutPhases(l, q) => p \in OutPhases(l, q)
    BY <1>1 DEF Refused, ReleaseTable, OutPhases
<1>4. PICK p \in FlightPhases \ {"refused"} :
        /\ flight' = [flight EXCEPT ![l] = p]
        /\ \A q \in Keys \ {k} : flight[l] \in OutPhases(l, q) => p \in OutPhases(l, q)
    BY <1>3
<1>5. /\ bo' = [bo EXCEPT ![k] = b] /\ probes' = probes \ {<<l, k>>}
      /\ UNCHANGED <<open, wait, down>>
    BY DEF Refused, ReleaseTable
<1>6. WaitInv' /\ row' \in [Rows -> RowPhases]
    <2> DEFINE rs == RowsAt(l, "flushing")
    <2>1. rs \in SUBSET Rows  BY DEF RowsAt
    <2>2. CASE Refused(l)
        <3>1. flight[l] = "refused" /\ row' = Moved(rs, "queued")  BY <2>2 DEF Refused
        <3> HIDE DEF rs
        <3> QED  BY <1>4, <1>5, <2>1, <3>1, NoWaitStep DEF IInv, rs
    <2>3. CASE ReleaseTable(l)
        <3>1. row' = row /\ "done" \in RowPhases  BY <2>3 DEF ReleaseTable
        <3> QED  BY <1>4, <1>5, <2>1, <3>1, NoWaitStep DEF IInv
    <2> QED  BY <2>2, <2>3
<1>7. wait' \in [Rows -> Nat] /\ open' \in Int /\ probes' \subseteq Loops \X Keys /\ down' = down
    BY <1>5 DEF IInv, BackoffTypeOK
<1>8. p \in FlightPhases  OBVIOUS
<1>9. b.probing => \/ p \in OutPhases(l, k)
                   \/ bo[k].probing /\ flight[l] \notin OutPhases(l, k)
    BY <1>2
<1> HIDE DEF k, b, FlightPhases, RowPhases
<1> QED  BY <1>1, <1>2, <1>4, <1>5, <1>6, <1>7, <1>8, <1>9, FlushBreakerStep

\* The flush closes the pool's breaker, then the table's.
LEMMA CloseStep ==
    ASSUME IInv, NEW l \in Loops, ClosePool(l) \/ CloseTable(l)
    PROVE  IInv'
<1> USE DEF RowPhases, FlightPhases
<1>1. PICK k \in {Pool, TableKey[l]}, p \in FlightPhases \ {"refused"} :
        /\ bo' = [bo EXCEPT ![k] = Succeeded(bo[k])]
        /\ flight' = [flight EXCEPT ![l] = p]
        /\ open' = open - SucceedCount(bo[k])
        /\ probes' = probes \ {<<l, k>>}
        /\ \A q \in Keys \ {k} : flight[l] \in OutPhases(l, q) => p \in OutPhases(l, q)
    <2>1. CASE ClosePool(l)
        <3>1. CASE flight[l] = "closePool"
            <4>1. flight' = [flight EXCEPT ![l] = "closeTable"]  BY <2>1, <3>1 DEF ClosePool, IInv, BackoffTypeOK
            <4>2. \A q \in Keys \ {Pool} : flight[l] \in OutPhases(l, q) => "closeTable" \in OutPhases(l, q)
                BY <3>1 DEF OutPhases
            <4> QED  BY <2>1, <4>1, <4>2 DEF ClosePool
        <3>2. CASE flight[l] = "poolUp"
            <4>1. flight' = [flight EXCEPT ![l] = "failTable"]  BY <2>1, <3>2 DEF ClosePool, IInv, BackoffTypeOK
            <4>2. \A q \in Keys \ {Pool} : flight[l] \in OutPhases(l, q) => "failTable" \in OutPhases(l, q)
                BY <3>2 DEF OutPhases
            <4> QED  BY <2>1, <4>1, <4>2 DEF ClosePool
        <3> QED  BY <2>1, <3>1, <3>2 DEF ClosePool
    <2>2. CASE CloseTable(l)
        <3>1. \A q \in Keys \ {TableKey[l]} : flight[l] \in OutPhases(l, q) => "idle" \in OutPhases(l, q)
            BY <2>2 DEF CloseTable, OutPhases
        <3> QED  BY <2>2, <3>1 DEF CloseTable
    <2> QED  BY <2>1, <2>2
<1>2. k \in Keys  BY KeyFacts
<1> DEFINE b == Succeeded(bo[k])
<1>3. b \in Breakers /\ ProbeSound(b) /\ ~b.probing  BY <1>2, FlushTypes, AnswerFacts
<1>4. UNCHANGED <<row, wait, down>>  BY DEF ClosePool, CloseTable
<1>5. WaitInv' /\ row' \in [Rows -> RowPhases]
    <2>1. {} \in SUBSET Rows /\ "done" \in RowPhases  OBVIOUS
    <2> QED  BY <1>1, <1>4, <2>1, NoWaitStep DEF IInv
<1>6. wait' \in [Rows -> Nat] /\ open' \in Int /\ probes' \subseteq Loops \X Keys
    BY <1>1, <1>4 DEF IInv, BackoffTypeOK, SucceedCount
<1>7. p \in FlightPhases /\ bo' = [bo EXCEPT ![k] = b] /\ down' = down  BY <1>1, <1>4
<1>8. b.probing => \/ p \in OutPhases(l, k)
                   \/ bo[k].probing /\ flight[l] \notin OutPhases(l, k)
    BY <1>3
<1> HIDE DEF b, FlightPhases, RowPhases
<1> QED  BY <1>1, <1>2, <1>3, <1>5, <1>6, <1>7, <1>8, FlushBreakerStep

\* The flush reports a failure to the breaker it was of.
LEMMA FailStep ==
    ASSUME IInv, NEW l \in Loops, FailTable(l) \/ FailPool(l)
    PROVE  IInv'
<1> USE DEF RowPhases, FlightPhases
<1>1. PICK k \in {Pool, TableKey[l]} :
        /\ Report(l, k)
        /\ \A q \in Keys \ {k} : flight[l] \in OutPhases(l, q) => "idle" \in OutPhases(l, q)
    BY DEF FailTable, FailPool, OutPhases
<1>2. k \in Keys  BY KeyFacts
<1>a. PICK b \in Failed(bo[k], Cap[l]) :
        /\ bo' = [bo EXCEPT ![k] = b]
        /\ \E w \in FailWaits(bo[k], b) : wait' = Delayed(RowsAt(l, "flushing"), w)
    BY <1>1 DEF Report
<1>3. PICK w \in FailWaits(bo[k], b) : wait' = Delayed(RowsAt(l, "flushing"), w)
    BY <1>a
<1>4. /\ b \in Breakers /\ ~b.probing /\ w \in Nat
      /\ Cap[l] > 0 => w < MaxOf(Cap[l], RetryBase) + RetryBase
    BY <1>2, FlushTypes, FailedFacts
<1>5. ProbeSound(b)  BY <1>4 DEF ProbeSound
<1>6. /\ flight' = [flight EXCEPT ![l] = "idle"] /\ row' = Moved(RowsAt(l, "flushing"), "queued")
      /\ probes' = probes \ {<<l, k>>} /\ down' = down /\ open' \in {open + 1, open}
    BY <1>1 DEF Report
<1>7. WaitInv' /\ wait' \in [Rows -> Nat] /\ row' \in [Rows -> RowPhases]
    <2>1. \E p \in FlightPhases : /\ flight' = [flight EXCEPT ![l] = p]
                                  /\ p = "refused" => RowsAt(l, "flushing") \subseteq RowsAt(l, "flushing")
        BY <1>6
    <2>2. RowsAt(l, "flushing") \in SUBSET Rows /\ \A r \in RowsAt(l, "flushing") : LoopOf[r] = l
        BY DEF RowsAt
    <2> QED  BY <1>3, <1>4, <1>6, <2>1, <2>2, WaitStep DEF IInv
<1>8. open' \in Int /\ probes' \subseteq Loops \X Keys  BY <1>6 DEF IInv, BackoffTypeOK
<1> QED  BY <1>1, <1>2, <1>a, <1>4, <1>5, <1>6, <1>7, <1>8, FlushBreakerStep

-----------------------------------------------------------------------------
(* The theorems.                                                           *)

\* The inductive invariant holds at first, ...
LEMMA InitInv == BackoffInit => IInv
<1> SUFFICES ASSUME BackoffInit  PROVE IInv
    OBVIOUS
<1>1. BackoffTypeOK
    BY BackoffAssumption DEF BackoffInit, BackoffTypeOK, Closed, Breaker, Breakers, FlightPhases, RowPhases
<1>2. \A k \in Keys : ~bo[k].probing  BY DEF BackoffInit, Closed, Breaker
<1>3. WaitInv  BY DEF BackoffInit, WaitInv, WaitBound
<1> QED  BY <1>1, <1>2, <1>3 DEF IInv, BreakerInv, ProbeSound, NoLeakedProbe

\* ... and every step of the workers and of ClickHouse keeps it.
LEMMA NextInv == IInv /\ [BackoffNext]_backoffVars => IInv'
<1> SUFFICES ASSUME IInv, [BackoffNext]_backoffVars  PROVE IInv'
    OBVIOUS
<1>1. CASE \E r \in Rows : Publish(r)  BY <1>1, EnvironmentStep
<1>2. CASE \E r \in Rows : RowArrives(r) \/ RowAsksTable(r)  BY <1>2, ArrivalStep
<1>3. CASE \E k \in Keys : Break(k) \/ Repair(k)  BY <1>3, EnvironmentStep
<1>4. CASE \E l \in Loops : FlightStep(l)
    BY <1>4, InsertStep, AskStep, ReleaseStep, CloseStep, FailStep DEF FlightStep
<1>5. CASE Tick  BY <1>5, TickStep
<1>6. CASE UNCHANGED backoffVars
    BY <1>6 DEF backoffVars, IInv, BackoffTypeOK, BreakerInv, ProbeSound, NoLeakedProbe, OutPhases, WaitInv, WaitBound
<1> QED  BY <1>1, <1>2, <1>3, <1>4, <1>5, <1>6 DEF BackoffNext

\* The inductive invariant holds in every reachable state.
THEOREM Invariance == BackoffSpec => []IInv
BY InitInv, NextInv, PTL DEF BackoffSpec

\* However flushes, late reports and arriving rows of any number of tenants
\* interleave on backoff.allow, release, fail and succeed, a breaker that
\* says a probe is out has a flush out that clears it.
THEOREM ProbeReturned == BackoffSpec => []NoLeakedProbe
<1>1. IInv => NoLeakedProbe  BY DEF IInv
<1> QED  BY <1>1, Invariance, PTL

\* No row handed back (NakWithDelay) stays away longer than its own
\* tenant's retry_backoff_max and one jitter, whoever opened the window.
THEOREM CapRespected == BackoffSpec => []WaitWithinCap
<1>1. IInv => WaitWithinCap  BY DEF IInv, WaitInv, WaitBound, WaitWithinCap
<1> QED  BY <1>1, Invariance, PTL

-----------------------------------------------------------------------------
(* The count of the open breakers.                                         *)

\* The breakers with a failure not followed by a success.  There may be any
\* number of keys; what keeps the count meaningful is that a step opens or
\* closes at most one.
OpenKeys == {k \in Keys : bo[k].failures > 0}

CountInv == IsFiniteSet(OpenKeys) /\ OpenCounted

\* By how much a step that leaves b for the breaker k moves the count.
Moves(k, b) ==
    IF bo[k].failures = 0 THEN IF b.failures > 0 THEN 1 ELSE 0
    ELSE IF b.failures > 0 THEN 0 ELSE -1

\* One breaker changes and open moves by what Moves says: open still counts the
\* open breakers.
LEMMA CountStep ==
    ASSUME IInv, CountInv, NEW k \in Keys, NEW b \in Breakers, bo' = [bo EXCEPT ![k] = b],
           open' = open + Moves(k, b)
    PROVE  CountInv'
<1>1. bo \in [Keys -> Breakers] /\ \A q \in Keys : bo[q].failures \in Nat /\ b.failures \in Nat
    BY DEF IInv, BackoffTypeOK, Breakers
<1>2. \A q \in Keys : bo'[q] = IF q = k THEN b ELSE bo[q]  BY <1>1
<1>3. IsFiniteSet(OpenKeys) /\ open = Cardinality(OpenKeys) /\ open \in Int
    BY DEF CountInv, OpenCounted, OpenKeys, IInv, BackoffTypeOK
<1>4. CASE b.failures > 0
    <2>1. OpenKeys' = OpenKeys \cup {k}  BY <1>2, <1>4 DEF OpenKeys
    <2>2. k \in OpenKeys <=> bo[k].failures > 0  BY DEF OpenKeys
    <2>3. /\ IsFiniteSet(OpenKeys \cup {k})
          /\ Cardinality(OpenKeys \cup {k}) = IF k \in OpenKeys THEN Cardinality(OpenKeys)
                                              ELSE Cardinality(OpenKeys) + 1
        BY <1>3, FS_AddElement
    <2>4. open' = Cardinality(OpenKeys \cup {k})
        BY <1>1, <1>3, <1>4, <2>2, <2>3 DEF Moves
    <2> QED  BY <2>1, <2>3, <2>4 DEF CountInv, OpenCounted, OpenKeys
<1>5. CASE ~(b.failures > 0)
    <2>1. OpenKeys' = OpenKeys \ {k}  BY <1>2, <1>5 DEF OpenKeys
    <2>2. k \in OpenKeys <=> bo[k].failures > 0  BY DEF OpenKeys
    <2>3. /\ IsFiniteSet(OpenKeys \ {k})
          /\ Cardinality(OpenKeys \ {k}) = IF k \in OpenKeys THEN Cardinality(OpenKeys) - 1
                                           ELSE Cardinality(OpenKeys)
        BY <1>3, FS_RemoveElement
    <2>4. open' = Cardinality(OpenKeys \ {k})
        BY <1>1, <1>3, <1>5, <2>2, <2>3 DEF Moves
    <2> QED  BY <2>1, <2>3, <2>4 DEF CountInv, OpenCounted, OpenKeys
<1> QED  BY <1>4, <1>5

\* A step that opens and closes none.
LEMMA CountStays ==
    ASSUME IInv, CountInv, \A k \in Keys : bo'[k].failures = bo[k].failures, open' = open
    PROVE  CountInv'
<1>1. OpenKeys' = OpenKeys  BY DEF OpenKeys
<1> QED  BY <1>1 DEF CountInv, OpenCounted, OpenKeys

\* What fail leaves is open.
LEMMA FailedOpens ==
    ASSUME NEW b \in Breakers, NEW cap \in Nat, NEW c \in Failed(b, cap)
    PROVE  c.failures > 0
<1>1. CASE Running(b)
    <2>1. c = Adopt(b, cap)  BY <1>1 DEF Failed
    <2> QED  BY <1>1, <2>1, AdoptFacts DEF Running
<1>2. CASE ~Running(b)
    <2> DEFINE n == MinOf(b.failures + 1, MaxFailures)
               o == Breaker(n, b.left, FALSE, 0)
               a == Adopt(o, cap)
               half == Delay(a.failures, a.ceiling) \div 2
    <2>1. n \in 1..MaxFailures  BY BackoffAssumption DEF Breakers, MinOf
    <2>2. o \in Breakers /\ o.failures = n  BY <2>1 DEF Breaker, Breakers
    <2>3. a \in Breakers /\ a.failures = n  BY <2>2, AdoptFacts
    <2>4. PICK j \in Spread(half) : c = [a EXCEPT !.left = half + j]
        BY <1>2 DEF Failed
    <2> HIDE DEF a, o, n, half
    <2>5. c.failures = n  BY <2>3, <2>4 DEF Breakers
    <2> QED  BY <2>1, <2>5
<1> QED  BY <1>1, <1>2

\* allow, waiting and release neither open nor close.
LEMMA CountQuiet ==
    ASSUME IInv, CountInv, NEW k \in Keys, NEW cap \in Nat, open' = open,
           \/ bo' = [bo EXCEPT ![k] = Touch(bo[k], cap)]
           \/ bo' = [bo EXCEPT ![k] = Allowed(Touch(bo[k], cap))]
           \/ bo' = [bo EXCEPT ![k] = Released(bo[k])]
    PROVE  CountInv'
<1>1. bo \in [Keys -> Breakers] /\ bo[k] \in Breakers /\ ProbeSound(bo[k])
    BY DEF IInv, BackoffTypeOK, BreakerInv
<1>2. Touch(bo[k], cap) \in Breakers /\ Touch(bo[k], cap).failures = bo[k].failures
    BY <1>1, TouchFacts
<1>3. /\ Allowed(Touch(bo[k], cap)).failures = bo[k].failures
      /\ Released(bo[k]).failures = bo[k].failures
    BY <1>1, <1>2 DEF Allowed, Released, Breakers
<1>4. \A q \in Keys : bo'[q].failures = bo[q].failures  BY <1>1, <1>2, <1>3
<1> QED  BY <1>4, CountStays

\* succeed counts out the breaker it closes.
LEMMA CountCloses ==
    ASSUME IInv, CountInv, NEW k \in Keys, bo' = [bo EXCEPT ![k] = Succeeded(bo[k])],
           open' = open - SucceedCount(bo[k])
    PROVE  CountInv'
<1>1. bo[k] \in Breakers /\ bo[k].failures \in Nat /\ open \in Int  BY DEF IInv, BackoffTypeOK, Breakers
<1>2. Succeeded(bo[k]) \in Breakers /\ Succeeded(bo[k]).failures = 0
    BY <1>1, BackoffAssumption DEF Succeeded, Closed, Breaker, Breakers
<1>3. open' = open + Moves(k, Succeeded(bo[k]))  BY <1>1, <1>2 DEF Moves, SucceedCount
<1> QED  BY <1>2, <1>3, CountStep

\* fail counts in the breaker it opens.
LEMMA CountOpens ==
    ASSUME IInv, CountInv, NEW l \in Loops, NEW k \in Keys, Report(l, k)
    PROVE  CountInv'
<1>1. /\ bo[k] \in Breakers /\ ProbeSound(bo[k]) /\ Cap[l] \in Nat
      /\ bo[k].failures \in Nat /\ open \in Int
    BY KeyFacts DEF IInv, BackoffTypeOK, BreakerInv, Breakers
<1>2. PICK b \in Failed(bo[k], Cap[l]) : bo' = [bo EXCEPT ![k] = b]  BY DEF Report
<1>3. b \in Breakers /\ b.failures > 0  BY <1>1, <1>2, FailedFacts, FailedOpens
<1>4. open' = open + Moves(k, b)  BY <1>1, <1>3 DEF Report, Moves
<1> QED  BY <1>2, <1>3, <1>4, CountStep

\* No breaker is open at the start, and open is 0.
LEMMA CountInit == BackoffInit => CountInv
<1> SUFFICES ASSUME BackoffInit PROVE CountInv  OBVIOUS
<1>1. OpenKeys = {} /\ open = 0  BY DEF BackoffInit, OpenKeys, Closed, Breaker
<1> QED  BY <1>1, FS_EmptySet DEF CountInv, OpenCounted, OpenKeys

\* Every step of the flushes, the rows, the reloads and the clock keeps the count.
LEMMA CountNext == IInv /\ CountInv /\ [BackoffNext]_backoffVars => CountInv'
<1> SUFFICES ASSUME IInv, CountInv, [BackoffNext]_backoffVars PROVE CountInv'  OBVIOUS
<1>1. ASSUME UNCHANGED <<bo, open>>  PROVE CountInv'  BY <1>1, CountStays
<1>2. ASSUME NEW r \in Rows, RowArrives(r) \/ RowAsksTable(r)  PROVE CountInv'
    <2>1. LoopOf[r] \in Loops /\ Cap[LoopOf[r]] \in Nat /\ TableKey[LoopOf[r]] \in Keys /\ Pool \in Keys
        BY KeyFacts
    <2>2. \/ UNCHANGED <<bo, open>>
          \/ /\ open' = open
             /\ bo' = [bo EXCEPT ![Pool] = Touch(bo[Pool], Cap[LoopOf[r]])]
          \/ /\ open' = open
             /\ bo' = [bo EXCEPT ![TableKey[LoopOf[r]]] =
                                  Touch(bo[TableKey[LoopOf[r]]], Cap[LoopOf[r]])]
        BY <1>2 DEF RowArrives, RowAsksTable
    <2> QED  BY <1>1, <2>1, <2>2, CountQuiet
<1>3. ASSUME NEW l \in Loops, FlightStep(l)  PROVE CountInv'
    <2>1. TableKey[l] \in Keys /\ Pool \in Keys /\ Cap[l] \in Nat  BY KeyFacts
    <2>2. CASE StartFlush(l) \/ InsertSettles(l) \/ InsertTableFails(l) \/ InsertPoolFails(l)
        BY <1>1, <2>2 DEF StartFlush, InsertSettles, InsertTableFails, InsertPoolFails
    <2>3. CASE AskTable(l) \/ AskPool(l) \/ Refused(l) \/ ReleaseTable(l)
        <3>1. \E k \in Keys :
                /\ open' = open
                /\ \/ bo' = [bo EXCEPT ![k] = Touch(bo[k], Cap[l])]
                   \/ bo' = [bo EXCEPT ![k] = Allowed(Touch(bo[k], Cap[l]))]
                   \/ bo' = [bo EXCEPT ![k] = Released(bo[k])]
            BY <2>1, <2>3 DEF AskTable, AskPool, Refused, ReleaseTable
        <3> QED  BY <2>1, <3>1, CountQuiet
    <2>4. CASE ClosePool(l) \/ CloseTable(l)
        BY <2>1, <2>4, CountCloses DEF ClosePool, CloseTable
    <2>5. CASE FailTable(l) \/ FailPool(l)
        BY <2>1, <2>5, CountOpens DEF FailTable, FailPool
    <2> QED  BY <1>3, <2>2, <2>3, <2>4, <2>5 DEF FlightStep
<1>4. CASE Tick
    <2>1. \A k \in Keys : bo'[k].failures = bo[k].failures
        BY <1>4 DEF Tick, IInv, BackoffTypeOK, Breakers
    <2> QED  BY <1>4, <2>1, CountStays DEF Tick
<1>5. CASE \/ \E r \in Rows : Publish(r)
           \/ \E k \in Keys : Break(k) \/ Repair(k)
           \/ UNCHANGED backoffVars
    BY <1>1, <1>5 DEF Publish, Break, Repair, backoffVars
<1> QED  BY <1>2, <1>3, <1>4, <1>5 DEF BackoffNext

\* backoffs.open is the number of open breakers, however late flushes report
\* to breakers others have opened or closed since (fail, succeed).
THEOREM OpenIsCounted == BackoffSpec => []OpenCounted
<1>1. CountInv => OpenCounted  BY DEF CountInv
<1> QED  BY <1>1, CountInit, CountNext, Invariance, PTL DEF BackoffSpec
=============================================================================
