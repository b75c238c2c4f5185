----------------------------- MODULE ShardClaims -----------------------------
(***************************************************************************)
(* Which ingest process consumes which shard (internal/ingest/claims.go,   *)
(* assign.go), over the pinned shard durables of an external queue         *)
(* (internal/mq/external_consumer.go, ResetOrphaned of external.go).       *)
(*                                                                         *)
(* Every process holds one membership slot, a lease (module Lease), reads  *)
(* which slots are live, and works out the same owner for every unit from  *)
(* them.  A unit it is no longer assigned is halted, drained and unpinned; *)
(* a unit whose owner died is reset before it is pulled.  Two processes    *)
(* that see different members may both pull a unit: the broker delivers to *)
(* the one that has its pin.                                               *)
(*                                                                         *)
(* A tick is split where another process can get in: joining, reading the  *)
(* members and giving units up, each unit taken, and, for an orphan, the   *)
(* request that reads whether it is held and the one that resets it, which *)
(* lands whenever the broker gets it.  Rows of a unit are numbered in the  *)
(* order the stream stored them.                                           *)
(***************************************************************************)
EXTENDS Integers, FiniteSets

CONSTANTS
    Procs,       \* ingest processes
    Nobody,      \* none of them
    Configured,  \* the configured units
    Extras,      \* units outside them, still draining
    Score,       \* unit -> slot -> its rendezvous score
    MaxMembers,  \* maxMembers
    Rows,        \* rows stored, numbers
    UnitOf,      \* row -> its unit
    OrphanTicks, \* orphanWait, in ticks
    MaxFaults    \* bound: crashes, stops, lost leases, leader moves, naks, slow rows, requests unanswered

Units == Configured \cup Extras

\* One slot for each configured unit, at most maxMembers.
Slots == 1..(IF Cardinality(Configured) < MaxMembers THEN Cardinality(Configured) ELSE MaxMembers)

ASSUME ClaimsAssumption ==
    /\ Nobody \notin Procs
    /\ Configured \cap Extras = {} /\ Configured # {} /\ IsFiniteSet(Units)
    /\ Score \in [Units -> [Slots -> Nat]]
    /\ \A u, v \in Units : \A s, t \in Slots : Score[u][s] = Score[v][t] => u = v /\ s = t
    /\ Rows \subseteq Nat /\ UnitOf \in [Rows -> Units]
    /\ OrphanTicks \in Nat /\ MaxFaults \in Nat /\ MaxMembers \in Nat \ {0}

VARIABLES
    entry,  \* slot -> its lease: "free", "live", or "stale" once its holder is gone
    fresh,  \* slot -> the processes whose own clock has not yet run a stale lease out
    proc,   \* process -> its claimLoop
    pin,    \* unit -> the process the broker delivers it to
    active, \* unit -> it delivered, or had an ack, within its pinned_ttl
    status, \* row -> "ready", "out" (delivered, unacked) or "acked"
    hand,   \* process -> rows it was delivered and has not settled
    resets, \* <<process, unit>>: its reset of the unit is on its way to the broker
    overdue,\* history: rows a process has had for mq.ack_wait
    moved,  \* history: units whose pin the broker dropped by itself
    raced,  \* history: rows delivered while a reset of their unit was on its way
    faults  \* faults so far

broker == <<pin, active, status, resets, overdue, moved, raced>>
vars == <<entry, fresh, proc, broker, hand, faults>>

-----------------------------------------------------------------------------
(* assign.go                                                               *)

Best(u, slots) == CHOOSE s \in slots : \A t \in slots : Score[u][s] >= Score[u][t]

AssignUnitsBug(units, slots) ==
    [u \in IF slots = {} THEN {} ELSE units |-> Best(u, slots)]

\* The most units a slot may be given: an even share, rounded up.
Cap(units, slots) == (Cardinality(units) + Cardinality(slots) - 1) \div Cardinality(slots)

\* The units are taken best score first.
Before(v, u, slots) == Score[v][Best(v, slots)] > Score[u][Best(u, slots)]

\* The slots still under the cap when a unit's turn comes.
Room(given, u, units, slots) ==
    {s \in slots : Cardinality({v \in units : Before(v, u, slots) /\ given[v] = s}) < Cap(units, slots)}

\* assignUnits: each unit goes to its highest-ranked slot still under the cap.
AssignUnits(units, slots) ==
    IF slots = {} THEN <<>>
    ELSE CHOOSE given \in [units -> slots] : \A u \in units : given[u] = Best(u, Room(given, u, units, slots))

\* Each unit's owner, for every set of live slots: the extras apart, so that
\* processes whose lists of them differ agree on the configured ones.
Owner == [live \in SUBSET Slots |->
            LET own == AssignUnits(Configured, live)
                extra == AssignUnits(Extras, live)
            IN [u \in DOMAIN own \cup DOMAIN extra |-> IF u \in DOMAIN own THEN own[u] ELSE extra[u]]]

-----------------------------------------------------------------------------
\* loop: where the process is; between ticks it is "idle".  slot, lost: the
\* membership term, and whether it ended under the process.  prev: the live
\* slots of the previous tick, Never before the first.  owned, draining,
\* unpinning: the claims held, given up, and about to be released.
\* asking: the unit whose reset the tick waits for, if any.
\* orphaned: ticks a taken-over unit has waited for its reset, 0 for none.
\* ticked: history, the slot its units were last worked out for.
Never == {0}
Fresh == [loop |-> "idle", slot |-> 0, lost |-> FALSE, live |-> {}, prev |-> Never, ticked |-> 0,
          todo |-> {}, asking |-> {}, owned |-> {}, draining |-> {}, unpinning |-> {}, orphaned |-> [u \in Units |-> 0]]
Loops == {"idle", "reading", "taking", "halted", "releasing", "stopped", "down"}

Up(p) == proc[p].loop \notin {"stopped", "down"}
Ticking(p) == proc[p].loop \in {"idle", "reading", "taking"}
Set(p, c) == proc' = [proc EXCEPT ![p] = c]
RowsOf(u) == {r \in Rows : UnitOf[r] = u}
Fault == faults < MaxFaults /\ faults' = faults + 1

Init ==
    /\ entry = [j \in Slots |-> "free"] /\ fresh = [j \in Slots |-> {}]
    /\ proc = [p \in Procs |-> [Fresh EXCEPT !.loop = "down"]]
    /\ pin = [u \in Units |-> Nobody] /\ active = [u \in Units |-> FALSE]
    /\ status = [r \in Rows |-> "ready"]
    /\ resets = {} /\ overdue = {} /\ moved = {} /\ raced = {}
    /\ hand = [p \in Procs |-> {}]
    /\ faults = 0

-----------------------------------------------------------------------------
(* Membership.                                                             *)

\* Held: the lease is live, or went quiet too recently on p's own clock.
Held(p, j) == entry[j] = "live" \/ (entry[j] = "stale" /\ p \in fresh[j])

\* A process's clock runs a quiet lease out.
Expire(p, j) ==
    /\ entry[j] = "stale" /\ p \in fresh[j]
    /\ fresh' = [fresh EXCEPT ![j] = @ \ {p}]
    /\ UNCHANGED <<entry, proc, broker, hand, faults>>

\* The membership term ends under p: not renewed in time.
LoseMember(p) ==
    /\ Up(p) /\ proc[p].slot # 0 /\ ~proc[p].lost
    /\ Fault
    /\ Set(p, [proc[p] EXCEPT !.lost = TRUE])
    /\ entry' = [entry EXCEPT ![proc[p].slot] = "stale"]
    /\ fresh' = [fresh EXCEPT ![proc[p].slot] = Procs \ {p}]
    /\ UNCHANGED <<broker, hand>>

\* What readMembers finds live, and the slots joinMembers may still take.
LiveSlots(p) == {j \in Slots : Held(p, j)}
OpenSlots(p) == Slots \ LiveSlots(p)

\* A tick begins: reap drops a lost term, joinMembers takes the lowest free
\* slot, or none if every slot is held.
Join(p) ==
    LET c == proc[p]
        open == OpenSlots(p)
        j == CHOOSE k \in open : \A l \in open : k <= l
    IN /\ c.loop = "idle"
       /\ \/ /\ c.slot # 0 /\ ~c.lost
             /\ Set(p, [c EXCEPT !.loop = "reading"])
             /\ UNCHANGED <<entry, fresh>>
          \/ /\ c.slot = 0 \/ c.lost
             /\ open # {}
             /\ Set(p, [c EXCEPT !.loop = "reading", !.slot = j, !.lost = FALSE])
             /\ entry' = [entry EXCEPT ![j] = "live"] /\ fresh' = [fresh EXCEPT ![j] = {}]
          \/ /\ c.slot = 0 \/ c.lost
             /\ open = {}
             /\ Set(p, [c EXCEPT !.loop = "reading", !.slot = 0, !.lost = FALSE])
             /\ UNCHANGED <<entry, fresh>>
       /\ UNCHANGED <<broker, hand, faults>>

\* A campaign the server did not answer: the process is a member of none this
\* tick, and if its write was stored, the others wait that lease out.
JoinFails(p) ==
    LET c == proc[p]
        open == OpenSlots(p)
        j == CHOOSE k \in open : \A l \in open : k <= l
    IN /\ c.loop = "idle"
       /\ c.slot = 0 \/ c.lost
       /\ Fault
       /\ Set(p, [c EXCEPT !.loop = "reading", !.slot = 0, !.lost = FALSE])
       /\ \/ UNCHANGED <<entry, fresh>>
          \/ /\ open # {}
             /\ entry' = [entry EXCEPT ![j] = "stale"] /\ fresh' = [fresh EXCEPT ![j] = Procs \ {p}]
       /\ UNCHANGED <<broker, hand>>

\* What a process that sees the slots live is to consume.
Targets(slot, live) ==
    LET owner == Owner[live]
    IN IF slot \in live THEN {u \in Units : owner[u] = slot} ELSE {}

\* giveUp: units held and no longer assigned are handed over, and takeovers
\* of units no longer assigned forgotten.
GivenUp(c, targets) ==
    [c EXCEPT !.owned = @ \cap targets, !.draining = @ \cup (c.owned \ targets),
              !.orphaned = [u \in Units |-> IF u \in targets THEN @[u] ELSE 0]]

\* readMembers, then giveUp.
ReadMembers(p) ==
    LET c == proc[p]
        live == LiveSlots(p)
        targets == Targets(c.slot, live)
        rest == GivenUp(c, targets)
    IN /\ c.loop = "reading"
       /\ Set(p, [rest EXCEPT !.loop = "taking", !.live = live, !.ticked = c.slot,
                              !.todo = targets \ (c.owned \cup c.draining \cup c.unpinning)])
       /\ UNCHANGED <<entry, fresh, broker, hand, faults>>

\* A read that failed skips the rest of the tick.
ReadFails(p) ==
    /\ proc[p].loop = "reading"
    /\ Fault
    /\ Set(p, [proc[p] EXCEPT !.loop = "idle"])
    /\ UNCHANGED <<entry, fresh, broker, hand>>

EndTick(p) ==
    /\ proc[p].loop = "taking" /\ proc[p].todo = {}
    /\ Set(p, [proc[p] EXCEPT !.loop = "idle", !.prev = proc[p].live])
    /\ UNCHANGED <<entry, fresh, broker, hand, faults>>

-----------------------------------------------------------------------------
(* take.                                                                   *)

\* The unit's owner of the previous tick is no longer a member, or this is
\* the first tick of the only member.
Orphan(c, u) ==
    \/ c.prev # Never /\ c.prev # {} /\ Owner[c.prev][u] # c.slot /\ Owner[c.prev][u] \notin c.live
    \/ c.prev = Never /\ c.live = {c.slot}

Outstanding(u) == {r \in RowsOf(u) : status[r] = "out"}

UnitHeldBug(u) == FALSE

\* ErrUnitHeld: pinned, or rows are out and it was active too recently.
UnitHeld(u) == pin[u] # Nobody \/ (Outstanding(u) # {} /\ active[u])

\* A unit taken over is tried again next tick, until orphanWait is up.
KeepWaiting(u, waited) == waited \in 1..OrphanTicks /\ UnitHeld(u)

\* open binds the unit: from now on it is pulled.
Opened(c, u) == [c EXCEPT !.todo = @ \ {u}, !.asking = {}, !.owned = @ \cup {u}, !.orphaned[u] = 0]

\* Ticks the unit has waited for its reset, 0 if it needs none.
Waited(c, u) == IF c.orphaned[u] = 0 /\ Orphan(c, u) THEN 1 ELSE c.orphaned[u]

\* A unit is bound, or waits a tick, or ResetOrphaned found it let go with
\* rows out and sends its reset.
Take(p, u) ==
    LET c == proc[p]
        waited == Waited(c, u)
    IN /\ c.loop = "taking" /\ u \in c.todo /\ c.asking = {}
       /\ \/ /\ \/ waited = 0
                \/ UnitHeld(u) /\ waited > OrphanTicks
                \/ ~UnitHeld(u) /\ Outstanding(u) = {}
             /\ Set(p, Opened(c, u)) /\ UNCHANGED resets
          \/ /\ KeepWaiting(u, waited)
             /\ Set(p, [c EXCEPT !.todo = @ \ {u}, !.orphaned[u] = waited + 1])
             /\ UNCHANGED resets
          \/ /\ waited > 0 /\ ~UnitHeld(u) /\ Outstanding(u) # {}
             /\ Set(p, [c EXCEPT !.asking = {u}, !.orphaned[u] = waited])
             /\ resets' = resets \cup {<<p, u>>}
       /\ UNCHANGED <<entry, fresh, pin, active, status, overdue, moved, raced, hand, faults>>

\* The reset reaches the broker, whoever has the unit by then: it checks
\* nothing.
ResetLands(p, u) ==
    /\ <<p, u>> \in resets
    /\ resets' = resets \ {<<p, u>>}
    /\ status' = [r \in Rows |-> IF r \in Outstanding(u) THEN "ready" ELSE status[r]]
    /\ IF u \in proc[p].asking THEN Set(p, Opened(proc[p], u)) ELSE UNCHANGED proc
    /\ UNCHANGED <<entry, fresh, pin, active, overdue, moved, raced, hand, faults>>

\* A check, or a reset, the server did not answer: the unit is bound all the
\* same.  A reset sent may still land.
ResetFails(p, u) ==
    /\ proc[p].loop = "taking" /\ u \in proc[p].todo /\ proc[p].asking \subseteq {u}
    /\ Waited(proc[p], u) > 0
    /\ Fault
    /\ Set(p, Opened(proc[p], u))
    /\ UNCHANGED <<entry, fresh, broker, hand>>

\* A bind the server did not answer: the unit waits for the next tick.
BindFails(p, u) ==
    /\ proc[p].loop = "taking" /\ u \in proc[p].todo /\ proc[p].asking = {}
    /\ Fault
    /\ Set(p, [proc[p] EXCEPT !.todo = @ \ {u}, !.orphaned[u] = 0])
    /\ UNCHANGED <<entry, fresh, broker, hand>>

-----------------------------------------------------------------------------
(* Handover.                                                               *)

DrainedBug(p, u) == TRUE

\* Nothing the unit delivered is unsettled, or what is has been here for
\* mq.ack_wait (SlotExpiry, Handover), which the durable's may exceed.
Drained(p, u) == hand[p] \cap RowsOf(u) \subseteq overdue

\* The unit has stopped fetching and its rows have settled: release begins
\* by asking the broker who has the pin.
Release(p, u) ==
    /\ u \in proc[p].draining /\ Drained(p, u)
    /\ Set(p, [proc[p] EXCEPT !.draining = @ \ {u},
                              !.unpinning = IF pin[u] = p THEN @ \cup {u} ELSE @])
    /\ UNCHANGED <<entry, fresh, broker, hand, faults>>

\* ... and unpins, naming no pin id.
Unpin(p, u) ==
    /\ u \in proc[p].unpinning
    /\ Set(p, [proc[p] EXCEPT !.unpinning = @ \ {u}])
    /\ pin' = [pin EXCEPT ![u] = Nobody]
    /\ UNCHANGED <<entry, fresh, active, status, resets, overdue, moved, raced, hand, faults>>

\* Halt: the ticks end and no unit fetches any more; the worker then settles
\* what it holds.
Halt(p) ==
    /\ proc[p].loop = "idle" /\ Fault
    /\ Set(p, [proc[p] EXCEPT !.loop = "halted"])
    /\ UNCHANGED <<entry, fresh, broker, hand>>

\* stop, after the worker has flushed: every unit is released ...
Stop(p) ==
    LET c == proc[p]
    IN /\ c.loop = "halted" /\ hand[p] \subseteq overdue
       /\ Set(p, [c EXCEPT !.loop = "releasing", !.draining = @ \cup c.owned, !.owned = {}])
       /\ UNCHANGED <<entry, fresh, broker, hand, faults>>

\* ... and the membership lease resigned.
Stopped(p) ==
    LET c == proc[p]
    IN /\ c.loop = "releasing" /\ c.draining = {} /\ c.unpinning = {}
       /\ Set(p, [Fresh EXCEPT !.loop = "stopped"])
       /\ IF c.slot # 0 /\ ~c.lost
          THEN entry' = [entry EXCEPT ![c.slot] = "free"] /\ fresh' = [fresh EXCEPT ![c.slot] = {}]
          ELSE UNCHANGED <<entry, fresh>>
       /\ hand' = [hand EXCEPT ![p] = {}]
       /\ UNCHANGED <<broker, faults>>

-----------------------------------------------------------------------------
(* Processes and the broker.                                               *)

Crash(p) ==
    LET c == proc[p]
    IN /\ Up(p) /\ Fault
       /\ Set(p, [Fresh EXCEPT !.loop = "down"])
       /\ hand' = [hand EXCEPT ![p] = {}]
       /\ IF c.slot # 0 /\ ~c.lost
          THEN entry' = [entry EXCEPT ![c.slot] = "stale"] /\ fresh' = [fresh EXCEPT ![c.slot] = Procs]
          ELSE UNCHANGED <<entry, fresh>>
       /\ UNCHANGED broker

\* A process starts: no quiet lease has run out on its clock yet.
Start(p) ==
    /\ ~Up(p)
    /\ Set(p, Fresh)
    /\ fresh' = [j \in Slots |-> IF entry[j] = "stale" THEN fresh[j] \cup {p} ELSE fresh[j]]
    /\ UNCHANGED <<entry, broker, hand, faults>>

\* A unit is pulled while it is owned and its process has not halted.
Pulls(p, u) == Ticking(p) /\ u \in proc[p].owned

\* The broker delivers the unit's next row to the puller it has pinned,
\* pinning one if nobody is.
Deliver(p, r) ==
    LET u == UnitOf[r]
    IN /\ Pulls(p, u) /\ pin[u] \in {p, Nobody}
       /\ status[r] = "ready" /\ \A s \in RowsOf(u) : status[s] = "ready" => r <= s
       /\ r \notin hand[p]
       /\ pin' = [pin EXCEPT ![u] = p] /\ active' = [active EXCEPT ![u] = TRUE]
       /\ status' = [status EXCEPT ![r] = "out"]
       /\ hand' = [hand EXCEPT ![p] = @ \cup {r}]
       /\ raced' = IF \E q \in Procs : <<q, u>> \in resets THEN raced \cup {r} ELSE raced
       /\ UNCHANGED <<entry, fresh, proc, resets, overdue, moved, faults>>

\* The worker has written the row: it is acked, unless a reset has taken it
\* back: the broker may not count the ack of a row it is to deliver again.
Settle(p, r) ==
    /\ r \in hand[p]
    /\ \/ status' = [status EXCEPT ![r] = "acked"]
       \/ r \in raced /\ status[r] = "ready" /\ UNCHANGED status
    /\ active' = [active EXCEPT ![UnitOf[r]] = TRUE]
    /\ hand' = [hand EXCEPT ![p] = @ \ {r}]
    /\ UNCHANGED <<entry, fresh, proc, pin, resets, overdue, moved, raced, faults>>

\* ... or could not write it.
Nak(p, r) ==
    /\ r \in hand[p] /\ Fault
    /\ status' = [status EXCEPT ![r] = IF @ = "acked" THEN @ ELSE "ready"]
    /\ hand' = [hand EXCEPT ![p] = @ \ {r}]
    /\ UNCHANGED <<entry, fresh, proc, pin, active, resets, overdue, moved, raced>>

\* The durable's ack_wait passes for a row nobody living has ...
Redeliver(r) ==
    /\ status[r] = "out" /\ \A p \in Procs : r \notin hand[p]
    /\ status' = [status EXCEPT ![r] = "ready"]
    /\ UNCHANGED <<entry, fresh, proc, pin, active, resets, overdue, moved, raced, hand, faults>>

\* mq.ack_wait passes for one whose worker is slow ...
TurnOverdue(r) ==
    /\ r \notin overdue /\ \E p \in Procs : r \in hand[p]
    /\ Fault
    /\ overdue' = overdue \cup {r}
    /\ UNCHANGED <<entry, fresh, proc, pin, active, status, resets, moved, raced, hand>>

\* ... and the durable's, which is no shorter.
TurnLate(r) ==
    /\ status[r] = "out" /\ r \in overdue
    /\ status' = [status EXCEPT ![r] = "ready"]
    /\ UNCHANGED <<entry, fresh, proc, pin, active, resets, overdue, moved, raced, hand, faults>>

Claims(p) == proc[p].owned \cup proc[p].draining \cup proc[p].unpinning

\* The pin of a puller that no longer pulls or renews lapses.
PinLapses(u) ==
    /\ pin[u] # Nobody /\ u \notin Claims(pin[u])
    /\ pin' = [pin EXCEPT ![u] = Nobody]
    /\ UNCHANGED <<entry, fresh, proc, active, status, resets, overdue, moved, raced, hand, faults>>

\* The durable's leader moves, which releases its pin.
LeaderMoves(u) ==
    /\ pin[u] # Nobody /\ Fault
    /\ pin' = [pin EXCEPT ![u] = Nobody] /\ moved' = moved \cup {u}
    /\ UNCHANGED <<entry, fresh, proc, active, status, resets, overdue, raced, hand>>

\* pinned_ttl passes without a delivery or an ack.
Quiet(u) ==
    /\ active[u] /\ active' = [active EXCEPT ![u] = FALSE]
    /\ UNCHANGED <<entry, fresh, proc, pin, status, resets, overdue, moved, raced, hand, faults>>

Loop(p) ==
    \/ Join(p) \/ ReadMembers(p) \/ EndTick(p) \/ \E u \in Units : Take(p, u)

Next ==
    \/ \E p \in Procs :
         \/ Loop(p) \/ LoseMember(p) \/ JoinFails(p) \/ ReadFails(p) \/ Halt(p) \/ Stop(p) \/ Stopped(p)
         \/ Crash(p) \/ Start(p)
         \/ \E j \in Slots : Expire(p, j)
         \/ \E u \in Units : BindFails(p, u) \/ ResetLands(p, u) \/ ResetFails(p, u) \/ Release(p, u) \/ Unpin(p, u)
         \/ \E r \in Rows : Deliver(p, r) \/ Settle(p, r) \/ Nak(p, r)
    \/ \E r \in Rows : Redeliver(r) \/ TurnOverdue(r) \/ TurnLate(r)
    \/ \E u \in Units : PinLapses(u) \/ LeaderMoves(u) \/ Quiet(u)

Spec == Init /\ [][Next]_vars

-----------------------------------------------------------------------------
(* Properties.                                                             *)

TypeOK ==
    /\ entry \in [Slots -> {"free", "live", "stale"}] /\ fresh \in [Slots -> SUBSET Procs]
    /\ proc \in [Procs -> [loop : Loops, slot : {0} \cup Slots, lost : BOOLEAN, live : SUBSET Slots,
                           prev : {Never} \cup SUBSET Slots, ticked : {0} \cup Slots,
                           todo : SUBSET Units, asking : SUBSET Units, owned : SUBSET Units, draining : SUBSET Units, unpinning : SUBSET Units,
                           orphaned : [Units -> 0..(OrphanTicks + 1)]]]
    /\ pin \in [Units -> Procs \cup {Nobody}] /\ active \in [Units -> BOOLEAN]
    /\ status \in [Rows -> {"ready", "out", "acked"}] /\ resets \subseteq Procs \X Units
    /\ overdue \subseteq Rows /\ moved \subseteq Units /\ raced \subseteq Rows
    /\ hand \in [Procs -> SUBSET Rows]
    /\ faults \in 0..MaxFaults

\* "So the membership view alone never resets a live owner's rows", and a
\* unit is handed on only once it is drained: a row in a process's hands is
\* nobody else's and not up for delivery, until it has been there for
\* mq.ack_wait or the broker has dropped the unit's pin.  A reset sent before
\* the row was delivered may put it up for delivery, to its process alone.
RowsStayMine ==
    \A p \in Procs : \A r \in hand[p] \ overdue : UnitOf[r] \notin moved =>
        (status[r] = "out" \/ r \in raced) /\ \A q \in Procs \ {p} : r \notin hand[q]

\* "The next owner receives ... only rows newer than the ones written here":
\* no two processes have unsettled rows of one unit, so the rows of a table
\* are written in order across a handover, unless the broker dropped the pin
\* or a row has been in a process's hands for mq.ack_wait, the bound of a
\* handover.
OneWriter ==
    \A p, q \in Procs : p # q =>
        {UnitOf[r] : r \in hand[p] \ overdue} \cap {UnitOf[r] : r \in hand[q] \ overdue} \subseteq moved

\* Every process that runs has ticked since the members, its own slot with
\* them, last changed, and waits for no unit.
Settled ==
    LET up == {p \in Procs : Up(p)}
        slots == {proc[p].slot : p \in up}
    IN /\ up # {} /\ slots \subseteq Slots
       /\ \A j \in Slots : entry[j] = (IF j \in slots THEN "live" ELSE "free")
       /\ \A p \in up :
            /\ proc[p].loop = "idle" /\ ~proc[p].lost /\ proc[p].prev = slots /\ proc[p].ticked = proc[p].slot
            /\ proc[p].draining \cup proc[p].unpinning = {} /\ Targets(proc[p].slot, slots) \subseteq Claims(p)

\* "Every process that sees the same slots and units derives the same owners
\* ... and no slot owns more than the cap": once settled, each unit is
\* consumed by exactly one process, and none has more of the configured ones
\* than an even share, rounded up.
Agreement ==
    LET up == {p \in Procs : Up(p)}
    IN Settled =>
         /\ \A u \in Units : Cardinality({p \in Procs : u \in proc[p].owned}) = 1
         /\ \A p \in up :
              Cardinality(up) * Cardinality(proc[p].owned \cap Configured) < Cardinality(Configured) + Cardinality(up)
=============================================================================
