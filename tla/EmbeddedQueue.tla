---------------------------- MODULE EmbeddedQueue ----------------------------
(***************************************************************************)
(* One tenant's queue in the embedded broker (internal/mq/embedded.go):    *)
(* its pair of JetStream streams, what the broker knows of them, and the   *)
(* consumers held on the ingest stream.  SetMaxBytes opens or resizes the  *)
(* pair, a publish or park that finds it not open reopens it, and all of   *)
(* it runs under the broker's mutex, so each is one step: what happens     *)
(* beside it (a stream lost, a row sent) commutes with its calls.          *)
(*                                                                         *)
(* A JetStream call succeeds, fails, or fails having done what it was      *)
(* asked.  An ingest stream has an incarnation: one that is lost and made  *)
(* again holds none of the durables of the one before.  The streams' caps  *)
(* are left out once takeStock has compared them: no step reads them.      *)
(*                                                                         *)
(* The settings are reduced to the tenant's last adopted document and      *)
(* whether it is served; Settings models the reload that adopts one.  The  *)
(* sweeper runs beside the queue, on the ingest stream's rows (Sweep).     *)
(***************************************************************************)
EXTENDS Sweep

CONSTANTS
    Consumers,  \* the worker's and the hub's fanIn
    MaxOpens,   \* bound: incarnations of the ingest stream
    Scenes      \* scene -> what a behaviour starts from: the settings, the
                \* streams found on disk, the settings later reloads bring
                \* and how many, which part is at work ("queue", "sweep"),
                \* and bounds on the rows and the clock

\* A tenant is "served", "rejected" (with the document it last had, if any)
\* or "gone".
Tenants == [state : {"served", "rejected", "gone"}, doc : [budget : Nat, window : Nat]]

Disks == [ingest : BOOLEAN, cap : Nat, current : BOOLEAN, dlq : Nat, held : Nat]

ASSUME SceneAssumption ==
    \A s \in DOMAIN Scenes :
        Scenes[s] \in [tenant : Tenants, disks : SUBSET Disks, settings : SUBSET Tenants,
                      reloads : Nat, live : SUBSET {"queue", "sweep"}, rows : Nat, clock : Nat]

VARIABLES
    scene,      \* never changed
    tenant,     \* what the registry holds: [state, doc]
    reload,     \* "idle", or "hook": adopted, the hook not yet run
    reloads,    \* how many reloads there were
    js,         \* the streams: ingest incarnation (0 is none) and how many
                \* there have been; whether the dead-letter stream is there
    q,          \* tenantQueue
    opened,     \* the tenant is in opened
    fans,       \* consumer -> fanIn
    paced,      \* failedOpen holds the tenant, not yet elapsed
    send        \* the publish or park under way

settings == <<scene, tenant, reload, reloads>>
mqVars == <<js, q, opened, fans, paced, send>>
vars == <<settings, mqVars, stream>>

Scene == Scenes[scene]

dlqShare == 10

NoSend == [kind |-> "none", pc |-> "off"]
NoFan == [pc |-> "new", handle |-> 0, running |-> 0]

\* The broker's state as one record, which the operations below turn into
\* the set of what they may leave: [b, ok].
Broker == [js |-> js, q |-> q, opened |-> opened, fans |-> fans, paced |-> paced]

Results(before, after) ==
    {[b |-> after, ok |-> TRUE], [b |-> before, ok |-> FALSE], [b |-> after, ok |-> FALSE]}

Refused(b) == {[b |-> b, ok |-> FALSE]}
Done(b) == {[b |-> b, ok |-> TRUE]}

\* One call after another: F goes on from a success, G from a failure.
Then(results, F(_), G(_)) == UNION {IF r.ok THEN F(r.b) ELSE G(r.b) : r \in results}

-----------------------------------------------------------------------------
(* Consumers.                                                              *)

registered(b) == {c \in Consumers : b.fans[c].pc \in {"registered", "delivering"}}

holds(f) == f.handle # 0 /\ (f.pc = "delivering" => f.running # 0)

joined(b) == \A c \in registered(b) : holds(b.fans[c])

\* join holds the durable on the stream there is, and runs its delivery; the
\* durable may be held and the delivery not start.
Joined(b, cs, held) ==
    [b EXCEPT !.fans = [c \in Consumers |->
        IF c \in cs \cup held
        THEN [b.fans[c] EXCEPT !.handle = b.js.ingest,
                !.running = IF b.fans[c].pc = "delivering" /\ c \in cs THEN b.js.ingest ELSE @]
        ELSE b.fans[c]]]

\* Each consumer that does not hold the queue is tried, whatever the others meet.
joinConsumers(b) ==
    LET missing == {c \in registered(b) : ~holds(b.fans[c])}
    IN IF b.js.ingest = 0 THEN {[b |-> b, ok |-> missing = {}]}
       ELSE UNION {{[b |-> Joined(b, cs, held), ok |-> cs = missing] : held \in SUBSET (missing \ cs)} :
                       cs \in SUBSET missing}

\* Every consumer forgets the queue.
leaveAllBug(b) == b

leaveAll(b) ==
    [b EXCEPT !.fans = [c \in Consumers |->
        IF c \in registered(b) THEN [b.fans[c] EXCEPT !.handle = 0, !.running = 0] ELSE b.fans[c]]]

-----------------------------------------------------------------------------
(* Opening and resizing.                                                   *)

\* opened follows what is known, and a queue found open is no longer paced.
record(b) ==
    LET open == b.q.ingest /\ b.q.dlq /\ joined(b)
    IN [b EXCEPT !.opened = open, !.paced = @ /\ ~open]

Recorded(results) == {[r EXCEPT !.b = record(r.b)] : r \in results}

UpdateIngest(b) == IF b.js.ingest = 0 THEN Refused(b) ELSE Results(b, b)

\* CreateOrUpdateStream; out of incarnations, it is refused.
CreateIngest(b) ==
    IF b.js.ingest # 0 THEN UpdateIngest(b)
    ELSE IF b.js.opens = MaxOpens THEN Refused(b)
    ELSE Results(b, [b EXCEPT !.js.ingest = b.js.opens + 1, !.js.opens = @ + 1])

applyDLQ(b) == {[r EXCEPT !.b.q.dlq = @ \/ r.ok] : r \in Results(b, [b EXCEPT !.js.dlq = TRUE])}

\* The budget is applied in full once every consumer holds the queue.
applied(b, budget) ==
    Then(joinConsumers(b), LAMBDA c : Done([c EXCEPT !.q.maxBytes = budget]), Refused)

\* The dead-letter stream is opened first; every consumer joins a stream
\* just opened.
open(b, budget) ==
    Then(applyDLQ(b),
         LAMBDA c : Then(CreateIngest(c),
                         LAMBDA d : applied(leaveAll([d EXCEPT !.q.ingest = TRUE]), budget), Refused),
         Refused)

\* A dead-letter resize that fails undoes the ingest one, if it can, and is
\* refused.
resize(b, budget) ==
    Then(UpdateIngest(b),
         LAMBDA c : Then(applyDLQ(c), LAMBDA d : applied(d, budget), Refused),
         Refused)

apply(b, budget) == Recorded(IF b.q.ingest THEN resize(b, budget) ELSE open(b, budget))

SetMaxBytes(b, budget) ==
    LET a == [b EXCEPT !.q.asked = budget]
    IN IF a.q.ingest /\ a.q.dlq /\ budget = a.q.maxBytes /\ joined(a) THEN Done(a)
       ELSE apply(a, budget)

\* reopen asks JetStream which stream is missing, the ingest one first; a
\* lookup that fails otherwise ends it.
Missing(b) ==
    [b EXCEPT !.q.ingest = @ /\ b.js.ingest # 0, !.q.dlq = @ /\ b.js.dlq]

reopen(b) ==
    IF b.q.asked = 0 THEN Refused(b)
    ELSE LET known == Missing(b)
         IN Recorded(Refused(b) \cup Refused([b EXCEPT !.q.ingest = known.q.ingest]))
            \cup IF known.q.ingest /\ known.q.dlq /\ joined(known) THEN Done(record(known))
                 ELSE apply(known, known.q.asked)

-----------------------------------------------------------------------------
(* Boot: what takeStock makes of the streams on disk.  A pair not whole at *)
(* its budget, or with a stale duplicate window, has none applied.         *)

takeStock(disk) ==
    LET tenth == disk.cap \div dlqShare
        whole == /\ disk.ingest /\ disk.dlq # 0 /\ disk.current
                 /\ disk.dlq = tenth \/ (disk.dlq > tenth /\ disk.held > tenth)
        there == IF disk.ingest THEN 1 ELSE 0
    IN record([js |-> [ingest |-> there, opens |-> there, dlq |-> disk.dlq # 0],
               q |-> [ingest |-> disk.ingest, dlq |-> disk.dlq # 0,
                      maxBytes |-> IF whole THEN disk.cap ELSE 0, asked |-> disk.cap],
               opened |-> FALSE, fans |-> [c \in Consumers |-> NoFan], paced |-> FALSE])

-----------------------------------------------------------------------------
(* Steps.                                                                  *)

Become(b) ==
    /\ js' = b.js /\ q' = b.q /\ opened' = b.opened /\ fans' = b.fans /\ paced' = b.paced

\* CreateConsumer and Subscribe: a durable on the queue there is, or no
\* consumer at all.
Register(c) ==
    /\ fans[c].pc = "new"
    /\ \/ ~q.ingest /\ fans' = [fans EXCEPT ![c].pc = "registered"]
       \/ /\ q.ingest /\ js.ingest # 0
          /\ fans' = [fans EXCEPT ![c].pc = "registered", ![c].handle = js.ingest]
    /\ UNCHANGED <<js, q, opened, paced, send>>

\* start runs the delivery of the durable it holds; one that cannot start
\* ends the consumer.
Start(c) ==
    /\ fans[c].pc = "registered"
    /\ \/ fans' = [fans EXCEPT ![c].pc = "delivering", ![c].running = fans[c].handle]
       \/ fans[c].handle # 0 /\ fans' = [fans EXCEPT ![c] = [NoFan EXCEPT !.pc = "stopped"]]
    /\ UNCHANGED <<js, q, opened, paced, send>>

\* stop; the worker asks for it also when its delivery ended on its own.
StopConsumer(c) ==
    /\ fans[c].pc = "delivering"
    /\ fans' = [fans EXCEPT ![c] = [NoFan EXCEPT !.pc = "stopped"]]
    /\ UNCHANGED <<js, q, opened, paced, send>>

\* reopenPaced, for a publish or park going on to pc: refused at once after
\* a failure not yet elapsed, which a failed attempt starts again.
reopenPaced(pc) ==
    \/ paced /\ send' = NoSend /\ UNCHANGED <<js, q, opened, fans, paced>>
    \/ /\ ~paced
       /\ \E r \in reopen(Broker) :
            /\ Become([r.b EXCEPT !.paced = @ \/ ~r.ok])
            /\ send' = IF r.ok THEN [send EXCEPT !.pc = pc] ELSE NoSend

\* Publish trusts opened, a park only the stream.
PublishBegin ==
    /\ send.pc = "off"
    /\ send' = [kind |-> "publish", pc |-> IF opened THEN "send" ELSE "open"]
    /\ UNCHANGED <<js, q, opened, fans, paced>>

ParkBegin ==
    /\ send.pc = "off"
    /\ send' = [kind |-> "park", pc |-> "send"]
    /\ UNCHANGED <<js, q, opened, fans, paced>>

SendOpens == send.pc = "open" /\ reopenPaced("send")

\* The row is stored, or the stream is missing and the queue is reopened, once.
SendRow ==
    LET there == IF send.kind = "publish" THEN js.ingest # 0 ELSE js.dlq
    IN \/ /\ send.pc = "resend" \/ (send.pc = "send" /\ there)
          /\ send' = NoSend
          /\ UNCHANGED <<js, q, opened, fans, paced>>
       \/ ~there /\ send.pc = "send" /\ reopenPaced("resend")

PaceElapses == paced /\ paced' = FALSE /\ UNCHANGED <<js, q, opened, fans, send>>

\* A stream goes missing under the broker.
Lose ==
    /\ \/ js.ingest # 0 /\ js' = [js EXCEPT !.ingest = 0]
       \/ js.dlq /\ js' = [js EXCEPT !.dlq = FALSE]
    /\ UNCHANGED <<q, opened, fans, paced, send>>

QueueStep ==
    \/ \E c \in Consumers : Register(c) \/ Start(c) \/ StopConsumer(c)
    \/ PublishBegin \/ ParkBegin \/ SendOpens \/ SendRow
    \/ PaceElapses \/ Lose

-----------------------------------------------------------------------------
(* The settings, and what wireEmbeddedMQ and wireSweeper take of them.     *)

None == [budget |-> 0, window |-> 0]

\* The registry's tenants are swapped; the hook runs after.
Adopt ==
    /\ reload = "idle" /\ reloads < Scene.reloads
    /\ \E t \in Scene.settings \ {tenant} :
          tenant' = IF t.state = "rejected" THEN [t EXCEPT !.doc = tenant.doc] ELSE t
    /\ reload' = "hook" /\ reloads' = reloads + 1
    /\ UNCHANGED <<scene, mqVars, stream>>

\* A served tenant's budget is handed over unless the queue says it has it.
reconcile(b) ==
    IF tenant.state # "served" \/ tenant.doc.budget = b.q.maxBytes THEN Done(b)
    ELSE SetMaxBytes(b, tenant.doc.budget)

HandOver ==
    /\ reload = "hook" /\ reload' = "idle"
    /\ \E r \in reconcile(Broker) : Become(r.b)
    /\ UNCHANGED <<scene, tenant, reloads, send, stream>>

\* The history kept: a served or rejected tenant's own window, everything
\* for one never read since boot, none for one that is gone.
gapCutoff ==
    IF tenant.state = "gone" THEN clock
    ELSE IF tenant.doc = None THEN -1
    ELSE clock - tenant.doc.window

Sweeping == (SweepStart(gapCutoff) \/ SweepStep) /\ UNCHANGED <<settings, mqVars>>

Init ==
    /\ scene \in DOMAIN Scenes
    /\ tenant = Scene.tenant /\ reload = "idle" /\ reloads = 0
    /\ \E disk \in Scene.disks : \E r \in reconcile(takeStock(disk)) :
          /\ js = r.b.js /\ q = r.b.q /\ opened = r.b.opened /\ fans = r.b.fans /\ paced = r.b.paced
    /\ send = NoSend
    /\ SweepInit

Next ==
    \/ Adopt \/ HandOver
    \/ "queue" \in Scene.live /\ QueueStep /\ UNCHANGED <<settings, stream>>
    \/ "sweep" \in Scene.live /\ Sweeping
    \/ /\ "sweep" \in Scene.live /\ StreamStep
       /\ last' <= Scene.rows /\ clock' <= Scene.clock
       /\ UNCHANGED <<settings, mqVars>>

\* The sweeper's ticker goes on.
Spec == Init /\ [][Next]_vars /\ WF_vars("sweep" \in Scene.live /\ Sweeping)

-----------------------------------------------------------------------------
(* Properties.                                                             *)

\* A queue publishes trust is one every registered consumer reads: each holds
\* a durable on the incarnation there is, and a delivery runs from it once it
\* delivers, whatever was lost, reopened, resized or joined in part
\* (EmbeddedNATS.opened, apply).
OpenIsHeld ==
    opened /\ js.ingest # 0 =>
        \A c \in registered(Broker) :
            /\ fans[c].handle = js.ingest
            /\ fans[c].pc = "delivering" => fans[c].running = js.ingest

\* A sweep purges only messages that were acked and stored before its cutoff,
\* whatever is stored, acked or deleted while it reads the ack floor and
\* searches, and whichever sequences hold no message (purgeAcked).
PurgesOnlySettled ==
    [][sweep.pc # "idle" /\ sweep'.pc = "idle" =>
          \A s \in DOMAIN log \ DOMAIN log' : s \in acked /\ log[s] < sweep.cutoff]_vars

\* The sweeps catch up: in the end the stream keeps no message that is below
\* the ack floor and out of its tenant's window, holes and failed sweeps
\* notwithstanding (findGapSequence: "the next sweep moves past it").
SweepCatchesUp ==
    <>[]("sweep" \in Scene.live =>
            \A s \in DOMAIN log : s <= ackFloor => log[s] >= gapCutoff)
=============================================================================
