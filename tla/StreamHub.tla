----------------------------- MODULE StreamHub ------------------------------
(***************************************************************************)
(* Server-sent events: the hub that fans the ingested rows of one topic    *)
(* out by role (internal/stream), the subscribers' queues, the keepalive   *)
(* wheel, and the stream handler with its gap-fill replay.  The hub's      *)
(* bridge is one goroutine; the wheel is another; each connection has its  *)
(* handler; a settings reload runs its hooks one after another.            *)
(*                                                                         *)
(* What varies from case to case (the requests, the settings that reloads  *)
(* bring, the rows that arrive) is a record, world, that Init picks.       *)
(***************************************************************************)
EXTENDS Requests

CONSTANTS
    Conns,     \* connections
    Roles,     \* role names, with "" for none
    Kinds,     \* kinds of cases
    Worlds(_)  \* the cases of a kind

VARIABLES
    world,   \* the case: [req, confs, feed, table, leaves, closes, ticks]
    at,      \* the settings and schema in force: world.confs[at]
    hooks,   \* the hooks of the last reload still to run, in order
    closing, \* shutdown has begun
    conn,    \* each connection's request: where its handler is, and what it knows
    sub,     \* each stream's Subscriber
    hub,     \* role -> its Bucket: the subscribers, and which object it is
    log,     \* the ingest topic's messages
    bpos,    \* how many of them the bridge has taken
    bc,      \* the Broadcast under way; ev = 0: none
    out,     \* the Send under way of each sender, the hub and the wheel
    wheel,   \* the tenant's keepalive wheel: [up, id, ring, hand, to]; not up: none
    wire,    \* what each client received, in order
    fate     \* each stream's rows dropped and counted, or not for it

conf == world.confs[at]
None == "none"
Senders == {"hub", "wheel"}

NoSub == [queue |-> <<>>, cap |-> 1, closed |-> FALSE, evicted |-> FALSE, lastSchema |-> <<>>,
          replaySig |-> <<>>, specs |-> <<>>, rpos |-> 0, from |-> 0, missed |-> {}, wheel |-> 0, bucket |-> 0, quiet |-> 0]

Idle == [ev |-> 0, pol |-> 0, specs |-> <<>>, todo |-> {}, role |-> "", to |-> {}]

NoSend == [c |-> None, frame |-> [kind |-> "none"], then |-> <<>>]

streamVars == <<sub, hub, log, bpos, bc, out, wheel, wire, fate>>

Goto(c, pc) == conn' = [conn EXCEPT ![c].pc = pc]

-----------------------------------------------------------------------------
(* Frames.  A data frame carries values by position; cols and pol record   *)
(* which columns they are of, and under which settings it was made.        *)

SchemaFrame(cols) == [kind |-> "schema", cols |-> cols, ev |-> 0, pol |-> 0]
Keepalive == [kind |-> "keepalive", cols |-> <<>>, ev |-> 0, pol |-> 0]

\* An event whose columns and cells pair up, by name.
pairRow(e) == Len(e.cols) > 0 /\ Len(e.row) = Len(e.cols) /\ Cardinality({e.cols[i] : i \in DOMAIN e.cols}) = Len(e.cols)

RowOf(e) == [c \in {e.cols[i] : i \in DOMAIN e.cols} |-> e.row[CHOOSE i \in DOMAIN e.cols : e.cols[i] = c]]

projectIndices(cols, rp) == SelectSeq(cols, LAMBDA c : IsColumnAllowed(rp, c, FALSE))

\* What a role is sent of event n under settings p; claims are not looked at.
planForRole(p, role, n, kind) ==
    LET e == log[n]
        of(rp) == [ok |-> e.usable /\ pairRow(e) /\ rp.allowed, filtered |-> HasRowFilter(rp),
                   cols |-> projectIndices(e.cols, rp), kind |-> kind, ev |-> n, pol |-> p]
    IN  of(Evaluate(world.confs[p].policy, role, "t", "select", <<>>))

dataFrame(plan) == [kind |-> plan.kind, cols |-> plan.cols, ev |-> plan.ev, pol |-> plan.pol]

rowAdmitted(p, role, claims, n, specs) ==
    RowVisible(Evaluate(world.confs[p].policy, role, "t", "select", claims), RowOf(log[n]), specs)

-----------------------------------------------------------------------------
(* The queue of one subscriber.                                            *)

Dropped(c, frames) == fate' = [fate EXCEPT ![c] = @ \cup ({frames[i].ev : i \in DOMAIN frames} \ {0})]

\* Bug: the stream is not looked at again after the put.
QueuedBug(c, f) == Append(sub[c].queue, f)

\* A frame put while the stream closed is taken back, with what was before it.
Queued(c, f) == IF sub[c].closed THEN <<>> ELSE Append(sub[c].queue, f)

HasRoom(c) == Len(sub[c].queue) < sub[c].cap

\* A Send that found its subscriber open puts the frame if there is room; an
\* announcement that is queued is recorded, and one that is not takes its row
\* with it.
SendPut(s) ==
    LET c == out[s].c
        f == out[s].frame
    IN  /\ c # None /\ f.kind # "none"
        /\ \/ /\ ~HasRoom(c)
              /\ Dropped(c, <<f>> \o out[s].then)
              /\ out' = [out EXCEPT ![s] = NoSend]
              /\ UNCHANGED sub
           \/ /\ HasRoom(c)
              /\ Dropped(c, IF sub[c].closed THEN Append(sub[c].queue, f) ELSE <<>>)
              /\ sub' = [sub EXCEPT ![c].queue = Queued(c, f), ![c].lastSchema = IF f.kind = "schema" THEN <<f.cols>> ELSE @]
              /\ out' = [out EXCEPT ![s] = IF f.kind = "schema" THEN [@ EXCEPT !.frame = NoSend.frame] ELSE NoSend]
        /\ UNCHANGED <<world, at, hooks, closing, conn, hub, log, bpos, bc, wheel, wire>>

\* The row after its announcement: a Send of its own.
SendNext(s) ==
    LET c == out[s].c
    IN  /\ c # None /\ out[s].frame.kind = "none"
        /\ IF sub[c].closed
           THEN Dropped(c, out[s].then) /\ out' = [out EXCEPT ![s] = NoSend]
           ELSE out' = [out EXCEPT ![s] = [c |-> c, frame |-> out[s].then[1], then |-> <<>>]] /\ UNCHANGED fate
        /\ UNCHANGED <<world, at, hooks, closing, conn, sub, hub, log, bpos, bc, wheel, wire>>

-----------------------------------------------------------------------------
(* The bridge.                                                             *)

Publish ==
    /\ Len(log) < Len(world.feed)
    /\ log' = Append(log, world.feed[Len(log) + 1])
    /\ UNCHANGED <<world, at, hooks, closing, conn, sub, hub, bpos, bc, out, wheel, wire, fate>>

\* The buckets there are, and the policy in force.
Broadcast ==
    /\ bc.ev = 0 /\ bpos < Len(log)
    /\ bpos' = bpos + 1
    /\ LET todo == {<<r, hub[r].gen>> : r \in {q \in Roles : hub[q].subs # {}}}
       IN  bc' = IF todo = {} THEN bc ELSE [Idle EXCEPT !.ev = bpos + 1, !.pol = at, !.todo = todo]
    /\ UNCHANGED <<world, at, hooks, closing, conn, sub, hub, log, out, wheel, wire, fate>>

\* One role: its plan, and the subscribers its bucket has by then.
BroadcastRole ==
    /\ bc.ev # 0 /\ bc.to = {} /\ out["hub"].c = None
    /\ \E q \in bc.todo : \E plan \in {planForRole(bc.pol, q[1], bc.ev, "event")} :
        LET members == IF hub[q[1]].gen = q[2] THEN hub[q[1]].subs ELSE {}
        IN  /\ bc' = [bc EXCEPT !.todo = @ \ {q}, !.role = q[1], !.to = IF plan.ok THEN members ELSE {},
                                !.specs = IF plan.ok /\ plan.filtered /\ @ = <<>> THEN <<columnSpecs(conf.schema)>> ELSE @]
            /\ fate' = IF plan.ok THEN fate ELSE [c \in Conns |-> IF c \in members THEN fate[c] \cup {bc.ev} ELSE fate[c]]
    /\ UNCHANGED <<world, at, hooks, closing, conn, sub, hub, log, bpos, out, wheel, wire>>

\* Bug: the announcement is recorded when it is made, not when it is queued.
deliverBug(c, plan) ==
    IF sub[c].lastSchema # <<plan.cols>>
    THEN /\ sub' = [sub EXCEPT ![c].lastSchema = <<plan.cols>>]
         /\ out' = [out EXCEPT !["hub"] = [c |-> c, frame |-> SchemaFrame(plan.cols), then |-> <<dataFrame(plan)>>]]
    ELSE out' = [out EXCEPT !["hub"] = [c |-> c, frame |-> dataFrame(plan), then |-> <<>>]] /\ UNCHANGED sub

\* The columns are announced when they are not the ones last announced.
deliver(c, plan) ==
    /\ out' = [out EXCEPT !["hub"] = IF sub[c].lastSchema # <<plan.cols>>
                                     THEN [c |-> c, frame |-> SchemaFrame(plan.cols), then |-> <<dataFrame(plan)>>]
                                     ELSE [c |-> c, frame |-> dataFrame(plan), then |-> <<>>]]
    /\ UNCHANGED sub

\* One subscriber: the row filter with its own claims, then the frames.
BroadcastTo(c) ==
    /\ c \in bc.to /\ out["hub"].c = None
    /\ bc' = [bc EXCEPT !.to = @ \ {c}]
    /\ \E plan \in {planForRole(bc.pol, bc.role, bc.ev, "event")} :
         IF \/ plan.filtered /\ ~rowAdmitted(bc.pol, bc.role, conn[c].claims, bc.ev, bc.specs[1])
            \/ sub[c].closed
         THEN fate' = [fate EXCEPT ![c] = @ \cup {bc.ev}] /\ UNCHANGED <<out, sub>>
         ELSE deliver(c, plan) /\ UNCHANGED fate
    /\ UNCHANGED <<world, at, hooks, closing, conn, hub, log, bpos, wheel, wire>>

BroadcastEnd ==
    /\ bc.ev # 0 /\ bc.todo = {} /\ bc.to = {} /\ out["hub"].c = None
    /\ bc' = Idle
    /\ UNCHANGED <<world, at, hooks, closing, conn, sub, hub, log, bpos, out, wheel, wire, fate>>

-----------------------------------------------------------------------------
(* The stream handler, from its subscription to its deferred calls.        *)

\* A write reaches the client unless it is gone; keepalives are not recorded.
Written(c, frames) == wire' = [wire EXCEPT ![c] = @ \o frames]
Recorded(f) == IF f.kind = "keepalive" THEN <<>> ELSE <<f>>

\* The columns known from the schema are announced before any row.
SubscribeSchema(c) ==
    /\ conn[c].pc = "subscribe"
    /\ \E rp \in {Evaluate(conf.policy, conn[c].role, "t", "select", <<>>)} :
       LET cols == projectIndices(InsertableColumnNames(conf.schema), rp)
           announce == conf.schema # <<>> /\ rp.allowed
       IN  /\ sub' = [sub EXCEPT ![c] = [NoSub EXCEPT !.cap = conf.queue, !.rpos = world.req[c].since,
                                                   !.lastSchema = IF announce THEN <<cols>> ELSE <<>>]]
           /\ IF announce /\ conn[c].gone
              THEN Goto(c, "close") /\ UNCHANGED wire
              ELSE Goto(c, "add") /\ IF announce THEN Written(c, <<SchemaFrame(cols)>>) ELSE UNCHANGED wire
    /\ UNCHANGED <<world, at, hooks, closing, hub, log, bpos, bc, out, wheel, fate>>

\* From here on the stream is sent each row the bridge takes.
HubAdd(c) ==
    /\ conn[c].pc = "add"
    /\ hub' = [hub EXCEPT ![conn[c].role].subs = @ \cup {c}]
    /\ sub' = [sub EXCEPT ![c].from = bpos + 1]
    /\ Goto(c, "served")
    /\ UNCHANGED <<world, at, hooks, closing, log, bpos, bc, out, wheel, wire, fate>>

\* Bug: the tenant is not looked up again once its stream is in the hub.
MayStreamBug(c) == TRUE

MayStream(c) == conf.serving = "served"

\* A tenant dropped since it was resolved: a Prune that ran missed this stream.
CheckServed(c) ==
    /\ conn[c].pc = "served"
    /\ Goto(c, IF ~MayStream(c) THEN "leaveHub" ELSE IF sub[c].rpos > 0 THEN "replay" ELSE "wheel")
    /\ UNCHANGED <<world, at, hooks, closing, streamVars>>

Cancelled(c) == conn[c].gone \/ closing \/ sub[c].evicted

\* What becomes of a message of the gap: written, or accounted for.
Replayed(c, plan, specs, shown) ==
    /\ sub' = [sub EXCEPT ![c].rpos = @ + 1, ![c].specs = IF plan.ok THEN specs ELSE @,
                          ![c].replaySig = IF shown THEN <<plan.cols>> ELSE @]
    /\ IF ~shown THEN fate' = [fate EXCEPT ![c] = @ \cup {plan.ev}] /\ UNCHANGED <<wire, conn>>
       ELSE IF conn[c].gone THEN fate' = [fate EXCEPT ![c] = @ \cup {plan.ev}] /\ Goto(c, "wheel") /\ UNCHANGED wire
       ELSE /\ Written(c, (IF sub[c].replaySig # <<plan.cols>> THEN <<SchemaFrame(plan.cols)>> ELSE <<>>)
                          \o <<dataFrame(plan)>>)
            /\ UNCHANGED <<fate, conn>>

\* One message of the gap, under the settings in force when it is read; the
\* column types are resolved once.
ReplayNext(c) ==
    LET n == sub[c].rpos
    IN  /\ conn[c].pc = "replay" /\ ~closing /\ ~sub[c].evicted /\ n <= Len(log)
        /\ \E plan \in {planForRole(at, conn[c].role, n, "replay")} :
           \E specs \in {IF plan.filtered /\ sub[c].specs = <<>> THEN <<columnSpecs(conf.schema)>> ELSE sub[c].specs} :
           \E shown \in {plan.ok /\ (plan.filtered => rowAdmitted(at, conn[c].role, conn[c].claims, n, specs[1]))} :
               Replayed(c, plan, specs, shown)
        /\ UNCHANGED <<world, at, hooks, closing, hub, log, bpos, bc, out, wheel>>

\* Caught up with the queue, or cancelled.
ReplayEnd(c) ==
    /\ conn[c].pc = "replay"
    /\ sub[c].rpos > Len(log) \/ Cancelled(c)
    /\ Goto(c, "wheel")
    /\ UNCHANGED <<world, at, hooks, closing, streamVars>>

\* A replay that cannot start, or ends before it has caught up, a pull that times
\* out included: the stream goes on with the live rows only.
ReplayFails(c) ==
    /\ conn[c].pc = "replay" /\ ~Cancelled(c)
    /\ sub' = [sub EXCEPT ![c].missed = sub[c].rpos..(sub[c].from - 1)]
    /\ Goto(c, "wheel")
    /\ UNCHANGED <<world, at, hooks, closing, hub, log, bpos, bc, out, wheel, wire, fate>>

wheelShape(buckets) == IF buckets < 1 THEN 3 ELSE buckets

NewWheel(id, buckets) == [up |-> TRUE, id |-> id, ring |-> [i \in 1..wheelShape(buckets) |-> {}], hand |-> 1, to |-> {}]

\* The tenant's wheel, made now when its hook has not run yet; none for a tenant
\* that is not served.
WheelFor == IF wheel.up \/ conf.serving # "served" THEN wheel ELSE NewWheel(wheel.id, conf.buckets)

\* The bucket behind the hand, so the first keepalive is a turn away.
WheelAdd(c) ==
    LET w == WheelFor
        n == Len(w.ring)
        last == ((w.hand + n - 2) % n) + 1
    IN  /\ conn[c].pc = "wheel"
        /\ IF w.up
           THEN /\ wheel' = [w EXCEPT !.ring[last] = @ \cup {c}]
                /\ sub' = [sub EXCEPT ![c].wheel = w.id, ![c].bucket = last, ![c].quiet = 0]
           ELSE UNCHANGED <<wheel, sub>>
        /\ Goto(c, "loop")
        /\ UNCHANGED <<world, at, hooks, closing, hub, log, bpos, bc, out, wire, fate>>

\* A queued frame goes out; a write that fails ends the stream.
LoopWrite(c) ==
    /\ conn[c].pc = "loop" /\ sub[c].queue # <<>>
    /\ sub' = [sub EXCEPT ![c].queue = Tail(@)]
    /\ IF conn[c].gone
       THEN Dropped(c, <<Head(sub[c].queue)>>) /\ Goto(c, "leaveWheel") /\ UNCHANGED wire
       ELSE Written(c, Recorded(Head(sub[c].queue))) /\ UNCHANGED <<fate, conn>>
    /\ UNCHANGED <<world, at, hooks, closing, hub, log, bpos, bc, out, wheel>>

LoopEnd(c) ==
    /\ conn[c].pc = "loop" /\ Cancelled(c)
    /\ Goto(c, "leaveWheel")
    /\ UNCHANGED <<world, at, hooks, closing, streamVars>>

\* From the wheel it joined, which may no longer be the tenant's.
WheelRemove(c) ==
    /\ conn[c].pc = "leaveWheel"
    /\ wheel' = IF sub[c].wheel = wheel.id THEN [wheel EXCEPT !.ring[sub[c].bucket] = @ \ {c}] ELSE wheel
    /\ Goto(c, "leaveHub")
    /\ UNCHANGED <<world, at, hooks, closing, sub, hub, log, bpos, bc, out, wire, fate>>

\* An empty bucket is dropped: the role's next subscriber makes another.
HubRemove(c) ==
    /\ conn[c].pc = "leaveHub"
    /\ LET b == hub[conn[c].role]
       IN  hub' = [hub EXCEPT ![conn[c].role] =
                     [subs |-> b.subs \ {c}, gen |-> IF b.subs = {c} THEN b.gen + 1 ELSE b.gen]]
    /\ Goto(c, "close")
    /\ UNCHANGED <<world, at, hooks, closing, sub, log, bpos, bc, out, wheel, wire, fate>>

Close(c) ==
    /\ conn[c].pc = "close"
    /\ sub' = [sub EXCEPT ![c].closed = TRUE]
    /\ Goto(c, "discard")
    /\ UNCHANGED <<world, at, hooks, closing, hub, log, bpos, bc, out, wheel, wire, fate>>

Discard(c) ==
    /\ conn[c].pc = "discard"
    /\ sub' = [sub EXCEPT ![c].queue = <<>>]
    /\ Dropped(c, sub[c].queue)
    /\ Goto(c, "done")
    /\ UNCHANGED <<world, at, hooks, closing, hub, log, bpos, bc, out, wheel, wire>>

ClientGone(c) ==
    /\ world.leaves /\ ~conn[c].gone /\ conn[c].pc \in {"subscribe", "replay", "loop"}
    /\ conn' = [conn EXCEPT ![c].gone = TRUE]
    /\ UNCHANGED <<world, at, hooks, closing, streamVars>>

Shutdown ==
    /\ world.closes /\ ~closing
    /\ closing' = TRUE
    /\ UNCHANGED <<world, at, hooks, conn, streamVars>>

-----------------------------------------------------------------------------
(* The wheel and the hooks.                                                *)

\* One bucket is reached per tick; the hand moves on first.
Tick ==
    /\ world.ticks /\ wheel.up /\ wheel.to = {} /\ out["wheel"].c = None
    /\ UNION {wheel.ring[i] : i \in DOMAIN wheel.ring} # {}
    /\ wheel' = [wheel EXCEPT !.to = wheel.ring[wheel.hand], !.hand = (wheel.hand % Len(wheel.ring)) + 1]
    /\ sub' = [c \in Conns |-> IF \E i \in DOMAIN wheel.ring : c \in wheel.ring[i]
                               THEN [sub[c] EXCEPT !.quiet = IF c \in wheel.ring[wheel.hand] THEN 0 ELSE @ + 1]
                               ELSE sub[c]]
    /\ UNCHANGED <<world, at, hooks, closing, conn, hub, log, bpos, bc, out, wire, fate>>

WheelSend(c) ==
    /\ c \in wheel.to /\ out["wheel"].c = None
    /\ wheel' = [wheel EXCEPT !.to = @ \ {c}]
    /\ out' = IF sub[c].closed THEN out ELSE [out EXCEPT !["wheel"] = [c |-> c, frame |-> Keepalive, then |-> <<>>]]
    /\ UNCHANGED <<world, at, hooks, closing, conn, sub, hub, log, bpos, bc, wire, fate>>

\* Bug: the subscribers are moved, and keep the number of their old bucket.
movedBug(old, c, i, n) == old[c].bucket

moved(old, c, i, n) == ((i - 1) % n) + 1

Reconfigure ==
    LET n == wheelShape(conf.buckets)
        members == SetToSeq(UNION {wheel.ring[i] : i \in DOMAIN wheel.ring})
    IN  IF n = Len(wheel.ring) THEN UNCHANGED <<wheel, sub>>
        ELSE /\ wheel' = [wheel EXCEPT !.hand = 1,
                            !.ring = [b \in 1..n |-> {members[i] : i \in {j \in DOMAIN members : ((j - 1) % n) + 1 = b}}]]
             /\ sub' = [c \in Conns |-> IF \E i \in DOMAIN members : members[i] = c
                                        THEN [sub[c] EXCEPT !.quiet = 0,
                                                !.bucket = moved(sub, c, CHOOSE i \in DOMAIN members : members[i] = c, n)]
                                        ELSE sub[c]]

\* Every stream of a tenant no longer served is told to end.
Prune ==
    IF conf.serving = "served" THEN UNCHANGED sub
    ELSE LET all == UNION {hub[r].subs : r \in Roles}
         IN  sub' = [c \in Conns |-> IF c \in all THEN [sub[c] EXCEPT !.evicted = TRUE] ELSE sub[c]]

PruneHook ==
    /\ hooks # <<>> /\ Head(hooks) = "prune"
    /\ Prune
    /\ hooks' = Tail(hooks)
    /\ UNCHANGED <<world, at, closing, conn, hub, log, bpos, bc, out, wheel, wire, fate>>

\* keepalives.reconcile: made, reshaped, or stopped once its loop has returned.
KeepaliveHook ==
    /\ hooks # <<>> /\ Head(hooks) = "wheel"
    /\ IF conf.serving = "served"
       THEN IF wheel.up THEN Reconfigure ELSE wheel' = WheelFor /\ UNCHANGED sub
       ELSE /\ IF wheel.up
               THEN /\ wheel.to = {} /\ out["wheel"].c = None
                    /\ wheel' = [NewWheel(wheel.id + 1, 1) EXCEPT !.up = FALSE]
               ELSE UNCHANGED wheel
            /\ UNCHANGED sub
    /\ hooks' = Tail(hooks)
    /\ UNCHANGED <<world, at, closing, conn, hub, log, bpos, bc, out, wire, fate>>

StreamStep(c) ==
    \/ SubscribeSchema(c) \/ HubAdd(c) \/ CheckServed(c) \/ ReplayNext(c) \/ ReplayEnd(c) \/ ReplayFails(c)
    \/ WheelAdd(c) \/ LoopWrite(c) \/ LoopEnd(c) \/ WheelRemove(c) \/ HubRemove(c) \/ Close(c) \/ Discard(c)
    \/ ClientGone(c) \/ BroadcastTo(c) \/ WheelSend(c)

HubStep ==
    \/ Publish \/ Broadcast \/ BroadcastRole \/ BroadcastEnd \/ Tick \/ PruneHook \/ KeepaliveHook \/ Shutdown
    \/ \E s \in Senders : SendPut(s) \/ SendNext(s)

StreamInit ==
    /\ at = 1 /\ hooks = <<>> /\ closing = FALSE
    /\ sub = [c \in Conns |-> NoSub]
    /\ hub = [r \in Roles |-> [subs |-> {}, gen |-> 0]]
    /\ log = <<>> /\ bpos = 0 /\ bc = Idle
    /\ out = [s \in Senders |-> NoSend]
    /\ wheel = [NewWheel(1, world.confs[1].buckets) EXCEPT !.up = world.confs[1].serving = "served"]
    /\ wire = [c \in Conns |-> <<>>] /\ fate = [c \in Conns |-> {}]

-----------------------------------------------------------------------------

Streaming == {"served", "replay", "wheel", "loop", "leaveWheel", "leaveHub"}

\* What a client is sent, a query of its role and claims would return: the
\* columns are ones the role may read, and a row that the table could store
\* is one the row filter's WHERE clause admits, under the settings the frame
\* was made under (Hub.Broadcast, ReplayProjector, RowVisible).
StreamWithinQuery ==
    \A c \in Conns : \A i \in DOMAIN wire[c] :
        LET f == wire[c][i]
            rp == Evaluate(world.confs[f.pol].policy, conn[c].role, "t", "select", conn[c].claims)
            row == RowOf(log[f.ev])
            types == [d \in ColumnSet(world.table) |-> Lookup(world.table, d).type]
            known == \A k \in DOMAIN world.confs : world.confs[k].schema # <<>>
        IN  f.ev > 0 =>
                /\ \A k \in DOMAIN f.cols : IsColumnAllowed(rp, f.cols[k], FALSE)
                /\ (\A d \in DOMAIN row : d \in DOMAIN types /\ Storable(row[d], types[d]))
                       => WhereReturns(rp.select.where, row, types, known)

\* A client reads each row under the columns it was last told: a row is never
\* preceded by another layout's announcement, whatever was dropped from its
\* queue in between (deliver; a stream that fills a gap is excepted, its two
\* sequences are announced apart).
Labelled ==
    \A c \in Conns : world.req[c].since = 0 =>
        \A i \in DOMAIN wire[c] :
            LET told == {k \in 1..(i - 1) : wire[c][k].kind = "schema"}
            IN  wire[c][i].ev > 0 => told # {} /\ wire[c][MaxOf(told)].cols = wire[c][i].cols

\* Every row that a stream asked for and every row since its registration is
\* written, waiting in its queue, or accounted for as dropped or not for it:
\* none falls between the replay and the live feed, whose rows begin before the
\* replay has ended.  A replay that fails leaves out the rows it had not come to
\* before the registration, and those alone; the server logs that and the
\* client is not told.  Nothing is left in the queue of a closed stream
\* (StreamHandler.Handle, replay, Hub.Add, Subscriber.Close).
NoSilentGap ==
    \A c \in Conns :
        LET seen == {wire[c][i].ev : i \in DOMAIN wire[c]} \cup fate[c]
            waiting == {sub[c].queue[i].ev : i \in DOMAIN sub[c].queue}
            since == world.req[c].since
        IN  /\ conn[c].pc = "loop" /\ ~Cancelled(c) =>
                   \A n \in (IF since > 0 THEN since ELSE sub[c].from)..bpos :
                       n \in seen \cup waiting \cup sub[c].missed \/ bc.ev = n
            /\ conn[c].pc = "done" /\ out["hub"].c # c /\ out["wheel"].c # c => sub[c].queue = <<>>

\* Once the hooks of a reload that drops the tenant have run, no stream of it
\* goes on: it was told to end, or it has yet to look (Hub.Prune, Served).
UnservedEnds ==
    conf.serving # "served" /\ hooks = <<>> =>
        \A c \in Conns : conn[c].pc \in {"replay", "wheel", "loop"} => sub[c].evicted

\* A stream is in the bucket it will be removed from and in no other, so none
\* is left in the wheel; none that goes on is without its keepalive, or waits
\* more than a turn for it (keepalives.For, reconcile, Heartbeater.Reconfigure,
\* Add, Remove).
WheelTurns ==
    \A c \in Conns :
        LET held == {i \in DOMAIN wheel.ring : c \in wheel.ring[i]}
            joined == conn[c].pc \in {"loop", "leaveWheel"} /\ sub[c].wheel = wheel.id
        IN  /\ held = IF joined THEN {sub[c].bucket} ELSE {}
            /\ held # {} => sub[c].quiet < Len(wheel.ring)
            /\ conn[c].pc = "loop" /\ held = {} => sub[c].evicted
=============================================================================
