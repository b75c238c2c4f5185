---------------------------- MODULE GatewayProofs ----------------------------
(***************************************************************************)
(* Proofs about the streams of Gateway and StreamHub, for every set of     *)
(* connections and roles, any scenes, settings and rows, and whatever the  *)
(* other requests do beside them.                                          *)
(*                                                                         *)
(* IInv is one invariant for each stream, and two for the frames on their  *)
(* way and the wheel:                                                      *)
(*   - InHub, Known, Shut, Sought: who is registered, may be sent to, is   *)
(*     closed, replays, by where its handler is;                           *)
(*   - Goes: a stream of a tenant no longer served was told to end, unless *)
(*     the hook that will tell it has yet to run.  Served is read after    *)
(*     Add, so a reload falls before the one or after the other;           *)
(*   - InWheel: the one bucket that holds a stream is the one it will be   *)
(*     taken out of, and how long its keepalive has been away is bounded   *)
(*     by the hand's distance to it;                                       *)
(*   - NoGap: of each row since a stream's registration, it has had it or  *)
(*     the Broadcast under way still owes it; of each row before that from *)
(*     the one it asked for, it has had it when the replay has passed it,  *)
(*     or the replay failed and missed it;                                 *)
(*   - Tells: what the wire has announced, then what the queue will,       *)
(*     is what lastSchema says, whatever was dropped between;              *)
(*   - OutFrames: a row on its way goes under lastSchema, or right after   *)
(*     its announcement;                                                   *)
(*   - WheelServes: between reloads the wheel turns for a served tenant    *)
(*     alone.                                                              *)
(* Frames, records and rows are known by their shape only (Shape): what a  *)
(* policy or a query makes of a row is left open.                          *)
(***************************************************************************)
EXTENDS Gateway, FiniteSetTheorems, TLAPS

-----------------------------------------------------------------------------
(* Sequences of anything.                                                  *)

IsSeq(s) == \E S : s \in Seq(S)

\* A sequence is a function on its positions.
LEMMA SeqIs == ASSUME NEW s, IsSeq(s) PROVE Len(s) \in Nat /\ DOMAIN s = 1..Len(s)
BY DEF IsSeq

\* The empty sequence.
LEMMA EmptyIs == IsSeq(<<>>) /\ Len(<<>>) = 0
BY DEF IsSeq

\* The sequence of one.
LEMMA OneIs == ASSUME NEW e PROVE IsSeq(<<e>>) /\ Len(<<e>>) = 1 /\ <<e>>[1] = e
<1>1. <<e>> \in Seq({e})
  OBVIOUS
<1> QED BY <1>1 DEF IsSeq

\* What Append makes of a sequence.
LEMMA AppendIs ==
    ASSUME NEW s, IsSeq(s), NEW e
    PROVE  /\ IsSeq(Append(s, e)) /\ Len(Append(s, e)) = Len(s) + 1
           /\ \A i \in 1..Len(s) : Append(s, e)[i] = s[i]
           /\ Append(s, e)[Len(s) + 1] = e
<1>1. PICK S : s \in Seq(S)
  BY DEF IsSeq
<1>2. s \in Seq(S \cup {e}) /\ e \in S \cup {e}
  BY <1>1
<1>3. Append(s, e) \in Seq(S \cup {e})
  BY <1>2
<1> QED BY <1>2, <1>3 DEF IsSeq

\* What Tail makes of one that is not empty.
LEMMA TailIs ==
    ASSUME NEW s, IsSeq(s), s # <<>>
    PROVE  /\ IsSeq(Tail(s)) /\ Len(Tail(s)) = Len(s) - 1 /\ Len(s) > 0
           /\ \A i \in 1..(Len(s) - 1) : Tail(s)[i] = s[i + 1]
           /\ Head(s) = s[1]
<1>1. PICK S : s \in Seq(S)
  BY DEF IsSeq
<1> QED BY <1>1 DEF IsSeq

\* Two sequences put together.
LEMMA JoinIs ==
    ASSUME NEW s, IsSeq(s), NEW t, IsSeq(t)
    PROVE  /\ IsSeq(s \o t) /\ Len(s \o t) = Len(s) + Len(t)
           /\ \A i \in 1..Len(s) : (s \o t)[i] = s[i]
           /\ \A i \in 1..Len(t) : (s \o t)[Len(s) + i] = t[i]
<1>1. PICK S : s \in Seq(S)
  BY DEF IsSeq
<1>2. PICK T : t \in Seq(T)
  BY DEF IsSeq
<1>3. s \in Seq(S \cup T) /\ t \in Seq(S \cup T)
  BY <1>1, <1>2
<1>4. s \o t \in Seq(S \cup T)
  BY <1>3
<1> QED BY <1>3, <1>4 DEF IsSeq

\* A function on 1..n is a sequence.
LEMMA FunIs ==
    ASSUME NEW n \in Nat, NEW f, f = [i \in 1..n |-> f[i]]
    PROVE  IsSeq(f) /\ Len(f) = n
<1>1. f \in [1..n -> {f[i] : i \in 1..n}]
  OBVIOUS
<1>2. f \in Seq({f[i] : i \in 1..n})
  BY <1>1
<1>3. Len(f) \in Nat /\ DOMAIN f = 1..Len(f)
  BY <1>2
<1>4. 1..n = 1..Len(f)
  BY <1>1, <1>3
<1>5. n = Len(f)
  BY <1>3, <1>4
<1> QED BY <1>2, <1>5 DEF IsSeq

-----------------------------------------------------------------------------
(* The shape of the state.                                                 *)

RequestPcs == RequestKinds \cup {"tenant", "auth", "lookup", "leading", "following", "write", "answered"}
Ended == {"close", "discard", "done"}
Pcs == RequestPcs \cup {"subscribe", "add"} \cup Streaming \cup Ended

ConnFields == {"pc", "role", "claims", "err", "operator", "gone", "wiring", "pol", "stmt", "answer"}
ConnRec(x) == DOMAIN x = ConnFields /\ x.pc \in Pcs /\ x.role \in Roles /\ x.gone \in BOOLEAN

SubFields == {"queue", "cap", "closed", "evicted", "lastSchema", "replaySig", "specs", "rpos", "from", "missed", "wheel", "bucket", "quiet"}
SubRec(x) ==
    /\ DOMAIN x = SubFields
    /\ IsSeq(x.queue) /\ x.closed \in BOOLEAN /\ x.evicted \in BOOLEAN
    /\ x.rpos \in Nat /\ x.from \in Nat /\ x.wheel \in Nat /\ x.bucket \in Nat /\ x.quiet \in Nat

HubRec(x) == DOMAIN x = {"subs", "gen"} /\ x.subs \subseteq Conns /\ x.gen \in Nat

BcRec(x) == DOMAIN x = {"ev", "pol", "specs", "todo", "role", "to"} /\ x.ev \in Nat /\ x.to \subseteq Conns /\ x.todo \subseteq Roles \X Nat

OutRec(x) == DOMAIN x = {"c", "frame", "then"} /\ x.c \in Conns \cup {None} /\ IsSeq(x.then)

WheelRec(x) ==
    /\ DOMAIN x = {"up", "id", "ring", "hand", "to"}
    /\ x.up \in BOOLEAN /\ x.id \in Nat \ {0} /\ x.to \subseteq Conns
    /\ IsSeq(x.ring) /\ x.hand \in 1..Len(x.ring)
    /\ \A i \in 1..Len(x.ring) : x.ring[i] \subseteq Conns

HookLists == {<<>>, <<"prune", "wheel", "auth">>, <<"wheel", "auth">>, <<"auth">>}

CaseShape == Case(world) /\ at \in DOMAIN world.confs /\ hooks \in HookLists
ConnShape == DOMAIN conn = Conns /\ \A c \in Conns : ConnRec(conn[c])
SubShape == DOMAIN sub = Conns /\ \A c \in Conns : SubRec(sub[c])
HubShape == DOMAIN hub = Roles /\ \A r \in Roles : HubRec(hub[r])
LogShape == IsSeq(log) /\ bpos \in 0..Len(log)
BcShape == BcRec(bc)
OutShape == DOMAIN out = Senders /\ \A s \in Senders : OutRec(out[s])
WheelShape == WheelRec(wheel)
WireShape == DOMAIN wire = Conns /\ DOMAIN fate = Conns /\ \A c \in Conns : IsSeq(wire[c])
VerifierShape ==
    /\ DOMAIN verifier = {"none", "wiring", "ready"}
    /\ verifier.none \in BOOLEAN
    /\ verifier.none \/ \E i \in DOMAIN world.confs : verifier.wiring = world.confs[i].wiring

Shape ==
    /\ CaseShape /\ ConnShape /\ SubShape /\ HubShape /\ LogShape
    /\ BcShape /\ OutShape /\ WheelShape /\ WireShape /\ VerifierShape

-----------------------------------------------------------------------------
(* What requests do: nothing to the streams but for the log.               *)

\* A connection's request goes on, and may come to be a stream's.
Asks(d) ==
    \/ conn'[d] = conn[d]
    \/ /\ conn[d].pc \in RequestPcs /\ conn'[d].pc \in RequestPcs \cup {"subscribe"}
       /\ conn'[d].gone = conn[d].gone

\* The role the middleware gives a request is one of the hub's.
LEMMA MiddlewareRole ==
    ASSUME CaseShape, VerifierShape, NEW c \in Conns
    PROVE  middleware(world.req[c], verifier, conf.policy).role \in Roles
<1> DEFINE req == world.req[c]
<1>1. \A i \in DOMAIN world.confs : RolesOf(req, world.confs[i]) \subseteq Roles
  BY DEF CaseShape, Case
<1>2. at \in DOMAIN world.confs
  BY DEF CaseShape
<1>3. "" \in Roles /\ AdminRole(conf.policy) \in Roles
  BY <1>1, <1>2 DEF RolesOf, conf
<1>4. ~verifier.none => extractClaim(req.token.claims, verifier.wiring.roleClaim) \in Roles
  BY <1>1 DEF RolesOf, VerifierShape
<1>5. \A e : Anonymous(e).role = "" /\ [Anonymous(e) EXCEPT !.role = AdminRole(conf.policy), !.operator = TRUE].role = AdminRole(conf.policy)
  BY DEF Anonymous
<1>6. CASE req.operatorKey
  BY <1>6, <1>3, <1>5 DEF middleware
<1>7. CASE ~req.operatorKey /\ (~req.token.present \/ verifier.none \/ ~ValidMethod(verifier.wiring, req.token) \/ tokenError(verifier, req.token) # "")
  BY <1>7, <1>3, <1>5 DEF middleware
<1>8. CASE ~req.operatorKey /\ ~(~req.token.present \/ verifier.none \/ ~ValidMethod(verifier.wiring, req.token) \/ tokenError(verifier, req.token) # "")
  BY <1>8, <1>4 DEF middleware
<1> QED BY <1>6, <1>7, <1>8

\* A request that is answered is no stream.
LEMMA AnswerAsks ==
    ASSUME ConnShape, NEW c \in Conns, conn[c].pc \in RequestPcs, NEW a, Answer(c, a)
    PROVE  ConnShape' /\ \A d \in Conns : Asks(d)
<1>1. "answered" \in RequestPcs
  BY DEF RequestPcs
<1> QED BY <1>1 DEF Answer, ConnShape, ConnRec, ConnFields, Asks, Pcs

\* A request that goes on is no stream.
LEMMA GotoAsks ==
    ASSUME ConnShape, NEW c \in Conns, conn[c].pc \in RequestPcs, NEW p \in RequestPcs, Goto(c, p)
    PROVE  ConnShape' /\ \A d \in Conns : Asks(d)
BY DEF Goto, ConnShape, ConnRec, ConnFields, Asks, Pcs

\* ... nor one whose statement is built.
LEMMA StmtAsks ==
    ASSUME ConnShape, NEW c \in Conns, conn[c].pc \in RequestPcs, NEW p \in RequestPcs, NEW stmt, NEW pol,
           conn' = [conn EXCEPT ![c].pc = p, ![c].stmt = stmt, ![c].pol = pol]
    PROVE  ConnShape' /\ \A d \in Conns : Asks(d)
BY DEF ConnShape, ConnRec, ConnFields, Asks, Pcs

\* A connection that is authenticated goes on under the role it was given.
LEMMA IdentityAsks ==
    ASSUME ConnShape, NEW c \in Conns, conn[c].pc \in RequestPcs, NEW p \in RequestPcs \cup {"subscribe"}, NEW id,
           id.role \in Roles, NEW w,
           conn' = [conn EXCEPT ![c].pc = p, ![c].role = id.role, ![c].claims = id.claims, ![c].err = id.err,
                                ![c].operator = id.operator, ![c].wiring = w]
    PROVE  ConnShape' /\ \A d \in Conns : Asks(d)
BY DEF ConnShape, ConnRec, ConnFields, Asks, Pcs

\* Those of a set are answered together.
LEMMA CrewAsks ==
    ASSUME ConnShape, NEW crew, \A d \in crew : conn[d].pc \in RequestPcs, NEW a,
           conn' = [d \in Conns |-> IF d \in crew THEN [conn[d] EXCEPT !.pc = "answered", !.answer = a] ELSE conn[d]]
    PROVE  ConnShape' /\ \A d \in Conns : Asks(d)
<1>1. "answered" \in RequestPcs
  BY DEF RequestPcs
<1> QED BY <1>1 DEF ConnShape, ConnRec, ConnFields, Asks, Pcs

\* What a request's step leaves of the streams.
Beside ==
    /\ UNCHANGED <<world, at, hooks, closing, sub, hub, bpos, bc, out, wheel, wire, fate, verifier>>
    /\ log' = log \/ \E e : log' = Append(log, e)
    /\ ConnShape' /\ \A d \in Conns : Asks(d)

\* Every step of a request leaves the streams alone, and adds at most a row.
LEMMA RequestBeside ==
    ASSUME Shape, NEW c \in Conns, RequestStep(c)
    PROVE  Beside
<1> USE DEF Shape
<1> DEFINE R == {"tenant", "auth", "ops", "query", "pipe", "lookup", "leading", "following", "write", "insert", "answered"}
<1>0. R \subseteq RequestPcs
  BY DEF RequestPcs, RequestKinds
<1>1. CASE TenantMW(c)
  <2>1. conn[c].pc \in RequestPcs /\ ((\E a : Answer(c, a)) \/ Goto(c, "auth"))
    BY <1>1, <1>0 DEF TenantMW
  <2>2. "auth" \in RequestPcs
    BY <1>0
  <2>3. ConnShape' /\ \A d \in Conns : Asks(d)
    BY <2>1, <2>2, AnswerAsks, GotoAsks
  <2> QED BY <1>1, <2>3 DEF TenantMW, restVars, streamVars, Beside
<1>2. CASE AuthMW(c)
  <2> DEFINE id == middleware(world.req[c], verifier, conf.policy)
             p == IF world.req[c].kind = "stream" THEN "subscribe" ELSE world.req[c].kind
  <2>1. conn[c].pc \in RequestPcs
    BY <1>2, <1>0 DEF AuthMW
  <2>2. id.role \in Roles
    BY MiddlewareRole
  <2>3. p \in RequestPcs \cup {"subscribe"}
    <3>1. world.req[c].kind \in RequestKinds
      BY DEF CaseShape, Case
    <3> QED BY <3>1 DEF RequestPcs
  <2>4. \/ \E a : Answer(c, a)
        \/ conn' = [conn EXCEPT ![c].pc = p, ![c].role = id.role, ![c].claims = id.claims, ![c].err = id.err,
                                ![c].operator = id.operator, ![c].wiring = verifier.wiring]
    BY <1>2 DEF AuthMW
  <2>5. UNCHANGED restVars
    BY <1>2 DEF AuthMW
  <2> HIDE DEF id, p
  <2>6. ConnShape' /\ \A d \in Conns : Asks(d)
    <3>1. CASE \E a : Answer(c, a)
      BY <2>1, <3>1, AnswerAsks
    <3>2. CASE conn' = [conn EXCEPT ![c].pc = p, ![c].role = id.role, ![c].claims = id.claims, ![c].err = id.err,
                                    ![c].operator = id.operator, ![c].wiring = verifier.wiring]
      <4> DEFINE w == verifier.wiring
      <4>1. conn' = [conn EXCEPT ![c].pc = p, ![c].role = id.role, ![c].claims = id.claims, ![c].err = id.err,
                                 ![c].operator = id.operator, ![c].wiring = w]
        BY <3>2
      <4> HIDE DEF w
      <4>2. ConnShape
        OBVIOUS
      <4> QED BY <2>1, <2>2, <2>3, <4>1, <4>2, IdentityAsks
    <3> QED BY <2>4, <3>1, <3>2
  <2> QED BY <2>5, <2>6 DEF restVars, streamVars, Beside
<1>3. CASE RequireAdmin(c)
  <2>1. conn[c].pc \in RequestPcs /\ (\E a : Answer(c, a))
    BY <1>3, <1>0 DEF RequireAdmin
  <2>2. ConnShape' /\ \A d \in Conns : Asks(d)
    BY <2>1, AnswerAsks
  <2> QED BY <1>3, <2>2 DEF RequireAdmin, restVars, streamVars, Beside
<1>4. CASE StructuredQuery(c)
  <2>1. conn[c].pc \in RequestPcs /\ UNCHANGED restVars
    BY <1>4, <1>0 DEF StructuredQuery
  <2>2. \/ \E a : Answer(c, a)
        \/ \E stmt : conn' = [conn EXCEPT ![c].pc = "lookup", ![c].stmt = stmt, ![c].pol = at]
    BY <1>4 DEF StructuredQuery
  <2>3. "lookup" \in RequestPcs
    BY <1>0
  <2>4. ConnShape' /\ \A d \in Conns : Asks(d)
    BY <2>1, <2>2, <2>3, AnswerAsks, StmtAsks
  <2> QED BY <2>1, <2>4 DEF restVars, streamVars, Beside
<1>5. CASE ExecutePipe(c)
  <2>1. conn[c].pc \in RequestPcs /\ UNCHANGED restVars
    BY <1>5, <1>0 DEF ExecutePipe
  <2>2. \/ \E a : Answer(c, a)
        \/ \E p \in {"write", "lookup"} : \E stmt : conn' = [conn EXCEPT ![c].pc = p, ![c].stmt = stmt, ![c].pol = at]
    <3> DEFINE p == IF conf.pipe.write THEN "write" ELSE "lookup"
    <3>1. \/ \E a : Answer(c, a)
          \/ \E stmt : conn' = [conn EXCEPT ![c].pc = p, ![c].stmt = stmt, ![c].pol = at]
      BY <1>5 DEF ExecutePipe
    <3>2. p \in {"write", "lookup"}
      OBVIOUS
    <3> HIDE DEF p
    <3> QED BY <3>1, <3>2
  <2>3. {"write", "lookup"} \subseteq RequestPcs
    BY <1>0
  <2>4. ConnShape' /\ \A d \in Conns : Asks(d)
    BY <2>1, <2>2, <2>3, AnswerAsks, StmtAsks
  <2> QED BY <2>1, <2>4 DEF restVars, streamVars, Beside
<1>6. CASE CacheLookup(c)
  <2>1. conn[c].pc \in RequestPcs /\ UNCHANGED restVars
    BY <1>6, <1>0 DEF CacheLookup
  <2>2. (\E a : Answer(c, a)) \/ \E p \in {"following", "leading"} : Goto(c, p)
    <3> DEFINE p == IF \E d \in Conns : conn[d].pc = "leading" /\ queryCacheKey(conn[d].stmt) = queryCacheKey(conn[c].stmt)
                    THEN "following" ELSE "leading"
    <3>1. (\E a : Answer(c, a)) \/ Goto(c, p)
      BY <1>6 DEF CacheLookup
    <3>2. p \in {"following", "leading"}
      OBVIOUS
    <3> HIDE DEF p
    <3> QED BY <3>1, <3>2
  <2>3. {"following", "leading"} \subseteq RequestPcs
    BY <1>0
  <2>4. ConnShape' /\ \A d \in Conns : Asks(d)
    BY <2>1, <2>2, <2>3, AnswerAsks, GotoAsks
  <2> QED BY <2>1, <2>4 DEF restVars, streamVars, Beside
<1>7. CASE Land(c)
  <2> DEFINE crew == {d \in Conns : /\ conn[d].pc \in {"leading", "following"}
                                    /\ queryCacheKey(conn[d].stmt) = queryCacheKey(conn[c].stmt)}
  <2>1. UNCHANGED restVars
    BY <1>7 DEF Land
  <2>2. \E a : conn' = [d \in Conns |-> IF d \in crew THEN [conn[d] EXCEPT !.pc = "answered", !.answer = a] ELSE conn[d]]
    BY <1>7 DEF Land
  <2>3. \A d \in crew : conn[d].pc \in RequestPcs
    BY <1>0
  <2> HIDE DEF crew
  <2>4. ConnShape' /\ \A d \in Conns : Asks(d)
    BY <2>2, <2>3, CrewAsks
  <2> QED BY <2>1, <2>4 DEF restVars, streamVars, Beside
<1>8. CASE ExecuteWrite(c)
  <2>1. conn[c].pc \in RequestPcs /\ (\E a : Answer(c, a))
    BY <1>8, <1>0 DEF ExecuteWrite
  <2>2. ConnShape' /\ \A d \in Conns : Asks(d)
    BY <2>1, AnswerAsks
  <2> QED BY <1>8, <2>2 DEF ExecuteWrite, restVars, streamVars, Beside
<1>9. CASE Ingest(c)
  <2>1. conn[c].pc \in RequestPcs
    BY <1>9, <1>0 DEF Ingest
  <2>2. UNCHANGED <<world, at, hooks, closing, sub, hub, bpos, bc, out, wheel, wire, fate, verifier>>
    BY <1>9 DEF Ingest
  <2>3. log' = log \/ \E e : log' = Append(log, e)
    BY <1>9 DEF Ingest
  <2>4. \/ \E a : Answer(c, a)
        \/ \E a, pol : conn' = [conn EXCEPT ![c].pc = "answered", ![c].answer = a, ![c].pol = pol]
    <3>1. PICK rp, rec :
            \/ conn' = [conn EXCEPT ![c].pc = "answered", ![c].answer = Reply(200, "accepted", <<RowOf(rec)>>), ![c].pol = at]
            \/ Answer(c, IF conf.schema = <<>> THEN [Refuse(503) EXCEPT !.retry = TRUE]
                         ELSE IF ~rp.allowed THEN writeAuthzDenied(c) ELSE Refuse(rec.status))
      BY <1>9 DEF Ingest
    <3> QED BY <3>1
  <2>5. ASSUME NEW a, NEW pol, conn' = [conn EXCEPT ![c].pc = "answered", ![c].answer = a, ![c].pol = pol]
        PROVE  ConnShape' /\ \A d \in Conns : Asks(d)
    <3>1. "answered" \in RequestPcs
      BY <1>0
    <3> QED BY <2>1, <2>5, <3>1 DEF ConnShape, ConnRec, ConnFields, Asks, Pcs
  <2>6. ConnShape' /\ \A d \in Conns : Asks(d)
    BY <2>1, <2>4, <2>5, AnswerAsks
  <2> QED BY <2>2, <2>3, <2>6 DEF Beside
<1> QED BY <1>1, <1>2, <1>3, <1>4, <1>5, <1>6, <1>7, <1>8, <1>9 DEF RequestStep

-----------------------------------------------------------------------------
(* The invariants of the streams, each of one connection.                  *)

Live == {"served", "replay", "wheel", "loop"}
Feeds == {"add", "served", "wheel", "loop"}

\* A stream is in the hub's bucket of its role, and nothing else is.
InHub(c) ==
    /\ conn[c].pc \in Streaming => c \in hub[conn[c].role].subs
    /\ \A r \in Roles : c \in hub[r].subs => conn[c].pc \in Streaming /\ conn[c].role = r

\* Only one that was in the hub is being sent to, and held by the wheel; a client
\* is told nothing before its stream begins.
Known(c) ==
    \/ conn[c].pc \in Streaming \cup Ended
    \/ /\ c \notin bc.to /\ c \notin wheel.to /\ \A s \in Senders : out[s].c # c
       /\ \A i \in 1..Len(wheel.ring) : c \notin wheel.ring[i]
       /\ conn[c].pc # "add" => wire[c] = <<>>

\* A queue is let go of once its stream is closed.
Shut(c) ==
    /\ sub[c].closed <=> conn[c].pc \in {"discard", "done"}
    /\ conn[c].pc = "done" => sub[c].queue = <<>>
    /\ \A i \in 1..Len(sub[c].queue) : sub[c].queue[i].kind = "keepalive" => sub[c].queue[i].ev = 0

\* A replay is of a stream that asked for one.
Sought(c) ==
    /\ world.req[c].since = 0 => sub[c].rpos = 0
    /\ conn[c].pc = "replay" => sub[c].rpos > 0
    /\ conn[c].pc \in {"add", "served"} => sub[c].rpos = world.req[c].since
    /\ conn[c].pc \in Live => sub[c].from > 0

\* The frames on their way to a queue.
RowFrame(f) == f.ev > 0 /\ f.kind = "event"
OutFrames ==
    /\ out["wheel"].c # None => out["wheel"].frame = Keepalive
    /\ out["hub"].c # None =>
         LET f == out["hub"].frame
             t == out["hub"].then
             last == sub[out["hub"].c].lastSchema
         IN  /\ bc.ev > 0
             /\ \/ /\ f.kind = "schema" /\ f.ev = 0
                   /\ Len(t) = 1 /\ RowFrame(t[1]) /\ t[1].ev = bc.ev /\ t[1].cols = f.cols
                \/ f.kind = "none" /\ Len(t) = 1 /\ RowFrame(t[1]) /\ t[1].ev = bc.ev /\ last = <<t[1].cols>>
                \/ RowFrame(f) /\ f.ev = bc.ev /\ t = <<>> /\ last = <<f.cols>>
    /\ bc.ev = 0 => bc.todo = {} /\ bc.to = {}

\* A stream that goes on is of a served tenant, or was told to end, or will be.
Goes(c) == conn[c].pc \in {"replay", "wheel", "loop"} =>
    sub[c].evicted \/ conf.serving = "served" \/ (Len(hooks) = 3 /\ wheel.up)

WheelServes == hooks \in {<<>>, <<"auth">>} => (wheel.up <=> conf.serving = "served")

\* The ticks until a bucket is reached.
Dist(hand, b, n) == IF b >= hand THEN b - hand ELSE (b - hand) + n

Joined(c) == conn[c].pc \in {"loop", "leaveWheel"} /\ sub[c].wheel = wheel.id

InWheel(c) ==
    /\ sub[c].wheel <= wheel.id /\ (~wheel.up => sub[c].wheel < wheel.id)
    /\ \A i \in 1..Len(wheel.ring) : c \in wheel.ring[i] <=> Joined(c) /\ i = sub[c].bucket
    /\ Joined(c) => /\ sub[c].bucket \in 1..Len(wheel.ring)
                    /\ sub[c].quiet + Dist(wheel.hand, sub[c].bucket, Len(wheel.ring)) < Len(wheel.ring)
    /\ conn[c].pc = "loop" /\ ~Joined(c) => sub[c].evicted

\* What of the feed a stream has had: written, queued, or counted for it.
Had(c, n) ==
    \/ \E i \in 1..Len(wire[c]) : wire[c][i].ev = n
    \/ n \in fate[c]
    \/ \E i \in 1..Len(sub[c].queue) : sub[c].queue[i].ev = n

\* What it will have of the Broadcast under way.
Coming(c, n) ==
    /\ bc.ev = n
    /\ \/ <<conn[c].role, hub[conn[c].role].gen>> \in bc.todo
       \/ c \in bc.to
       \/ out["hub"].c = c

NoGap(c) ==
    /\ conn[c].pc \in {"served", "replay"} => sub[c].from <= bpos + 1
    /\ conn[c].pc = "replay" => \A n \in world.req[c].since..(sub[c].rpos - 1) : Had(c, n)
    /\ conn[c].pc \in {"wheel", "loop"} /\ ~Cancelled(c) /\ world.req[c].since > 0 =>
          \A n \in world.req[c].since..(sub[c].from - 1) : Had(c, n) \/ n \in sub[c].missed
    /\ conn[c].pc \in Live /\ ~Cancelled(c) => \A n \in sub[c].from..bpos : Had(c, n) \/ Coming(c, n)

\* What the first n frames of a sequence last told, after what T told.
Announced(q, n, T, U) ==
    \/ U = T /\ \A k \in 1..n : q[k].kind # "schema"
    \/ \E k \in 1..n : /\ q[k].kind = "schema" /\ U = <<q[k].cols>>
                        /\ \A m \in (k + 1)..n : q[m].kind # "schema"

\* Each row comes under its own columns.
UnderOwn(q, T) == \A i \in 1..Len(q) : q[i].ev > 0 => Announced(q, i - 1, T, <<q[i].cols>>)

Tells(c) == world.req[c].since = 0 =>
    /\ UnderOwn(wire[c], <<>>)
    /\ conn[c].pc \in Feeds =>
         \E T : /\ Announced(wire[c], Len(wire[c]), <<>>, T)
               /\ UnderOwn(sub[c].queue, T)
               /\ Announced(sub[c].queue, Len(sub[c].queue), T, sub[c].lastSchema)

Streams(c) ==
    InHub(c) /\ Known(c) /\ Shut(c) /\ Sought(c) /\ Goes(c) /\ InWheel(c) /\ NoGap(c) /\ Tells(c)

IInv == Shape /\ OutFrames /\ WheelServes /\ \A c \in Conns : Streams(c)

-----------------------------------------------------------------------------
(* What the other steps do, field by field.                                *)

\* What keeps the shape of the parts a step leaves alone.
LEMMA Kept ==
    /\ UNCHANGED <<world, at, hooks>> /\ CaseShape => CaseShape'
    /\ UNCHANGED conn /\ ConnShape => ConnShape'
    /\ UNCHANGED sub /\ SubShape => SubShape'
    /\ UNCHANGED hub /\ HubShape => HubShape'
    /\ UNCHANGED <<log, bpos>> /\ LogShape => LogShape'
    /\ UNCHANGED bc /\ BcShape => BcShape'
    /\ UNCHANGED out /\ OutShape => OutShape'
    /\ UNCHANGED wheel /\ WheelShape => WheelShape'
    /\ UNCHANGED <<wire, fate>> /\ WireShape => WireShape'
    /\ UNCHANGED <<world, verifier>> /\ VerifierShape => VerifierShape'
<1>1. UNCHANGED <<world, at, hooks>> /\ CaseShape => CaseShape'
  BY DEF CaseShape
<1>2. UNCHANGED conn /\ ConnShape => ConnShape'
  BY DEF ConnShape
<1>3. UNCHANGED sub /\ SubShape => SubShape'
  BY DEF SubShape
<1>4. UNCHANGED hub /\ HubShape => HubShape'
  BY DEF HubShape
<1>5. UNCHANGED <<log, bpos>> /\ LogShape => LogShape'
  BY DEF LogShape
<1>6. UNCHANGED bc /\ BcShape => BcShape'
  BY DEF BcShape
<1>7. UNCHANGED out /\ OutShape => OutShape'
  BY DEF OutShape
<1>8. UNCHANGED wheel /\ WheelShape => WheelShape'
  BY DEF WheelShape
<1>9. UNCHANGED <<wire, fate>> /\ WireShape => WireShape'
  BY DEF WireShape
<1>10. UNCHANGED <<world, verifier>> /\ VerifierShape => VerifierShape'
  BY DEF VerifierShape
<1> QED BY <1>1, <1>2, <1>3, <1>4, <1>5, <1>6, <1>7, <1>8, <1>9, <1>10

\* One connection's handler goes on, and nothing else of any changes.
Moves(c, p) ==
    /\ conn'[c].pc = p /\ conn'[c].role = conn[c].role /\ conn'[c].gone = conn[c].gone
    /\ \A d \in Conns \ {c} : conn'[d] = conn[d]

\* A handler that goes on changes where it is, and no other.
LEMMA GotoMoves ==
    ASSUME ConnShape, NEW c \in Conns, NEW p \in Pcs, Goto(c, p)
    PROVE  ConnShape' /\ Moves(c, p)
BY DEF Goto, ConnShape, ConnRec, ConnFields, Moves

\* The place a stream has in the wheel, and how it stands.
SamePlace(x, y) ==
    /\ x.closed = y.closed /\ x.evicted = y.evicted /\ x.rpos = y.rpos /\ x.from = y.from /\ x.missed = y.missed
    /\ x.wheel = y.wheel /\ x.bucket = y.bucket /\ x.quiet = y.quiet

\* Every row of the frames dropped is counted.
LEMMA DroppedIs ==
    ASSUME WireShape, NEW c \in Conns, NEW frames, IsSeq(frames), Dropped(c, frames)
    PROVE  /\ DOMAIN fate' = Conns /\ fate[c] \subseteq fate'[c] /\ \A d \in Conns \ {c} : fate'[d] = fate[d]
           /\ \A i \in 1..Len(frames) : frames[i].ev # 0 => frames[i].ev \in fate'[c]
<1>1. DOMAIN frames = 1..Len(frames)
  BY SeqIs
<1>2. fate' = [fate EXCEPT ![c] = fate[c] \cup ({frames[i].ev : i \in DOMAIN frames} \ {0})]
  BY DEF Dropped
<1>3. DOMAIN fate = Conns
  BY DEF WireShape
<1>4. fate'[c] = fate[c] \cup ({frames[i].ev : i \in DOMAIN frames} \ {0})
  BY <1>2, <1>3
<1>5. \A d \in Conns \ {c} : fate'[d] = fate[d]
  BY <1>2, <1>3
<1> QED BY <1>1, <1>2, <1>3, <1>4, <1>5

PutDrops(s) ==
    LET c == out[s].c
        f == out[s].frame
    IN  /\ sub' = sub /\ out'[s] = NoSend
        /\ f.ev # 0 => f.ev \in fate'[c]
        /\ \A i \in 1..Len(out[s].then) : out[s].then[i].ev # 0 => out[s].then[i].ev \in fate'[c]

PutQueues(s) ==
    LET c == out[s].c
        f == out[s].frame
    IN  /\ DOMAIN sub' = Conns /\ SubRec(sub'[c]) /\ SamePlace(sub'[c], sub[c])
        /\ \A d \in Conns \ {c} : sub'[d] = sub[d]
        /\ sub'[c].lastSchema = IF f.kind = "schema" THEN <<f.cols>> ELSE sub[c].lastSchema
        /\ out'[s] = IF f.kind = "schema" THEN [out[s] EXCEPT !.frame = NoSend.frame] ELSE NoSend
        /\ \/ ~sub[c].closed /\ sub'[c].queue = Append(sub[c].queue, f)
           \/ /\ sub[c].closed /\ sub'[c].queue = <<>>
              /\ f.ev # 0 => f.ev \in fate'[c]
              /\ \A i \in 1..Len(sub[c].queue) : sub[c].queue[i].ev # 0 => sub[c].queue[i].ev \in fate'[c]

\* A frame is queued, or dropped; then is its row, after an announcement.
LEMMA SendPutDoes ==
    ASSUME Shape, NEW s \in Senders, SendPut(s), UNCHANGED verifier
    PROVE  /\ Shape'
           /\ UNCHANGED <<world, at, hooks, closing, conn, hub, log, bpos, bc, wheel, wire>>
           /\ out[s].c \in Conns /\ out[s].frame.kind # "none"
           /\ DOMAIN out' = Senders /\ \A t \in Senders \ {s} : out'[t] = out[t]
           /\ DOMAIN fate' = Conns /\ fate[out[s].c] \subseteq fate'[out[s].c]
           /\ \A d \in Conns \ {out[s].c} : fate'[d] = fate[d]
           /\ PutDrops(s) \/ PutQueues(s)
<1> DEFINE c == out[s].c
           f == out[s].frame
           t == out[s].then
<1> USE DEF Shape
<1>1. c \in Conns /\ f.kind # "none"
  BY DEF SendPut, OutShape, OutRec
<1>2. UNCHANGED <<world, at, hooks, closing, conn, hub, log, bpos, bc, wheel, wire>>
  BY DEF SendPut
<1>3. DOMAIN out = Senders /\ DOMAIN sub = Conns /\ IsSeq(sub[c].queue) /\ SubRec(sub[c])
  BY <1>1 DEF OutShape, SubShape, SubRec
<1>4. CASE Dropped(c, <<f>> \o t) /\ out' = [out EXCEPT ![s] = NoSend] /\ UNCHANGED sub
  <2>0. IsSeq(t)
    BY DEF OutShape, OutRec
  <2>1. IsSeq(<<f>> \o t) /\ Len(<<f>> \o t) = Len(t) + 1 /\ (<<f>> \o t)[1] = f /\ Len(t) \in Nat
        /\ \A i \in 1..Len(t) : (<<f>> \o t)[1 + i] = t[i]
    <3>1. IsSeq(<<f>>) /\ Len(<<f>>) = 1 /\ <<f>>[1] = f
      BY OneIs
    <3>2. Len(t) \in Nat
      BY <2>0, SeqIs
    <3> HIDE DEF f, t
    <3>3. IsSeq(t)
      BY <2>0
    <3> QED BY <3>1, <3>2, <3>3, JoinIs
  <2> DEFINE fs == <<f>> \o t
  <2>2. Dropped(c, fs) /\ IsSeq(fs)
    BY <1>4, <2>1
  <2> HIDE DEF fs, c
  <2>3. /\ DOMAIN fate' = Conns /\ fate[c] \subseteq fate'[c] /\ \A d \in Conns \ {c} : fate'[d] = fate[d]
        /\ \A i \in 1..Len(fs) : fs[i].ev # 0 => fs[i].ev \in fate'[c]
    BY <1>1, <2>2, DroppedIs
  <2> HIDE DEF f, t
  <2>4. f.ev # 0 => f.ev \in fate'[c]
    BY <2>1, <2>3 DEF fs
  <2>5. \A i \in 1..Len(t) : t[i].ev # 0 => t[i].ev \in fate'[c]
    <3>1. \A i \in 1..Len(t) : 1 + i \in 1..Len(fs)
      BY <2>1 DEF fs
    <3> QED BY <2>1, <2>3, <3>1 DEF fs
  <2>6. out'[s] = NoSend /\ DOMAIN out' = Senders /\ \A u \in Senders \ {s} : out'[u] = out[u]
    BY <1>3, <1>4
  <2>7. OutShape' /\ WireShape'
    BY <1>2, <2>3, <2>6, EmptyIs DEF OutShape, OutRec, NoSend, WireShape, c
  <2>8. Shape'
    BY <1>2, <1>4, <2>7, Kept
  <2> QED BY <1>1, <1>2, <1>4, <2>3, <2>4, <2>5, <2>6, <2>8 DEF PutDrops, c, f, t
<1>5. CASE /\ Dropped(c, IF sub[c].closed THEN Append(sub[c].queue, f) ELSE <<>>)
           /\ sub' = [sub EXCEPT ![c].queue = Queued(c, f), ![c].lastSchema = IF f.kind = "schema" THEN <<f.cols>> ELSE @]
           /\ out' = [out EXCEPT ![s] = IF f.kind = "schema" THEN [@ EXCEPT !.frame = NoSend.frame] ELSE NoSend]
  <2>1. /\ out'[s] = IF f.kind = "schema" THEN [out[s] EXCEPT !.frame = NoSend.frame] ELSE NoSend
        /\ DOMAIN out' = Senders /\ \A u \in Senders \ {s} : out'[u] = out[u]
    BY <1>3, <1>5
  <2> DEFINE fs == IF sub[c].closed THEN Append(sub[c].queue, f) ELSE <<>>
  <2>2. /\ IsSeq(Append(sub[c].queue, f)) /\ Len(Append(sub[c].queue, f)) = Len(sub[c].queue) + 1
        /\ \A i \in 1..Len(sub[c].queue) : Append(sub[c].queue, f)[i] = sub[c].queue[i]
        /\ Append(sub[c].queue, f)[Len(sub[c].queue) + 1] = f /\ Len(sub[c].queue) \in Nat
    BY <1>3, AppendIs, SeqIs
  <2>3. Dropped(c, fs) /\ IsSeq(fs)
    BY <1>5, <2>2, EmptyIs
  <2> HIDE DEF fs
  <2>4. /\ DOMAIN fate' = Conns /\ fate[c] \subseteq fate'[c] /\ \A d \in Conns \ {c} : fate'[d] = fate[d]
        /\ \A i \in 1..Len(fs) : fs[i].ev # 0 => fs[i].ev \in fate'[c]
    BY <1>1, <2>3, DroppedIs
  <2>5. DOMAIN sub' = Conns /\ SamePlace(sub'[c], sub[c]) /\ DOMAIN sub'[c] = SubFields /\ \A d \in Conns \ {c} : sub'[d] = sub[d]
    BY <1>1, <1>3, <1>5 DEF SubRec, SubFields, SamePlace
  <2>6. sub'[c].queue = Queued(c, f) /\ sub'[c].lastSchema = IF f.kind = "schema" THEN <<f.cols>> ELSE sub[c].lastSchema
    BY <1>1, <1>3, <1>5 DEF SubRec, SubFields
  <2>7. IsSeq(sub'[c].queue)
    BY <2>2, <2>6, EmptyIs DEF Queued
  <2>8. SubRec(sub'[c])
    BY <1>3, <2>5, <2>7 DEF SubRec, SamePlace
  <2>9. \/ ~sub[c].closed /\ sub'[c].queue = Append(sub[c].queue, f)
        \/ /\ sub[c].closed /\ sub'[c].queue = <<>>
           /\ f.ev # 0 => f.ev \in fate'[c]
           /\ \A i \in 1..Len(sub[c].queue) : sub[c].queue[i].ev # 0 => sub[c].queue[i].ev \in fate'[c]
    <3>1. CASE ~sub[c].closed
      BY <2>6, <3>1 DEF Queued
    <3>2. CASE sub[c].closed
      <4>1. sub'[c].queue = <<>> /\ fs = Append(sub[c].queue, f)
        BY <2>6, <3>2 DEF Queued, fs
      <4> HIDE DEF c, f
      <4>2. f.ev # 0 => f.ev \in fate'[c]
        BY <2>2, <2>4, <4>1
      <4>3. \A i \in 1..Len(sub[c].queue) : sub[c].queue[i].ev # 0 => sub[c].queue[i].ev \in fate'[c]
        BY <2>2, <2>4, <4>1
      <4> QED BY <3>2, <4>1, <4>2, <4>3
    <3> QED BY <3>1, <3>2
  <2>10. OutShape'
    <3>1. OutRec(out[s])
      BY DEF OutShape
    <3>2. OutRec(out'[s])
      BY <2>1, <3>1, EmptyIs DEF OutRec, NoSend
    <3> QED BY <2>1, <3>2 DEF OutShape
  <2>11. SubShape' /\ WireShape'
    BY <1>2, <1>3, <2>4, <2>5, <2>8 DEF SubShape, WireShape
  <2>12. Shape'
    BY <1>2, <2>10, <2>11, Kept
  <2> QED BY <1>1, <1>2, <2>1, <2>4, <2>5, <2>6, <2>8, <2>9, <2>12 DEF PutQueues
<1> QED BY <1>4, <1>5 DEF SendPut

\* The row after its announcement.
LEMMA SendNextDoes ==
    ASSUME Shape, NEW s \in Senders, SendNext(s), UNCHANGED verifier
    PROVE  /\ Shape'
           /\ UNCHANGED <<world, at, hooks, closing, conn, sub, hub, log, bpos, bc, wheel, wire>>
           /\ out[s].c \in Conns /\ out[s].frame.kind = "none"
           /\ DOMAIN out' = Senders /\ \A t \in Senders \ {s} : out'[t] = out[t]
           /\ DOMAIN fate' = Conns /\ fate[out[s].c] \subseteq fate'[out[s].c]
           /\ \A d \in Conns \ {out[s].c} : fate'[d] = fate[d]
           /\ \/ /\ sub[out[s].c].closed /\ out'[s] = NoSend
                 /\ \A i \in 1..Len(out[s].then) : out[s].then[i].ev # 0 => out[s].then[i].ev \in fate'[out[s].c]
              \/ out'[s] = [c |-> out[s].c, frame |-> out[s].then[1], then |-> <<>>] /\ fate' = fate
<1> USE DEF Shape
<1> DEFINE c == out[s].c
           t == out[s].then
<1>1. UNCHANGED <<world, at, hooks, closing, conn, sub, hub, log, bpos, bc, wheel, wire>> /\ c \in Conns /\ out[s].frame.kind = "none"
  BY DEF SendNext, OutShape, OutRec
<1>2. DOMAIN out = Senders /\ IsSeq(t) /\ DOMAIN fate = Conns
  BY DEF OutShape, OutRec, WireShape
<1>3. CASE sub[c].closed
  <2>1. Dropped(c, t) /\ out' = [out EXCEPT ![s] = NoSend]
    BY <1>3 DEF SendNext
  <2> HIDE DEF c, t
  <2>2. /\ DOMAIN fate' = Conns /\ fate[c] \subseteq fate'[c] /\ \A d \in Conns \ {c} : fate'[d] = fate[d]
        /\ \A i \in 1..Len(t) : t[i].ev # 0 => t[i].ev \in fate'[c]
    BY <1>1, <1>2, <2>1, DroppedIs
  <2>3. out'[s] = NoSend /\ DOMAIN out' = Senders /\ \A u \in Senders \ {s} : out'[u] = out[u]
    BY <1>2, <2>1
  <2>4. OutShape' /\ WireShape'
    BY <1>1, <2>2, <2>3, EmptyIs DEF OutShape, OutRec, NoSend, WireShape, c
  <2>5. Shape'
    BY <1>1, <2>4, Kept
  <2> QED BY <1>1, <1>3, <2>2, <2>3, <2>5 DEF c, t
<1>4. CASE ~sub[c].closed
  <2>1. out' = [out EXCEPT ![s] = [c |-> c, frame |-> t[1], then |-> <<>>]] /\ UNCHANGED fate
    BY <1>4 DEF SendNext
  <2>2. out'[s] = [c |-> c, frame |-> t[1], then |-> <<>>] /\ DOMAIN out' = Senders /\ \A u \in Senders \ {s} : out'[u] = out[u]
    BY <1>2, <2>1
  <2>3. OutShape'
    BY <1>1, <2>2, EmptyIs DEF OutShape, OutRec
  <2>4. Shape'
    BY <1>1, <2>1, <2>3, Kept
  <2> QED BY <1>1, <1>2, <2>1, <2>2, <2>4
<1> QED BY <1>3, <1>4

\* A row is added to the log, and no more.
LEMMA PublishDoes ==
    ASSUME Shape, Publish, UNCHANGED verifier
    PROVE  /\ Shape' /\ Len(log') = Len(log) + 1
           /\ UNCHANGED <<world, at, hooks, closing, conn, sub, hub, bpos, bc, out, wheel, wire, fate>>
<1> USE DEF Shape
<1>1. UNCHANGED <<world, at, hooks, closing, conn, sub, hub, bpos, bc, out, wheel, wire, fate>>
  BY DEF Publish
<1>2. IsSeq(log') /\ Len(log') = Len(log) + 1 /\ Len(log) \in Nat
  BY AppendIs, SeqIs DEF Publish, LogShape
<1>3. LogShape'
  BY <1>1, <1>2 DEF LogShape
<1> QED BY <1>1, <1>2, <1>3, Kept

\* Broadcast takes the next row and the roles that have subscribers.
LEMMA BroadcastDoes ==
    ASSUME Shape, Broadcast, UNCHANGED verifier
    PROVE  /\ Shape' /\ bc.ev = 0 /\ bpos < Len(log) /\ bpos' = bpos + 1
           /\ UNCHANGED <<world, at, hooks, closing, conn, sub, hub, log, out, wheel, wire, fate>>
           /\ \/ bc' = bc /\ \A r \in Roles : hub[r].subs = {}
              \/ /\ bc'.ev = bpos + 1 /\ bc'.to = {}
                 /\ bc'.todo = {<<r, hub[r].gen>> : r \in {q \in Roles : hub[q].subs # {}}}
<1> USE DEF Shape
<1> DEFINE todo == {<<r, hub[r].gen>> : r \in {q \in Roles : hub[q].subs # {}}}
<1>1. /\ bc.ev = 0 /\ bpos < Len(log) /\ bpos' = bpos + 1 /\ bpos \in Nat /\ Len(log) \in Nat
      /\ UNCHANGED <<world, at, hooks, closing, conn, sub, hub, log, out, wheel, wire, fate>>
  BY SeqIs DEF Broadcast, LogShape
<1>2. bc' = IF todo = {} THEN bc ELSE [Idle EXCEPT !.ev = bpos + 1, !.pol = at, !.todo = todo]
  BY DEF Broadcast
<1>3. todo = {} => \A r \in Roles : hub[r].subs = {}
  OBVIOUS
<1>4. LogShape'
  BY <1>1 DEF LogShape
<1> HIDE DEF todo
<1>5. CASE todo = {}
  BY <1>1, <1>2, <1>3, <1>4, <1>5, Kept
<1>6. CASE todo # {}
  <2>1. bc'.ev = bpos + 1 /\ bc'.to = {} /\ bc'.todo = todo /\ DOMAIN bc' = {"ev", "pol", "specs", "todo", "role", "to"}
    BY <1>2, <1>6 DEF Idle
  <2>2. todo \subseteq Roles \X Nat
    BY DEF todo, HubShape, HubRec
  <2>3. BcShape'
    BY <1>1, <2>1, <2>2 DEF BcShape, BcRec
  <2>4. Shape'
    BY <1>1, <1>4, <2>3, Kept
  <2> QED BY <1>1, <2>1, <2>4 DEF todo
<1> QED BY <1>5, <1>6

\* One role's projection: its subscribers are to have the row, or it is counted for
\* them.
LEMMA BroadcastRoleDoes ==
    ASSUME Shape, BroadcastRole, UNCHANGED verifier
    PROVE  /\ Shape' /\ bc.ev # 0 /\ bc.to = {} /\ out["hub"].c = None /\ bc'.ev = bc.ev
           /\ UNCHANGED <<world, at, hooks, closing, conn, sub, hub, log, bpos, out, wheel, wire>>
           /\ DOMAIN fate' = Conns /\ \A c \in Conns : fate[c] \subseteq fate'[c]
           /\ \E q \in bc.todo :
                LET members == IF hub[q[1]].gen = q[2] THEN hub[q[1]].subs ELSE {}
                IN  /\ bc'.todo = bc.todo \ {q}
                    /\ bc'.to = members \/ (bc'.to = {} /\ \A c \in Conns \cap members : bc.ev \in fate'[c])
<1> USE DEF Shape
<1>1. /\ bc.ev # 0 /\ bc.to = {} /\ out["hub"].c = None
      /\ UNCHANGED <<world, at, hooks, closing, conn, sub, hub, log, bpos, out, wheel, wire>>
  BY DEF BroadcastRole
<1> DEFINE Of(q, plan) ==
             LET members == IF hub[q[1]].gen = q[2] THEN hub[q[1]].subs ELSE {}
             IN  /\ bc' = [bc EXCEPT !.todo = @ \ {q}, !.role = q[1], !.to = IF plan.ok THEN members ELSE {},
                                     !.specs = IF plan.ok /\ plan.filtered /\ @ = <<>> THEN <<columnSpecs(conf.schema)>> ELSE @]
                 /\ fate' = IF plan.ok THEN fate ELSE [c \in Conns |-> IF c \in members THEN fate[c] \cup {bc.ev} ELSE fate[c]]
<1>2. PICK q \in bc.todo : \E plan : Of(q, plan)
  BY DEF BroadcastRole
<1>3. PICK plan : Of(q, plan)
  BY <1>2
<1> DEFINE members == IF hub[q[1]].gen = q[2] THEN hub[q[1]].subs ELSE {}
<1>4. members \subseteq Conns
  <2>1. q[1] \in Roles
    BY DEF BcShape, BcRec
  <2> QED BY <2>1 DEF HubShape, HubRec
<1>5. /\ bc' = [bc EXCEPT !.todo = @ \ {q}, !.role = q[1], !.to = IF plan.ok THEN members ELSE {},
                          !.specs = IF plan.ok /\ plan.filtered /\ @ = <<>> THEN <<columnSpecs(conf.schema)>> ELSE @]
      /\ fate' = IF plan.ok THEN fate ELSE [c \in Conns |-> IF c \in members THEN fate[c] \cup {bc.ev} ELSE fate[c]]
  BY <1>3
<1> HIDE DEF members, Of
<1>6. /\ DOMAIN bc' = {"ev", "pol", "specs", "todo", "role", "to"} /\ bc'.ev = bc.ev /\ bc'.todo = bc.todo \ {q}
      /\ bc'.to = IF plan.ok THEN members ELSE {}
  BY <1>5 DEF BcShape, BcRec
<1>7. BcShape'
  BY <1>4, <1>6 DEF BcShape, BcRec
<1>8. DOMAIN fate' = Conns /\ \A c \in Conns : fate[c] \subseteq fate'[c]
  BY <1>5 DEF WireShape
<1>9. ~plan.ok => \A c \in Conns \cap members : bc.ev \in fate'[c]
  BY <1>5
<1>10. Shape'
  <2>1. WireShape'
    BY <1>1, <1>8 DEF WireShape
  <2> QED BY <1>1, <1>7, <2>1, Kept
<1>11. bc'.to = members \/ (bc'.to = {} /\ \A c \in Conns \cap members : bc.ev \in fate'[c])
  BY <1>6, <1>9
<1> QED BY <1>1, <1>6, <1>8, <1>10, <1>11 DEF members

\* One subscriber: the row is not for it, or is on its way after its layout.
LEMMA BroadcastToDoes ==
    ASSUME Shape, NEW c \in Conns, BroadcastTo(c), bc.ev # 0, UNCHANGED verifier
    PROVE  /\ Shape' /\ c \in bc.to /\ out["hub"].c = None
           /\ bc'.ev = bc.ev /\ bc'.todo = bc.todo /\ bc'.to = bc.to \ {c}
           /\ UNCHANGED <<world, at, hooks, closing, conn, sub, hub, log, bpos, wheel, wire>>
           /\ DOMAIN fate' = Conns /\ \A d \in Conns \ {c} : fate'[d] = fate[d]
           /\ DOMAIN out' = Senders /\ out'["wheel"] = out["wheel"]
           /\ \/ fate'[c] = fate[c] \cup {bc.ev} /\ out' = out
              \/ /\ fate' = fate
                 /\ out'["hub"].c = c
                 /\ LET f == out'["hub"].frame
                        t == out'["hub"].then
                    IN  \/ /\ f.kind = "schema" /\ f.ev = 0 /\ Len(t) = 1 /\ RowFrame(t[1]) /\ t[1].ev = bc.ev
                           /\ t[1].cols = f.cols
                        \/ RowFrame(f) /\ f.ev = bc.ev /\ t = <<>> /\ sub[c].lastSchema = <<f.cols>>
<1> USE DEF Shape
<1>1. /\ c \in bc.to /\ out["hub"].c = None /\ bc' = [bc EXCEPT !.to = @ \ {c}]
      /\ UNCHANGED <<world, at, hooks, closing, conn, hub, log, bpos, wheel, wire>>
  BY DEF BroadcastTo
<1>2. PICK plan \in {planForRole(bc.pol, bc.role, bc.ev, "event")} :
        \/ fate' = [fate EXCEPT ![c] = @ \cup {bc.ev}] /\ UNCHANGED <<out, sub>>
        \/ deliver(c, plan) /\ UNCHANGED fate
  BY DEF BroadcastTo
<1>3. DOMAIN bc' = {"ev", "pol", "specs", "todo", "role", "to"} /\ bc'.ev = bc.ev /\ bc'.todo = bc.todo /\ bc'.to = bc.to \ {c}
  BY <1>1 DEF BcShape, BcRec
<1>4. BcShape'
  BY <1>3 DEF BcShape, BcRec
<1>5. DOMAIN out = Senders /\ "hub" \in Senders /\ "wheel" \in Senders /\ DOMAIN fate = Conns
  BY DEF OutShape, Senders, WireShape
<1>6. CASE fate' = [fate EXCEPT ![c] = @ \cup {bc.ev}] /\ UNCHANGED <<out, sub>>
  <2>1. DOMAIN fate' = Conns /\ fate'[c] = fate[c] \cup {bc.ev} /\ \A d \in Conns \ {c} : fate'[d] = fate[d]
    BY <1>5, <1>6
  <2>2. WireShape'
    BY <1>1, <2>1 DEF WireShape
  <2>3. Shape'
    BY <1>1, <1>4, <1>6, <2>2, Kept
  <2> QED BY <1>1, <1>3, <1>5, <1>6, <2>1, <2>3
<1>7. CASE deliver(c, plan) /\ UNCHANGED fate
  <2> DEFINE new == IF sub[c].lastSchema # <<plan.cols>>
                    THEN [c |-> c, frame |-> SchemaFrame(plan.cols), then |-> <<dataFrame(plan)>>]
                    ELSE [c |-> c, frame |-> dataFrame(plan), then |-> <<>>]
  <2>1. out' = [out EXCEPT !["hub"] = new] /\ UNCHANGED <<fate, sub>>
    BY <1>7 DEF deliver
  <2>2. plan.kind = "event" /\ plan.ev = bc.ev
    BY DEF planForRole
  <2>3. bc.ev \in Nat
    BY DEF BcShape, BcRec
  <2> DEFINE d == dataFrame(plan)
             s == SchemaFrame(plan.cols)
  <2>4. RowFrame(d) /\ d.ev = bc.ev /\ d.cols = plan.cols
    BY <2>2, <2>3 DEF dataFrame, RowFrame
  <2>5. s.kind = "schema" /\ s.ev = 0 /\ s.cols = plan.cols
    BY DEF SchemaFrame
  <2>6. \/ new = [c |-> c, frame |-> s, then |-> <<d>>]
        \/ new = [c |-> c, frame |-> d, then |-> <<>>] /\ sub[c].lastSchema = <<plan.cols>>
    OBVIOUS
  <2> HIDE DEF new, d, s
  <2>7. out'["hub"] = new /\ out'["wheel"] = out["wheel"] /\ DOMAIN out' = Senders
    BY <1>5, <2>1 DEF Senders
  <2>8. IsSeq(<<d>>) /\ Len(<<d>>) = 1 /\ <<d>>[1] = d
    BY OneIs
  <2>9. OutRec(new)
    BY <2>6, <2>8, EmptyIs DEF OutRec
  <2>10. OutShape'
    BY <2>7, <2>9 DEF OutShape, Senders
  <2>11. WireShape'
    BY <1>1, <2>1 DEF WireShape
  <2>12. Shape'
    BY <1>1, <1>4, <2>1, <2>10, <2>11, Kept
  <2>13. CASE new = [c |-> c, frame |-> s, then |-> <<d>>]
    <3>1. new.c = c /\ new.frame = s /\ new.then = <<d>>
      BY <2>13
    <3> QED BY <1>1, <1>3, <2>1, <2>4, <2>5, <2>7, <2>8, <2>12, <3>1, <1>5
  <2>14. CASE new = [c |-> c, frame |-> d, then |-> <<>>] /\ sub[c].lastSchema = <<plan.cols>>
    <3>1. new.c = c /\ new.frame = d /\ new.then = <<>>
      BY <2>14
    <3> QED BY <1>1, <1>3, <2>1, <2>4, <2>7, <2>12, <2>14, <3>1, <1>5
  <2> QED BY <2>6, <2>13, <2>14
<1> QED BY <1>2, <1>6, <1>7

\* Broadcast has reached every subscriber.
LEMMA BroadcastEndDoes ==
    ASSUME Shape, BroadcastEnd, UNCHANGED verifier
    PROVE  /\ Shape' /\ bc.ev # 0 /\ bc.todo = {} /\ bc.to = {} /\ out["hub"].c = None
           /\ bc'.ev = 0 /\ bc'.todo = {} /\ bc'.to = {}
           /\ UNCHANGED <<world, at, hooks, closing, conn, sub, hub, log, bpos, out, wheel, wire, fate>>
<1> USE DEF Shape
<1>1. /\ bc.ev # 0 /\ bc.todo = {} /\ bc.to = {} /\ out["hub"].c = None /\ bc' = Idle
      /\ UNCHANGED <<world, at, hooks, closing, conn, sub, hub, log, bpos, out, wheel, wire, fate>>
  BY DEF BroadcastEnd
<1>2. DOMAIN bc' = {"ev", "pol", "specs", "todo", "role", "to"} /\ bc'.ev = 0 /\ bc'.todo = {} /\ bc'.to = {}
  BY <1>1 DEF Idle
<1>3. BcShape'
  BY <1>2 DEF BcShape, BcRec
<1> QED BY <1>1, <1>2, <1>3, Kept

\* What is written is put after what was.
LEMMA WrittenIs ==
    ASSUME WireShape, NEW c \in Conns, NEW frames, IsSeq(frames), Written(c, frames)
    PROVE  /\ DOMAIN wire' = Conns /\ \A d \in Conns \ {c} : wire'[d] = wire[d]
           /\ wire'[c] = wire[c] \o frames /\ IsSeq(wire'[c])
<1>1. wire' = [wire EXCEPT ![c] = wire[c] \o frames]
  BY DEF Written
<1>2. IsSeq(wire[c]) /\ DOMAIN wire = Conns
  BY DEF WireShape
<1>3. wire'[c] = wire[c] \o frames /\ DOMAIN wire' = Conns /\ \A d \in Conns \ {c} : wire'[d] = wire[d]
  BY <1>1, <1>2
<1>4. IsSeq(wire[c] \o frames)
  BY <1>2, JoinIs
<1> QED BY <1>3, <1>4

\* An announcement carries its columns and no row.
LEMMA SchemaFrameIs ==
    ASSUME NEW cols
    PROVE  /\ SchemaFrame(cols).kind = "schema" /\ SchemaFrame(cols).ev = 0 /\ SchemaFrame(cols).cols = cols
           /\ IsSeq(<<SchemaFrame(cols)>>) /\ Len(<<SchemaFrame(cols)>>) = 1 /\ <<SchemaFrame(cols)>>[1] = SchemaFrame(cols)
<1>1. SchemaFrame(cols).kind = "schema" /\ SchemaFrame(cols).ev = 0 /\ SchemaFrame(cols).cols = cols
  BY DEF SchemaFrame
<1> QED BY <1>1, OneIs

\* A stream begins, with its table's columns announced or none.
LEMMA SubscribeDoes ==
    ASSUME Shape, NEW c \in Conns, SubscribeSchema(c), UNCHANGED verifier
    PROVE  /\ Shape' /\ conn[c].pc = "subscribe"
           /\ UNCHANGED <<world, at, hooks, closing, hub, log, bpos, bc, out, wheel, fate>>
           /\ \A d \in Conns \ {c} : sub'[d] = sub[d] /\ wire'[d] = wire[d]
           /\ sub'[c].queue = <<>> /\ ~sub'[c].closed /\ ~sub'[c].evicted /\ sub'[c].rpos = world.req[c].since
           /\ sub'[c].wheel = 0
           /\ \/ Moves(c, "close") /\ wire' = wire
              \/ /\ Moves(c, "add")
                 /\ \/ wire' = wire /\ sub'[c].lastSchema = <<>>
                    \/ \E cols : wire'[c] = wire[c] \o <<SchemaFrame(cols)>> /\ sub'[c].lastSchema = <<cols>>
<1> USE DEF Shape
<1>1. conn[c].pc = "subscribe" /\ UNCHANGED <<world, at, hooks, closing, hub, log, bpos, bc, out, wheel, fate>>
  BY DEF SubscribeSchema
<1>2. PICK rp \in {Evaluate(conf.policy, conn[c].role, "t", "select", <<>>)} :
       LET cols == projectIndices(InsertableColumnNames(conf.schema), rp)
           announce == conf.schema # <<>> /\ rp.allowed
       IN  /\ sub' = [sub EXCEPT ![c] = [NoSub EXCEPT !.cap = conf.queue, !.rpos = world.req[c].since,
                                                   !.lastSchema = IF announce THEN <<cols>> ELSE <<>>]]
           /\ IF announce /\ conn[c].gone
              THEN Goto(c, "close") /\ UNCHANGED wire
              ELSE Goto(c, "add") /\ IF announce THEN Written(c, <<SchemaFrame(cols)>>) ELSE UNCHANGED wire
  BY DEF SubscribeSchema
<1> DEFINE cols == projectIndices(InsertableColumnNames(conf.schema), rp)
           announce == conf.schema # <<>> /\ rp.allowed
           last == IF announce THEN <<cols>> ELSE <<>>
           new == [NoSub EXCEPT !.cap = conf.queue, !.rpos = world.req[c].since, !.lastSchema = last]
<1>3. /\ sub' = [sub EXCEPT ![c] = new]
      /\ IF announce /\ conn[c].gone
         THEN Goto(c, "close") /\ UNCHANGED wire
         ELSE Goto(c, "add") /\ IF announce THEN Written(c, <<SchemaFrame(cols)>>) ELSE UNCHANGED wire
  BY <1>2
<1>4. world.req[c].since \in Nat
  BY DEF CaseShape, Case
<1> HIDE DEF cols, announce, last
<1>5. /\ SubRec(new) /\ new.queue = <<>> /\ ~new.closed /\ ~new.evicted /\ new.rpos = world.req[c].since /\ new.wheel = 0
      /\ new.lastSchema = last
  BY <1>4, EmptyIs DEF NoSub, SubRec, SubFields
<1> HIDE DEF new
<1>6. sub'[c] = new /\ DOMAIN sub' = Conns /\ \A d \in Conns \ {c} : sub'[d] = sub[d]
  BY <1>3 DEF SubShape
<1>7. SubShape'
  BY <1>5, <1>6 DEF SubShape
<1>8. ConnShape' /\ (Moves(c, "close") \/ Moves(c, "add"))
  <2>1. "close" \in Pcs /\ "add" \in Pcs
    BY DEF Pcs, Ended
  <2> QED BY <1>3, <2>1, GotoMoves
<1>9. CASE announce /\ conn[c].gone
  <2>1. Goto(c, "close") /\ UNCHANGED wire
    BY <1>3, <1>9
  <2>2. "close" \in Pcs
    BY DEF Pcs, Ended
  <2>3. Moves(c, "close")
    BY <2>1, <2>2, GotoMoves
  <2>4. Shape'
    BY <1>1, <1>7, <1>8, <2>1, Kept
  <2> QED BY <1>1, <1>5, <1>6, <2>1, <2>3, <2>4
<1>10. CASE ~(announce /\ conn[c].gone)
  <2>1. Goto(c, "add") /\ IF announce THEN Written(c, <<SchemaFrame(cols)>>) ELSE UNCHANGED wire
    BY <1>3, <1>10
  <2>2. "add" \in Pcs
    BY DEF Pcs
  <2>3. Moves(c, "add")
    BY <2>1, <2>2, GotoMoves
  <2>4. \/ wire' = wire /\ sub'[c].lastSchema = <<>>
        \/ /\ DOMAIN wire' = Conns /\ \A d \in Conns \ {c} : wire'[d] = wire[d]
           /\ wire'[c] = wire[c] \o <<SchemaFrame(cols)>> /\ IsSeq(wire'[c])
           /\ sub'[c].lastSchema = <<cols>>
    <3>1. CASE announce
      BY <1>5, <1>6, <2>1, <3>1, WrittenIs, SchemaFrameIs DEF last
    <3>2. CASE ~announce
      BY <1>5, <1>6, <2>1, <3>2 DEF last
    <3> QED BY <3>1, <3>2
  <2>5. WireShape'
    BY <1>1, <2>4 DEF WireShape
  <2>6. Shape'
    BY <1>1, <1>7, <1>8, <2>5, Kept
  <2> QED BY <1>1, <1>5, <1>6, <2>3, <2>4, <2>6
<1> QED BY <1>9, <1>10

\* Add registers the stream in its role's bucket: its feed begins here.
LEMMA HubAddDoes ==
    ASSUME Shape, NEW c \in Conns, HubAdd(c), UNCHANGED verifier
    PROVE  /\ Shape' /\ conn[c].pc = "add" /\ Moves(c, "served")
           /\ UNCHANGED <<world, at, hooks, closing, log, bpos, bc, out, wheel, wire, fate>>
           /\ hub'[conn[c].role].subs = hub[conn[c].role].subs \cup {c}
           /\ hub'[conn[c].role].gen = hub[conn[c].role].gen
           /\ \A r \in Roles \ {conn[c].role} : hub'[r] = hub[r]
           /\ \A d \in Conns \ {c} : sub'[d] = sub[d]
           /\ sub'[c].queue = sub[c].queue /\ sub'[c].lastSchema = sub[c].lastSchema
           /\ sub'[c].closed = sub[c].closed /\ sub'[c].evicted = sub[c].evicted /\ sub'[c].rpos = sub[c].rpos
           /\ sub'[c].wheel = sub[c].wheel /\ sub'[c].bucket = sub[c].bucket
           /\ sub'[c].from = bpos + 1
<1> USE DEF Shape
<1>1. conn[c].pc = "add" /\ UNCHANGED <<world, at, hooks, closing, log, bpos, bc, out, wheel, wire, fate>>
  BY DEF HubAdd
<1>2. Len(log) \in Nat /\ conn[c].role \in Roles /\ SubRec(sub[c]) /\ sub[c].rpos \in Nat
  BY SeqIs DEF LogShape, ConnShape, ConnRec, SubShape, SubRec
<1>3. ConnShape' /\ Moves(c, "served")
  BY GotoMoves DEF HubAdd, Pcs, Streaming
<1> DEFINE from == bpos + 1
<1>4. from \in Nat /\ sub' = [sub EXCEPT ![c].from = from]
  BY <1>2 DEF HubAdd, LogShape
<1> HIDE DEF from
<1>5. /\ DOMAIN sub' = Conns /\ \A d \in Conns \ {c} : sub'[d] = sub[d]
      /\ sub'[c].queue = sub[c].queue /\ sub'[c].lastSchema = sub[c].lastSchema
      /\ sub'[c].closed = sub[c].closed /\ sub'[c].evicted = sub[c].evicted /\ sub'[c].rpos = sub[c].rpos
      /\ sub'[c].wheel = sub[c].wheel /\ sub'[c].bucket = sub[c].bucket /\ sub'[c].quiet = sub[c].quiet
      /\ sub'[c].from = from /\ DOMAIN sub'[c] = SubFields
  BY <1>2, <1>4 DEF SubShape, SubRec, SubFields
<1>6. SubShape'
  BY <1>2, <1>4, <1>5 DEF SubShape, SubRec
<1>7. /\ hub'[conn[c].role].subs = hub[conn[c].role].subs \cup {c}
      /\ hub'[conn[c].role].gen = hub[conn[c].role].gen
      /\ DOMAIN hub' = Roles /\ \A r \in Roles \ {conn[c].role} : hub'[r] = hub[r]
      /\ DOMAIN hub'[conn[c].role] = {"subs", "gen"}
  BY <1>2 DEF HubAdd, HubShape, HubRec
<1>8. HubShape'
  BY <1>2, <1>7 DEF HubShape, HubRec
<1>9. Shape'
  BY <1>1, <1>3, <1>6, <1>8, Kept
<1> QED BY <1>1, <1>3, <1>5, <1>7, <1>9 DEF from

\* Served is read after Add: the stream ends, replays or joins the wheel.
LEMMA CheckServedDoes ==
    ASSUME Shape, NEW c \in Conns, CheckServed(c), UNCHANGED verifier
    PROVE  /\ Shape' /\ conn[c].pc = "served"
           /\ UNCHANGED <<world, at, hooks, closing, sub, hub, log, bpos, bc, out, wheel, wire, fate>>
           /\ \/ conf.serving # "served" /\ Moves(c, "leaveHub")
              \/ conf.serving = "served" /\ sub[c].rpos > 0 /\ Moves(c, "replay")
              \/ conf.serving = "served" /\ sub[c].rpos = 0 /\ Moves(c, "wheel")
<1> USE DEF Shape
<1>1. conn[c].pc = "served" /\ UNCHANGED <<world, at, hooks, closing, sub, hub, log, bpos, bc, out, wheel, wire, fate>>
  BY DEF CheckServed, streamVars
<1>2. sub[c].rpos \in Nat
  BY DEF SubShape, SubRec
<1>3. \/ conf.serving # "served" /\ Goto(c, "leaveHub")
      \/ conf.serving = "served" /\ sub[c].rpos > 0 /\ Goto(c, "replay")
      \/ conf.serving = "served" /\ sub[c].rpos = 0 /\ Goto(c, "wheel")
  BY <1>2 DEF CheckServed, MayStream
<1>4. {"leaveHub", "replay", "wheel"} \subseteq Pcs
  BY DEF Pcs, Streaming
<1>5. /\ ConnShape'
      /\ \/ conf.serving # "served" /\ Moves(c, "leaveHub")
         \/ conf.serving = "served" /\ sub[c].rpos > 0 /\ Moves(c, "replay")
         \/ conf.serving = "served" /\ sub[c].rpos = 0 /\ Moves(c, "wheel")
  BY <1>3, <1>4, GotoMoves
<1>6. Shape'
  BY <1>1, <1>5, Kept
<1> QED BY <1>1, <1>5, <1>6

\* One message of the gap: written, or not for the client; the last of a client that left.
LEMMA ReplayNextDoes ==
    ASSUME Shape, NEW c \in Conns, ReplayNext(c), UNCHANGED verifier
    PROVE  /\ Shape' /\ conn[c].pc = "replay"
           /\ UNCHANGED <<world, at, hooks, closing, hub, log, bpos, bc, out, wheel>>
           /\ \A d \in Conns \ {c} : sub'[d] = sub[d] /\ wire'[d] = wire[d] /\ fate'[d] = fate[d]
           /\ sub'[c].queue = sub[c].queue /\ sub'[c].lastSchema = sub[c].lastSchema
           /\ sub'[c].closed = sub[c].closed /\ sub'[c].evicted = sub[c].evicted /\ sub'[c].from = sub[c].from /\ sub'[c].missed = sub[c].missed
           /\ sub'[c].wheel = sub[c].wheel /\ sub'[c].bucket = sub[c].bucket
           /\ sub'[c].rpos = sub[c].rpos + 1
           /\ fate[c] \subseteq fate'[c]
           /\ \A i \in 1..Len(wire[c]) : i \in 1..Len(wire'[c]) /\ wire'[c][i] = wire[c][i]
           /\ sub[c].rpos \in fate'[c] \/ \E i \in 1..Len(wire'[c]) : wire'[c][i].ev = sub[c].rpos
           /\ conn' = conn \/ (conn[c].gone /\ Moves(c, "wheel"))
<1> USE DEF Shape
<1> DEFINE n == sub[c].rpos
           frames(plan) == (IF sub[c].replaySig # <<plan.cols>> THEN <<SchemaFrame(plan.cols)>> ELSE <<>>) \o <<dataFrame(plan)>>
<1>1. conn[c].pc = "replay" /\ UNCHANGED <<world, at, hooks, closing, hub, log, bpos, bc, out, wheel>>
  BY DEF ReplayNext
<1>2. PICK plan \in {planForRole(at, conn[c].role, n, "replay")} : \E specs, shown : Replayed(c, plan, specs, shown)
  BY DEF ReplayNext
<1>5. plan.ev = n
  BY DEF planForRole
<1>20. PICK specs, shown : Replayed(c, plan, specs, shown)
  BY <1>2
<1>3. \E types, sig : sub' = [sub EXCEPT ![c].rpos = n + 1, ![c].specs = types, ![c].replaySig = sig]
  <2>1. sub' = [sub EXCEPT ![c].rpos = n + 1, ![c].specs = IF plan.ok THEN specs ELSE sub[c].specs,
                           ![c].replaySig = IF shown THEN <<plan.cols>> ELSE sub[c].replaySig]
    BY <1>20 DEF SubShape, SubRec, SubFields, Replayed
  <2> QED BY <2>1
<1>4. \/ fate' = [fate EXCEPT ![c] = @ \cup {n}] /\ UNCHANGED <<wire, conn>>
      \/ conn[c].gone /\ fate' = [fate EXCEPT ![c] = @ \cup {n}] /\ Goto(c, "wheel") /\ UNCHANGED wire
      \/ Written(c, frames(plan)) /\ UNCHANGED <<fate, conn>>
  BY <1>20, <1>5 DEF Replayed
<1> HIDE DEF frames
<1>6. /\ DOMAIN sub' = Conns /\ \A d \in Conns \ {c} : sub'[d] = sub[d]
      /\ sub'[c].queue = sub[c].queue /\ sub'[c].lastSchema = sub[c].lastSchema
      /\ sub'[c].closed = sub[c].closed /\ sub'[c].evicted = sub[c].evicted /\ sub'[c].from = sub[c].from /\ sub'[c].missed = sub[c].missed
      /\ sub'[c].wheel = sub[c].wheel /\ sub'[c].bucket = sub[c].bucket /\ sub'[c].quiet = sub[c].quiet
      /\ sub'[c].rpos = n + 1 /\ DOMAIN sub'[c] = SubFields
  BY <1>3 DEF SubShape, SubRec, SubFields
<1>7. SubShape'
  BY <1>6 DEF SubShape, SubRec
<1>8. DOMAIN fate = Conns /\ DOMAIN wire = Conns /\ IsSeq(wire[c])
  BY DEF WireShape
<1>9. CASE fate' = [fate EXCEPT ![c] = @ \cup {n}] /\ UNCHANGED <<wire, conn>>
  <2>1. DOMAIN fate' = Conns /\ fate'[c] = fate[c] \cup {n} /\ \A d \in Conns \ {c} : fate'[d] = fate[d]
    BY <1>8, <1>9
  <2>2. WireShape'
    BY <1>9, <2>1 DEF WireShape
  <2>3. Shape'
    BY <1>1, <1>7, <1>9, <2>2, Kept
  <2> QED BY <1>1, <1>6, <1>9, <2>1, <2>3
<1>10. CASE conn[c].gone /\ fate' = [fate EXCEPT ![c] = @ \cup {n}] /\ Goto(c, "wheel") /\ UNCHANGED wire
  <2>1. DOMAIN fate' = Conns /\ fate'[c] = fate[c] \cup {n} /\ \A d \in Conns \ {c} : fate'[d] = fate[d]
    BY <1>8, <1>10
  <2>2. WireShape'
    BY <1>10, <2>1 DEF WireShape
  <2>3. ConnShape' /\ Moves(c, "wheel")
    BY <1>10, GotoMoves DEF Pcs, Streaming
  <2>4. Shape'
    BY <1>1, <1>7, <2>2, <2>3, Kept
  <2> QED BY <1>1, <1>6, <1>10, <2>1, <2>3, <2>4
<1>11. CASE Written(c, frames(plan)) /\ UNCHANGED <<fate, conn>>
  <2> DEFINE a == IF sub[c].replaySig # <<plan.cols>> THEN <<SchemaFrame(plan.cols)>> ELSE <<>>
             b == <<dataFrame(plan)>>
  <2>1. IsSeq(a) /\ Len(a) \in Nat
    BY SchemaFrameIs, EmptyIs, SeqIs
  <2>2. IsSeq(b) /\ Len(b) = 1 /\ b[1].ev = n
    <3>1. IsSeq(b) /\ Len(b) = 1 /\ b[1] = dataFrame(plan)
      BY OneIs
    <3> QED BY <1>5, <3>1 DEF dataFrame
  <2>3. frames(plan) = a \o b
    BY DEF frames
  <2> HIDE DEF a, b
  <2> DEFINE fs == frames(plan)
             w == wire[c]
  <2>4. IsSeq(fs) /\ Len(fs) = Len(a) + 1 /\ fs[Len(a) + 1] = b[1]
    <3>1. IsSeq(a \o b) /\ Len(a \o b) = Len(a) + Len(b) /\ \A i \in 1..Len(b) : (a \o b)[Len(a) + i] = b[i]
      <4>1. IsSeq(a) /\ IsSeq(b)
        BY <2>1, <2>2
      <4>2. IsSeq(a \o b) /\ Len(a \o b) = Len(a) + Len(b)
        BY ONLY <4>1, JoinIs
      <4>3. \A i \in 1..Len(b) : (a \o b)[Len(a) + i] = b[i]
        BY ONLY <4>1, JoinIs
      <4> QED BY <4>2, <4>3
    <3>2. 1 \in 1..Len(b)
      BY <2>2
    <3> QED BY <2>2, <2>3, <3>1, <3>2
  <2> HIDE DEF fs
  <2>5. /\ DOMAIN wire' = Conns /\ \A d \in Conns \ {c} : wire'[d] = wire[d]
        /\ wire'[c] = w \o fs /\ IsSeq(wire'[c])
    BY <1>11, <2>4, WrittenIs DEF fs
  <2>60. IsSeq(w)
    BY <1>8
  <2> HIDE DEF w
  <2>6. /\ Len(w \o fs) = Len(w) + Len(fs)
        /\ \A i \in 1..Len(w) : (w \o fs)[i] = w[i]
        /\ \A i \in 1..Len(fs) : (w \o fs)[Len(w) + i] = fs[i]
    <3>1. IsSeq(w) /\ IsSeq(fs)
      BY <2>60, <2>4
    <3>2. Len(w \o fs) = Len(w) + Len(fs)
      BY ONLY <3>1, JoinIs
    <3>3. \A i \in 1..Len(w) : (w \o fs)[i] = w[i]
      BY ONLY <3>1, JoinIs
    <3>4. \A i \in 1..Len(fs) : (w \o fs)[Len(w) + i] = fs[i]
      BY ONLY <3>1, JoinIs
    <3> QED BY <3>2, <3>3, <3>4
  <2>7. Len(w) \in Nat
    BY <2>60, SeqIs
  <2> DEFINE x == w \o fs
  <2>70. wire'[c] = x /\ Len(x) = Len(w) + Len(fs) /\ (\A i \in 1..Len(w) : x[i] = w[i]) /\ \A i \in 1..Len(fs) : x[Len(w) + i] = fs[i]
    BY <2>5, <2>6
  <2> HIDE DEF x
  <2>80. \A i \in 1..Len(w) : i \in 1..Len(x) /\ x[i] = w[i]
    BY <2>1, <2>4, <2>70, <2>7
  <2>8. \A i \in 1..Len(wire[c]) : i \in 1..Len(wire'[c]) /\ wire'[c][i] = wire[c][i]
    BY <2>70, <2>80 DEF w
  <2>9. \E i \in 1..Len(wire'[c]) : wire'[c][i].ev = n
    <3>1. Len(a) + 1 \in 1..Len(fs) /\ Len(w) + (Len(a) + 1) \in 1..Len(x)
      BY <2>1, <2>4, <2>70, <2>7
    <3>2. x[Len(w) + (Len(a) + 1)].ev = n
      BY <2>2, <2>4, <2>70, <3>1
    <3> QED BY <2>70, <3>1, <3>2
  <2>10. WireShape'
    BY <1>11, <2>5 DEF WireShape
  <2>11. Shape'
    BY <1>1, <1>7, <1>11, <2>10, Kept
  <2> QED BY <1>1, <1>6, <1>11, <2>5, <2>8, <2>9, <2>11
<1> QED BY <1>4, <1>9, <1>10, <1>11

\* The replay has reached the log's end, or was cut short.
LEMMA ReplayEndDoes ==
    ASSUME Shape, NEW c \in Conns, ReplayEnd(c), UNCHANGED verifier
    PROVE  /\ Shape' /\ conn[c].pc = "replay" /\ Moves(c, "wheel") /\ (sub[c].rpos > Len(log) \/ Cancelled(c))
           /\ UNCHANGED <<world, at, hooks, closing, sub, hub, log, bpos, bc, out, wheel, wire, fate>>
<1> USE DEF Shape
<1>1. /\ conn[c].pc = "replay" /\ (sub[c].rpos > Len(log) \/ Cancelled(c))
      /\ UNCHANGED <<world, at, hooks, closing, sub, hub, log, bpos, bc, out, wheel, wire, fate>>
  BY DEF ReplayEnd, streamVars
<1>2. ConnShape' /\ Moves(c, "wheel")
  BY GotoMoves DEF ReplayEnd, Pcs, Streaming
<1>3. Shape'
  BY <1>1, <1>2, Kept
<1> QED BY <1>1, <1>2, <1>3

\* The replay failed: the stream goes on, and only what it missed is noted.
LEMMA ReplayFailsDoes ==
    ASSUME Shape, NEW c \in Conns, ReplayFails(c), UNCHANGED verifier
    PROVE  /\ Shape' /\ conn[c].pc = "replay" /\ Moves(c, "wheel")
           /\ UNCHANGED <<world, at, hooks, closing, hub, log, bpos, bc, out, wheel, wire, fate>>
           /\ \A d \in Conns \ {c} : sub'[d] = sub[d]
           /\ sub'[c].queue = sub[c].queue /\ sub'[c].lastSchema = sub[c].lastSchema
           /\ sub'[c].closed = sub[c].closed /\ sub'[c].evicted = sub[c].evicted
           /\ sub'[c].rpos = sub[c].rpos /\ sub'[c].from = sub[c].from
           /\ sub'[c].wheel = sub[c].wheel /\ sub'[c].bucket = sub[c].bucket
           /\ sub'[c].missed = sub[c].rpos..(sub[c].from - 1)
<1> USE DEF Shape
<1>1. conn[c].pc = "replay" /\ UNCHANGED <<world, at, hooks, closing, hub, log, bpos, bc, out, wheel, wire, fate>>
  BY DEF ReplayFails
<1> DEFINE rows == sub[c].rpos..(sub[c].from - 1)
<1>2. sub' = [sub EXCEPT ![c].missed = rows] /\ SubRec(sub[c])
  BY DEF ReplayFails, SubShape
<1> HIDE DEF rows
<1>3. /\ DOMAIN sub' = Conns /\ \A d \in Conns \ {c} : sub'[d] = sub[d]
      /\ sub'[c].queue = sub[c].queue /\ sub'[c].lastSchema = sub[c].lastSchema
      /\ sub'[c].closed = sub[c].closed /\ sub'[c].evicted = sub[c].evicted
      /\ sub'[c].rpos = sub[c].rpos /\ sub'[c].from = sub[c].from
      /\ sub'[c].wheel = sub[c].wheel /\ sub'[c].bucket = sub[c].bucket /\ sub'[c].quiet = sub[c].quiet
      /\ sub'[c].missed = rows /\ DOMAIN sub'[c] = SubFields
  BY <1>2 DEF SubShape, SubRec, SubFields
<1>4. SubShape'
  BY <1>2, <1>3 DEF SubShape, SubRec
<1>5. ConnShape' /\ Moves(c, "wheel")
  BY GotoMoves DEF ReplayFails, Pcs, Streaming
<1>6. Shape'
  BY <1>1, <1>4, <1>5, Kept
<1> QED BY <1>1, <1>3, <1>5, <1>6 DEF rows

\* A handler told to stop, or whose client left, begins to leave.
LEMMA LoopEndDoes ==
    ASSUME Shape, NEW c \in Conns, LoopEnd(c), UNCHANGED verifier
    PROVE  /\ Shape' /\ conn[c].pc = "loop" /\ Moves(c, "leaveWheel")
           /\ UNCHANGED <<world, at, hooks, closing, sub, hub, log, bpos, bc, out, wheel, wire, fate>>
<1> USE DEF Shape
<1>1. /\ conn[c].pc = "loop"
      /\ UNCHANGED <<world, at, hooks, closing, sub, hub, log, bpos, bc, out, wheel, wire, fate>>
  BY DEF LoopEnd, streamVars
<1>2. ConnShape' /\ Moves(c, "leaveWheel")
  BY GotoMoves DEF LoopEnd, Pcs, Streaming
<1>3. Shape'
  BY <1>1, <1>2, Kept
<1> QED BY <1>1, <1>2, <1>3

\* The head of the queue is written, or dropped as its client left.
LEMMA LoopWriteDoes ==
    ASSUME Shape, NEW c \in Conns, LoopWrite(c), UNCHANGED verifier
    PROVE  /\ Shape' /\ conn[c].pc = "loop" /\ sub[c].queue # <<>>
           /\ UNCHANGED <<world, at, hooks, closing, hub, log, bpos, bc, out, wheel>>
           /\ \A d \in Conns \ {c} : sub'[d] = sub[d] /\ wire'[d] = wire[d] /\ fate'[d] = fate[d]
           /\ sub'[c].queue = Tail(sub[c].queue) /\ sub'[c].lastSchema = sub[c].lastSchema
           /\ SamePlace(sub'[c], sub[c])
           /\ \/ /\ Moves(c, "leaveWheel") /\ wire' = wire /\ fate[c] \subseteq fate'[c]
                 /\ Head(sub[c].queue).ev # 0 => Head(sub[c].queue).ev \in fate'[c]
              \/ /\ conn' = conn /\ fate' = fate
                 /\ wire'[c] = wire[c] \o Recorded(Head(sub[c].queue))
<1> USE DEF Shape
<1> DEFINE h == Head(sub[c].queue)
<1>1. conn[c].pc = "loop" /\ sub[c].queue # <<>> /\ UNCHANGED <<world, at, hooks, closing, hub, log, bpos, bc, out, wheel>>
  BY DEF LoopWrite
<1>2. sub' = [sub EXCEPT ![c].queue = Tail(sub[c].queue)] /\ DOMAIN sub = Conns /\ SubRec(sub[c])
  BY DEF LoopWrite, SubShape
<1>3. \/ Dropped(c, <<h>>) /\ Goto(c, "leaveWheel") /\ UNCHANGED wire
      \/ Written(c, Recorded(h)) /\ UNCHANGED <<fate, conn>>
  BY DEF LoopWrite
<1>4. IsSeq(Tail(sub[c].queue))
  BY <1>1, <1>2, TailIs DEF SubRec
<1>5. /\ DOMAIN sub' = Conns /\ \A d \in Conns \ {c} : sub'[d] = sub[d]
      /\ sub'[c].queue = Tail(sub[c].queue) /\ sub'[c].lastSchema = sub[c].lastSchema
      /\ SamePlace(sub'[c], sub[c]) /\ DOMAIN sub'[c] = SubFields
  BY <1>2 DEF SubRec, SubFields, SamePlace
<1>6. SubShape'
  BY <1>2, <1>4, <1>5 DEF SubShape, SubRec, SamePlace
<1> HIDE DEF h
<1>7. CASE Dropped(c, <<h>>) /\ Goto(c, "leaveWheel") /\ UNCHANGED wire
  <2>1. ConnShape' /\ Moves(c, "leaveWheel")
    BY <1>7, GotoMoves DEF Pcs, Streaming
  <2> DEFINE fs == <<h>>
  <2>2. IsSeq(fs) /\ Len(fs) = 1 /\ fs[1] = h /\ Dropped(c, fs)
    BY <1>7, OneIs
  <2> HIDE DEF fs
  <2>3. /\ DOMAIN fate' = Conns /\ fate[c] \subseteq fate'[c] /\ \A d \in Conns \ {c} : fate'[d] = fate[d]
        /\ \A i \in 1..Len(fs) : fs[i].ev # 0 => fs[i].ev \in fate'[c]
    BY <2>2, DroppedIs
  <2>4. h.ev # 0 => h.ev \in fate'[c]
    BY <2>2, <2>3
  <2>5. WireShape'
    BY <1>7, <2>3 DEF WireShape
  <2>6. Shape'
    BY <1>1, <1>6, <2>1, <2>5, Kept
  <2> QED BY <1>1, <1>5, <1>7, <2>1, <2>3, <2>4, <2>6 DEF h
<1>8. CASE Written(c, Recorded(h)) /\ UNCHANGED <<fate, conn>>
  <2>1. IsSeq(Recorded(h))
    BY OneIs, EmptyIs DEF Recorded
  <2>2. /\ DOMAIN wire' = Conns /\ \A d \in Conns \ {c} : wire'[d] = wire[d]
        /\ wire'[c] = wire[c] \o Recorded(h) /\ IsSeq(wire'[c])
    BY <1>8, <2>1, WrittenIs
  <2>3. WireShape'
    BY <1>8, <2>2 DEF WireShape
  <2>4. Shape'
    BY <1>1, <1>6, <1>8, <2>3, Kept
  <2> QED BY <1>1, <1>5, <1>8, <2>2, <2>4 DEF h
<1> QED BY <1>3, <1>7, <1>8

-----------------------------------------------------------------------------
(* The wheel's arithmetic.                                                 *)

\* The bucket behind the hand.
LEMMA BehindIs == ASSUME NEW n \in Nat \ {0}, NEW h \in 1..n PROVE ((h + n - 2) % n) + 1 = IF h = 1 THEN n ELSE h - 1
OBVIOUS

\* The bucket ahead of the hand.
LEMMA AheadIs == ASSUME NEW n \in Nat \ {0}, NEW h \in 1..n PROVE (h % n) + 1 = IF h = n THEN 1 ELSE h + 1
OBVIOUS

\* Dealing goes round the ring.
LEMMA WrapIs == ASSUME NEW n \in Nat \ {0}, NEW i \in Nat \ {0} PROVE ((i - 1) % n) + 1 \in 1..n
OBVIOUS

\* A new wheel is up, and empty.
LEMMA NewWheelIs ==
    ASSUME NEW id \in Nat \ {0}, NEW b \in Int
    PROVE  /\ WheelRec(NewWheel(id, b)) /\ NewWheel(id, b).up = TRUE /\ NewWheel(id, b).id = id
           /\ NewWheel(id, b).to = {} /\ NewWheel(id, b).hand = 1
           /\ \A i \in DOMAIN NewWheel(id, b).ring : NewWheel(id, b).ring[i] = {}
<1> DEFINE n == wheelShape(b)
           ring == [i \in 1..n |-> {}]
<1>1. n \in Nat \ {0}
  BY DEF wheelShape
<1> HIDE DEF n
<1>2. IsSeq(ring) /\ Len(ring) = n
  <2>1. ring = [i \in 1..n |-> ring[i]]
    OBVIOUS
  <2> HIDE DEF ring
  <2> QED BY <1>1, <2>1, FunIs
<1>3. \A i \in DOMAIN ring : ring[i] = {}
  OBVIOUS
<1>4. DOMAIN ring = 1..n
  OBVIOUS
<1> HIDE DEF ring
<1> DEFINE w == [up |-> TRUE, id |-> id, ring |-> ring, hand |-> 1, to |-> {}]
<1>5. WheelRec(w)
  BY <1>1, <1>2, <1>3, <1>4 DEF WheelRec
<1>6. NewWheel(id, b) = w
  BY DEF NewWheel, n, ring
<1> QED BY <1>3, <1>5, <1>6

\* The wheel a stream joins: the one there is, or a new one if the tenant is served.
LEMMA WheelForIs ==
    ASSUME Shape
    PROVE  /\ WheelRec(WheelFor) /\ WheelFor.id = wheel.id
           /\ WheelFor = wheel \/ /\ ~wheel.up /\ conf.serving = "served" /\ WheelFor.up /\ WheelFor.to = {}
                                  /\ \A i \in DOMAIN WheelFor.ring : WheelFor.ring[i] = {}
           /\ ~WheelFor.up => WheelFor = wheel /\ conf.serving # "served"
           /\ WheelFor.up => wheel.up \/ conf.serving = "served"
<1> USE DEF Shape
<1>1. wheel.id \in Nat \ {0} /\ WheelRec(wheel)
  BY DEF WheelShape, WheelRec
<1>2. conf.buckets \in Int
  <2>1. at \in DOMAIN world.confs /\ \A i \in DOMAIN world.confs : world.confs[i].buckets \in Int
    BY DEF CaseShape, Case
  <2> QED BY <2>1 DEF conf
<1> DEFINE new == NewWheel(wheel.id, conf.buckets)
<1>3. /\ WheelRec(new) /\ new.up = TRUE /\ new.id = wheel.id
      /\ new.to = {} /\ \A i \in DOMAIN new.ring : new.ring[i] = {}
  BY <1>1, <1>2, NewWheelIs
<1>4. WheelFor = IF wheel.up \/ conf.serving # "served" THEN wheel ELSE new
  BY DEF WheelFor
<1> HIDE DEF new
<1>5. CASE wheel.up \/ conf.serving # "served"
  BY <1>1, <1>4, <1>5
<1>6. CASE ~(wheel.up \/ conf.serving # "served")
  BY <1>3, <1>4, <1>6
<1> QED BY <1>5, <1>6

\* A stream joins the bucket behind the hand, unless its tenant has no wheel.
LEMMA WheelAddDoes ==
    ASSUME Shape, NEW c \in Conns, WheelAdd(c), UNCHANGED verifier
    PROVE  /\ Shape' /\ conn[c].pc = "wheel" /\ Moves(c, "loop")
           /\ UNCHANGED <<world, at, hooks, closing, hub, log, bpos, bc, out, wire, fate>>
           /\ \A d \in Conns \ {c} : sub'[d] = sub[d]
           /\ \/ ~wheel.up /\ conf.serving # "served" /\ wheel' = wheel /\ sub' = sub
              \/ /\ wheel'.up /\ wheel'.id = wheel.id /\ wheel'.to \subseteq wheel.to
                 /\ wheel.up \/ conf.serving = "served"
                 /\ sub'[c].wheel = wheel.id /\ sub'[c].bucket \in 1..Len(wheel'.ring) /\ sub'[c].quiet = 0
                 /\ Dist(wheel'.hand, sub'[c].bucket, Len(wheel'.ring)) = Len(wheel'.ring) - 1
                 /\ sub'[c].queue = sub[c].queue /\ sub'[c].lastSchema = sub[c].lastSchema
                 /\ sub'[c].closed = sub[c].closed /\ sub'[c].evicted = sub[c].evicted
                 /\ sub'[c].rpos = sub[c].rpos /\ sub'[c].from = sub[c].from /\ sub'[c].missed = sub[c].missed
                 /\ \/ /\ wheel.up /\ wheel'.hand = wheel.hand /\ Len(wheel'.ring) = Len(wheel.ring)
                       /\ \A i \in 1..Len(wheel.ring) :
                            wheel'.ring[i] = IF i = sub'[c].bucket THEN wheel.ring[i] \cup {c} ELSE wheel.ring[i]
                    \/ /\ ~wheel.up
                       /\ \A i \in 1..Len(wheel'.ring) : wheel'.ring[i] = IF i = sub'[c].bucket THEN {c} ELSE {}
<1> USE DEF Shape
<1> DEFINE w == WheelFor
           n == Len(w.ring)
           last == ((w.hand + n - 2) % n) + 1
<1>1. conn[c].pc = "wheel" /\ UNCHANGED <<world, at, hooks, closing, hub, log, bpos, bc, out, wire, fate>>
  BY DEF WheelAdd
<1>2. IF w.up
      THEN /\ wheel' = [w EXCEPT !.ring[last] = @ \cup {c}]
           /\ sub' = [sub EXCEPT ![c].wheel = w.id, ![c].bucket = last, ![c].quiet = 0]
      ELSE UNCHANGED <<wheel, sub>>
  BY DEF WheelAdd
<1>3. ConnShape' /\ Moves(c, "loop")
  BY GotoMoves DEF WheelAdd, Pcs, Streaming
<1>4. /\ WheelRec(w) /\ w.id = wheel.id
      /\ w = wheel \/ /\ ~wheel.up /\ conf.serving = "served" /\ w.up /\ w.to = {}
                      /\ \A i \in DOMAIN w.ring : w.ring[i] = {}
      /\ ~w.up => w = wheel /\ conf.serving # "served"
      /\ w.up => wheel.up \/ conf.serving = "served"
  BY WheelForIs
<1> HIDE DEF w
<1>5. n \in Nat \ {0} /\ w.hand \in 1..n /\ DOMAIN w.ring = 1..n /\ IsSeq(w.ring)
  <2>1. Len(w.ring) \in Nat /\ DOMAIN w.ring = 1..Len(w.ring) /\ IsSeq(w.ring) /\ w.hand \in 1..Len(w.ring)
    BY <1>4, SeqIs DEF WheelRec
  <2> QED BY <2>1
<1>6. last = IF w.hand = 1 THEN n ELSE w.hand - 1
  BY <1>5, BehindIs
<1> HIDE DEF last
<1>7. last \in 1..n /\ Dist(w.hand, last, n) = n - 1
  BY <1>5, <1>6 DEF Dist
<1>8. CASE ~w.up
  <2>1. Shape'
    BY <1>1, <1>2, <1>3, <1>8, Kept
  <2> QED BY <1>1, <1>2, <1>3, <1>4, <1>8, <2>1
<1>9. CASE w.up
  <2>1. wheel' = [w EXCEPT !.ring[last] = w.ring[last] \cup {c}]
    BY <1>2, <1>9
  <2> DEFINE ring == [w.ring EXCEPT ![last] = w.ring[last] \cup {c}]
  <2>2. /\ DOMAIN wheel' = {"up", "id", "ring", "hand", "to"}
        /\ wheel'.up = w.up /\ wheel'.id = w.id /\ wheel'.hand = w.hand /\ wheel'.to = w.to
        /\ wheel'.ring = ring
    BY <1>4, <2>1 DEF WheelRec
  <2>3. ring = [i \in 1..n |-> ring[i]]
    BY <1>5
  <2>4. \A i \in 1..n : ring[i] = IF i = last THEN w.ring[i] \cup {c} ELSE w.ring[i]
    BY <1>5
  <2> HIDE DEF ring
  <2>5. IsSeq(ring) /\ Len(ring) = n
    <3> HIDE DEF n
    <3>1. n \in Nat
      BY <1>5
    <3> QED BY <2>3, <3>1, FunIs
  <2>6. WheelShape'
    <3>1. \A i \in 1..n : w.ring[i] \subseteq Conns
      BY <1>4 DEF WheelRec
    <3>2. w.up \in BOOLEAN /\ w.id \in Nat \ {0} /\ w.to \subseteq Conns
      BY <1>4 DEF WheelRec
    <3> HIDE DEF n
    <3>3. \A i \in 1..n : ring[i] \subseteq Conns
      BY <2>4, <3>1
    <3>4. WheelRec(wheel')
      BY <1>5, <2>2, <2>5, <3>2, <3>3 DEF WheelRec
    <3> QED BY <3>4 DEF WheelShape
  <2>7. SubRec(sub[c]) /\ DOMAIN sub = Conns /\ sub' = [sub EXCEPT ![c].wheel = wheel.id, ![c].bucket = last, ![c].quiet = 0]
    BY <1>2, <1>4, <1>9 DEF SubShape
  <2>8. /\ DOMAIN sub' = Conns /\ \A d \in Conns \ {c} : sub'[d] = sub[d]
        /\ sub'[c].wheel = wheel.id /\ sub'[c].bucket = last /\ sub'[c].quiet = 0
        /\ sub'[c].queue = sub[c].queue /\ sub'[c].lastSchema = sub[c].lastSchema
        /\ sub'[c].closed = sub[c].closed /\ sub'[c].evicted = sub[c].evicted
        /\ sub'[c].rpos = sub[c].rpos /\ sub'[c].from = sub[c].from /\ sub'[c].missed = sub[c].missed /\ DOMAIN sub'[c] = SubFields
    BY <2>7 DEF SubRec, SubFields
  <2>9. wheel.id \in Nat
    BY DEF WheelShape, WheelRec
  <2>10. SubShape'
    <3>1. sub[c].rpos \in Nat /\ sub[c].from \in Nat /\ IsSeq(sub[c].queue) /\ sub[c].closed \in BOOLEAN /\ sub[c].evicted \in BOOLEAN
      BY <2>7 DEF SubRec
    <3>2. SubRec(sub'[c])
      BY <1>5, <1>7, <2>8, <2>9, <3>1 DEF SubRec
    <3>3. \A d \in Conns \ {c} : SubRec(sub'[d])
      BY <2>8 DEF SubShape
    <3> QED BY <2>8, <3>2, <3>3 DEF SubShape
  <2>11. Shape'
    BY <1>1, <1>3, <2>6, <2>10, Kept
  <2>12. \/ /\ wheel.up /\ w = wheel
         \/ /\ ~wheel.up /\ w.to = {} /\ \A i \in DOMAIN w.ring : w.ring[i] = {}
    BY <1>4, <1>9
  <2>13. w.to \subseteq wheel.to
    BY <2>12
  <2>14. \/ /\ wheel.up /\ wheel'.hand = wheel.hand /\ Len(wheel'.ring) = Len(wheel.ring)
            /\ \A i \in 1..Len(wheel.ring) :
                 wheel'.ring[i] = IF i = sub'[c].bucket THEN wheel.ring[i] \cup {c} ELSE wheel.ring[i]
         \/ /\ ~wheel.up
            /\ \A i \in 1..Len(wheel'.ring) : wheel'.ring[i] = IF i = sub'[c].bucket THEN {c} ELSE {}
    <3>1. sub'[c].bucket = last /\ wheel'.ring = ring /\ wheel'.hand = w.hand
      BY <2>2, <2>8
    <3>2. CASE wheel.up /\ w = wheel
      <4>1. n = Len(wheel.ring) /\ \A i \in 1..n : ring[i] = IF i = last THEN wheel.ring[i] \cup {c} ELSE wheel.ring[i]
        BY <2>4, <3>2
      <4> HIDE DEF n
      <4> QED BY <2>5, <3>1, <3>2, <4>1
    <3>3. CASE ~wheel.up /\ \A i \in DOMAIN w.ring : w.ring[i] = {}
      <4> HIDE DEF n
      <4>1. \A i \in 1..n : ring[i] = IF i = last THEN {c} ELSE {}
        BY <1>5, <2>4, <3>3
      <4> QED BY <2>5, <3>1, <3>3, <4>1
    <3> QED BY <2>12, <3>2, <3>3
  <2> QED BY <1>1, <1>3, <1>4, <1>7, <1>9, <2>2, <2>5, <2>8, <2>11, <2>13, <2>14
<1> QED BY <1>8, <1>9

\* A stream leaves the wheel it joined, if that is still its tenant's.
LEMMA WheelRemoveDoes ==
    ASSUME Shape, NEW c \in Conns, WheelRemove(c), InWheel(c), UNCHANGED verifier
    PROVE  /\ Shape' /\ conn[c].pc = "leaveWheel" /\ Moves(c, "leaveHub")
           /\ UNCHANGED <<world, at, hooks, closing, sub, hub, log, bpos, bc, out, wire, fate>>
           /\ wheel'.up = wheel.up /\ wheel'.id = wheel.id /\ wheel'.hand = wheel.hand /\ wheel'.to = wheel.to
           /\ Len(wheel'.ring) = Len(wheel.ring)
           /\ \A i \in 1..Len(wheel.ring) : wheel'.ring[i] = wheel.ring[i] \ {c}
<1> USE DEF Shape
<1>1. conn[c].pc = "leaveWheel" /\ UNCHANGED <<world, at, hooks, closing, sub, hub, log, bpos, bc, out, wire, fate>>
  BY DEF WheelRemove
<1>2. ConnShape' /\ Moves(c, "leaveHub")
  BY GotoMoves DEF WheelRemove, Pcs, Streaming
<1> DEFINE n == Len(wheel.ring)
           b == sub[c].bucket
<1>3. n \in Nat /\ DOMAIN wheel.ring = 1..n /\ WheelRec(wheel)
  BY SeqIs DEF WheelShape, WheelRec
<1>4. \A i \in 1..n : c \in wheel.ring[i] => sub[c].wheel = wheel.id /\ i = b
  BY <1>3 DEF InWheel, Joined
<1>5. CASE sub[c].wheel = wheel.id
  <2>1. b \in 1..n
    BY <1>1, <1>5 DEF InWheel, Joined
  <2>2. wheel' = [wheel EXCEPT !.ring[b] = wheel.ring[b] \ {c}]
    BY <1>5 DEF WheelRemove
  <2> DEFINE ring == [wheel.ring EXCEPT ![b] = wheel.ring[b] \ {c}]
  <2>3. /\ DOMAIN wheel' = {"up", "id", "ring", "hand", "to"}
        /\ wheel'.up = wheel.up /\ wheel'.id = wheel.id /\ wheel'.hand = wheel.hand /\ wheel'.to = wheel.to
        /\ wheel'.ring = ring
    BY <1>3, <2>2 DEF WheelRec
  <2>4. ring = [i \in 1..n |-> ring[i]]
    BY <1>3
  <2>5. \A i \in 1..n : ring[i] = wheel.ring[i] \ {c}
    BY <1>3, <1>4, <2>1
  <2> HIDE DEF ring
  <2>6. IsSeq(ring) /\ Len(ring) = n
    <3> HIDE DEF n
    <3> QED BY <2>4, <1>3, FunIs
  <2>7. WheelShape'
    BY <1>3, <2>3, <2>5, <2>6 DEF WheelShape, WheelRec
  <2>8. Shape'
    BY <1>1, <1>2, <2>7, Kept
  <2> QED BY <1>1, <1>2, <2>3, <2>5, <2>6, <2>8
<1>6. CASE sub[c].wheel # wheel.id
  <2>1. wheel' = wheel
    BY <1>6 DEF WheelRemove
  <2>2. \A i \in 1..n : wheel.ring[i] = wheel.ring[i] \ {c}
    BY <1>4, <1>6
  <2>3. Shape'
    BY <1>1, <1>2, <2>1, Kept
  <2> QED BY <1>1, <1>2, <2>1, <2>2, <2>3
<1> QED BY <1>5, <1>6

-----------------------------------------------------------------------------
(* The rest of the handler, and the hooks.                                 *)

\* Remove takes the stream out of its role's bucket, and drops an empty one.
LEMMA HubRemoveDoes ==
    ASSUME Shape, NEW c \in Conns, HubRemove(c), UNCHANGED verifier
    PROVE  /\ Shape' /\ conn[c].pc = "leaveHub" /\ Moves(c, "close")
           /\ UNCHANGED <<world, at, hooks, closing, sub, log, bpos, bc, out, wheel, wire, fate>>
           /\ hub'[conn[c].role].subs = hub[conn[c].role].subs \ {c}
           /\ hub[conn[c].role].subs # {c} => hub'[conn[c].role].gen = hub[conn[c].role].gen
           /\ \A r \in Roles \ {conn[c].role} : hub'[r] = hub[r]
<1> USE DEF Shape
<1>1. conn[c].pc = "leaveHub" /\ UNCHANGED <<world, at, hooks, closing, sub, log, bpos, bc, out, wheel, wire, fate>>
  BY DEF HubRemove
<1>2. ConnShape' /\ Moves(c, "close")
  BY GotoMoves DEF HubRemove, Pcs, Ended
<1>3. conn[c].role \in Roles /\ HubRec(hub[conn[c].role]) /\ DOMAIN hub = Roles
  BY DEF ConnShape, ConnRec, HubShape
<1> DEFINE b == hub[conn[c].role]
           new == [subs |-> b.subs \ {c}, gen |-> IF b.subs = {c} THEN b.gen + 1 ELSE b.gen]
<1>4. hub' = [hub EXCEPT ![conn[c].role] = new]
  BY DEF HubRemove
<1>5. HubRec(new) /\ new.subs = b.subs \ {c} /\ (b.subs # {c} => new.gen = b.gen)
  BY <1>3 DEF HubRec
<1> HIDE DEF new
<1>6. hub'[conn[c].role] = new /\ DOMAIN hub' = Roles /\ \A r \in Roles \ {conn[c].role} : hub'[r] = hub[r]
  BY <1>3, <1>4
<1>7. HubShape'
  BY <1>5, <1>6 DEF HubShape
<1>8. Shape'
  BY <1>1, <1>2, <1>7, Kept
<1> QED BY <1>1, <1>2, <1>5, <1>6, <1>8

\* Nothing of a stream changes but whether it is closed.
SameBut(c) ==
    /\ sub'[c].queue = sub[c].queue /\ sub'[c].lastSchema = sub[c].lastSchema /\ sub'[c].evicted = sub[c].evicted
    /\ sub'[c].rpos = sub[c].rpos /\ sub'[c].from = sub[c].from /\ sub'[c].missed = sub[c].missed
    /\ sub'[c].wheel = sub[c].wheel /\ sub'[c].bucket = sub[c].bucket /\ sub'[c].quiet = sub[c].quiet

\* A closed subscriber takes no frames.
LEMMA CloseDoes ==
    ASSUME Shape, NEW c \in Conns, Close(c), UNCHANGED verifier
    PROVE  /\ Shape' /\ conn[c].pc = "close" /\ Moves(c, "discard")
           /\ UNCHANGED <<world, at, hooks, closing, hub, log, bpos, bc, out, wheel, wire, fate>>
           /\ \A d \in Conns \ {c} : sub'[d] = sub[d]
           /\ sub'[c].closed /\ SameBut(c)
<1> USE DEF Shape
<1>1. conn[c].pc = "close" /\ UNCHANGED <<world, at, hooks, closing, hub, log, bpos, bc, out, wheel, wire, fate>>
  BY DEF Close
<1>2. ConnShape' /\ Moves(c, "discard")
  BY GotoMoves DEF Close, Pcs, Ended
<1>3. sub' = [sub EXCEPT ![c].closed = TRUE] /\ SubRec(sub[c]) /\ DOMAIN sub = Conns
  BY DEF Close, SubShape
<1>4. /\ DOMAIN sub' = Conns /\ \A d \in Conns \ {c} : sub'[d] = sub[d]
      /\ sub'[c].closed /\ SameBut(c) /\ SubRec(sub'[c])
  BY <1>3 DEF SubRec, SubFields, SameBut
<1>5. SubShape'
  BY <1>4 DEF SubShape
<1>6. Shape'
  BY <1>1, <1>2, <1>5, Kept
<1> QED BY <1>1, <1>2, <1>4, <1>6

\* What a closed subscriber still had queued is let go of.
LEMMA DiscardDoes ==
    ASSUME Shape, NEW c \in Conns, Discard(c), UNCHANGED verifier
    PROVE  /\ Shape' /\ conn[c].pc = "discard" /\ Moves(c, "done")
           /\ UNCHANGED <<world, at, hooks, closing, hub, log, bpos, bc, out, wheel, wire>>
           /\ \A d \in Conns \ {c} : sub'[d] = sub[d] /\ fate'[d] = fate[d]
           /\ sub'[c].queue = <<>> /\ SamePlace(sub'[c], sub[c]) /\ sub'[c].lastSchema = sub[c].lastSchema
<1> USE DEF Shape
<1>1. conn[c].pc = "discard" /\ UNCHANGED <<world, at, hooks, closing, hub, log, bpos, bc, out, wheel, wire>>
  BY DEF Discard
<1>2. ConnShape' /\ Moves(c, "done")
  BY GotoMoves DEF Discard, Pcs, Ended
<1>3. sub' = [sub EXCEPT ![c].queue = <<>>] /\ SubRec(sub[c]) /\ DOMAIN sub = Conns /\ Dropped(c, sub[c].queue)
  BY DEF Discard, SubShape
<1>4. /\ DOMAIN sub' = Conns /\ \A d \in Conns \ {c} : sub'[d] = sub[d]
      /\ sub'[c].queue = <<>> /\ SamePlace(sub'[c], sub[c]) /\ sub'[c].lastSchema = sub[c].lastSchema /\ DOMAIN sub'[c] = SubFields
  BY <1>3 DEF SubRec, SubFields, SamePlace
<1>5. SubShape'
  BY <1>3, <1>4, EmptyIs DEF SubShape, SubRec, SamePlace
<1>6. DOMAIN fate' = Conns /\ \A d \in Conns \ {c} : fate'[d] = fate[d]
  <2>1. IsSeq(sub[c].queue)
    BY <1>3 DEF SubRec
  <2> QED BY <1>3, <2>1, DroppedIs
<1>7. WireShape'
  BY <1>1, <1>6 DEF WireShape
<1>8. Shape'
  BY <1>1, <1>2, <1>5, <1>7, Kept
<1> QED BY <1>1, <1>2, <1>4, <1>6, <1>8

\* A client leaves; its handler has not noticed.
LEMMA ClientGoneDoes ==
    ASSUME Shape, NEW c \in Conns, ClientGone(c), UNCHANGED verifier
    PROVE  /\ Shape' /\ conn'[c].pc = conn[c].pc /\ conn'[c].role = conn[c].role /\ conn'[c].gone = TRUE
           /\ \A d \in Conns \ {c} : conn'[d] = conn[d]
           /\ UNCHANGED <<world, at, hooks, closing, sub, hub, log, bpos, bc, out, wheel, wire, fate>>
<1> USE DEF Shape
<1>1. UNCHANGED <<world, at, hooks, closing, sub, hub, log, bpos, bc, out, wheel, wire, fate>>
  BY DEF ClientGone, streamVars
<1>2. /\ conn'[c].pc = conn[c].pc /\ conn'[c].role = conn[c].role /\ conn'[c].gone = TRUE
      /\ \A d \in Conns \ {c} : conn'[d] = conn[d]
  BY DEF ClientGone, ConnShape, ConnRec, ConnFields
<1>3. ConnShape'
  BY DEF ClientGone, ConnShape, ConnRec, ConnFields
<1> QED BY <1>1, <1>2, <1>3, Kept

\* The server begins to shut down.
LEMMA ShutdownDoes ==
    ASSUME Shape, Shutdown, UNCHANGED verifier
    PROVE  /\ Shape' /\ closing' = TRUE
           /\ UNCHANGED <<world, at, hooks, conn, sub, hub, log, bpos, bc, out, wheel, wire, fate>>
<1>1. closing' = TRUE /\ UNCHANGED <<world, at, hooks, conn, sub, hub, log, bpos, bc, out, wheel, wire, fate>>
  BY DEF Shutdown, streamVars
<1> QED BY <1>1, Kept DEF Shape

\* The hand moves on; the bucket it was at is served, the others wait a tick more.
LEMMA TickDoes ==
    ASSUME Shape, Tick, UNCHANGED verifier
    PROVE  /\ Shape' /\ wheel.up /\ wheel.to = {}
           /\ UNCHANGED <<world, at, hooks, closing, conn, hub, log, bpos, bc, out, wire, fate>>
           /\ wheel'.up = wheel.up /\ wheel'.id = wheel.id /\ wheel'.ring = wheel.ring
           /\ wheel'.to = wheel.ring[wheel.hand] /\ wheel.hand \in 1..Len(wheel.ring)
           /\ wheel'.hand = IF wheel.hand = Len(wheel.ring) THEN 1 ELSE wheel.hand + 1
           /\ \A c \in Conns :
                /\ sub'[c].queue = sub[c].queue /\ sub'[c].lastSchema = sub[c].lastSchema
                /\ sub'[c].closed = sub[c].closed /\ sub'[c].evicted = sub[c].evicted
                /\ sub'[c].rpos = sub[c].rpos /\ sub'[c].from = sub[c].from /\ sub'[c].missed = sub[c].missed
                /\ sub'[c].wheel = sub[c].wheel /\ sub'[c].bucket = sub[c].bucket
                /\ sub'[c].quiet = IF \E i \in 1..Len(wheel.ring) : c \in wheel.ring[i]
                                   THEN IF c \in wheel.ring[wheel.hand] THEN 0 ELSE sub[c].quiet + 1
                                   ELSE sub[c].quiet
<1> USE DEF Shape
<1> DEFINE n == Len(wheel.ring)
<1>1. wheel.up /\ wheel.to = {} /\ UNCHANGED <<world, at, hooks, closing, conn, hub, log, bpos, bc, out, wire, fate>>
  BY DEF Tick
<1>2. n \in Nat /\ DOMAIN wheel.ring = 1..n /\ WheelRec(wheel) /\ wheel.hand \in 1..n /\ wheel.ring[wheel.hand] \subseteq Conns
  BY SeqIs DEF WheelShape, WheelRec
<1>3. wheel' = [wheel EXCEPT !.to = wheel.ring[wheel.hand], !.hand = (wheel.hand % n) + 1]
  BY DEF Tick
<1> HIDE DEF n
<1>4. (wheel.hand % n) + 1 = IF wheel.hand = n THEN 1 ELSE wheel.hand + 1
  <2> DEFINE h == wheel.hand
  <2>1. n \in Nat \ {0} /\ h \in 1..n
    BY <1>2
  <2> HIDE DEF h
  <2>2. (h % n) + 1 = IF h = n THEN 1 ELSE h + 1
    BY <2>1, AheadIs
  <2> QED BY <2>2 DEF h
<1>5. /\ DOMAIN wheel' = {"up", "id", "ring", "hand", "to"}
      /\ wheel'.up = wheel.up /\ wheel'.id = wheel.id /\ wheel'.ring = wheel.ring
      /\ wheel'.to = wheel.ring[wheel.hand] /\ wheel'.hand = IF wheel.hand = n THEN 1 ELSE wheel.hand + 1
  BY <1>2, <1>3, <1>4 DEF WheelRec
<1>6. WheelShape'
  <2>1. wheel'.hand \in 1..n
    BY <1>2, <1>5
  <2> QED BY <1>2, <1>5, <2>1 DEF WheelShape, WheelRec, n
<1>7. ASSUME NEW c \in Conns
      PROVE  /\ sub'[c].queue = sub[c].queue /\ sub'[c].lastSchema = sub[c].lastSchema
             /\ sub'[c].closed = sub[c].closed /\ sub'[c].evicted = sub[c].evicted
             /\ sub'[c].rpos = sub[c].rpos /\ sub'[c].from = sub[c].from /\ sub'[c].missed = sub[c].missed
             /\ sub'[c].wheel = sub[c].wheel /\ sub'[c].bucket = sub[c].bucket
             /\ sub'[c].quiet = IF \E i \in 1..n : c \in wheel.ring[i]
                                THEN IF c \in wheel.ring[wheel.hand] THEN 0 ELSE sub[c].quiet + 1
                                ELSE sub[c].quiet
             /\ DOMAIN sub'[c] = SubFields
  <2>1. sub'[c] = IF \E i \in 1..n : c \in wheel.ring[i]
                  THEN [sub[c] EXCEPT !.quiet = IF c \in wheel.ring[wheel.hand] THEN 0 ELSE sub[c].quiet + 1]
                  ELSE sub[c]
    BY <1>2 DEF Tick, SubShape, SubRec, SubFields
  <2>2. DOMAIN sub[c] = SubFields
    BY DEF SubShape, SubRec
  <2> QED BY <2>1, <2>2 DEF SubFields
<1>8. DOMAIN sub' = Conns
  BY DEF Tick
<1>9. SubShape'
  <2>1. ASSUME NEW c \in Conns PROVE SubRec(sub'[c])
    <3>1. SubRec(sub[c])
      BY DEF SubShape
    <3> QED BY <1>7, <3>1 DEF SubRec
  <2> QED BY <1>8, <2>1 DEF SubShape
<1>10. Shape'
  BY <1>1, <1>6, <1>9, Kept
<1> QED BY <1>1, <1>2, <1>5, <1>7, <1>10 DEF n

\* A keepalive is on its way to one of those the hand reached.
LEMMA WheelSendDoes ==
    ASSUME Shape, NEW c \in Conns, WheelSend(c), UNCHANGED verifier
    PROVE  /\ Shape' /\ c \in wheel.to /\ out["wheel"].c = None
           /\ UNCHANGED <<world, at, hooks, closing, conn, sub, hub, log, bpos, bc, wire, fate>>
           /\ wheel'.up = wheel.up /\ wheel'.id = wheel.id /\ wheel'.ring = wheel.ring /\ wheel'.hand = wheel.hand
           /\ wheel'.to = wheel.to \ {c}
           /\ out'["hub"] = out["hub"]
           /\ \/ out' = out
              \/ out'["wheel"].c = c /\ out'["wheel"].frame = Keepalive
<1> USE DEF Shape
<1>1. c \in wheel.to /\ out["wheel"].c = None /\ UNCHANGED <<world, at, hooks, closing, conn, sub, hub, log, bpos, bc, wire, fate>>
  BY DEF WheelSend
<1>2. /\ wheel'.up = wheel.up /\ wheel'.id = wheel.id /\ wheel'.ring = wheel.ring /\ wheel'.hand = wheel.hand
      /\ wheel'.to = wheel.to \ {c} /\ DOMAIN wheel' = {"up", "id", "ring", "hand", "to"}
  BY DEF WheelSend, WheelShape, WheelRec
<1>3. WheelShape'
  BY <1>2 DEF WheelShape, WheelRec
<1>4. DOMAIN out = Senders /\ "wheel" \in Senders /\ "hub" \in Senders
  BY DEF OutShape, Senders
<1> DEFINE new == [c |-> c, frame |-> Keepalive, then |-> <<>>]
<1>5. out' = out \/ out' = [out EXCEPT !["wheel"] = new]
  BY DEF WheelSend
<1>6. OutRec(new) /\ new.c = c /\ new.frame = Keepalive
  BY EmptyIs DEF OutRec
<1> HIDE DEF new
<1>7. CASE out' = out
  <2>1. Shape'
    BY <1>1, <1>3, <1>7, Kept
  <2> QED BY <1>1, <1>2, <1>7, <2>1
<1>8. CASE out' = [out EXCEPT !["wheel"] = new]
  <2>1. out'["wheel"] = new /\ out'["hub"] = out["hub"] /\ DOMAIN out' = Senders
    BY <1>4, <1>8
  <2>2. OutShape'
    BY <1>6, <2>1 DEF OutShape, Senders
  <2>3. Shape'
    BY <1>1, <1>3, <2>2, Kept
  <2> QED BY <1>1, <1>2, <1>6, <2>1, <2>3
<1> QED BY <1>5, <1>7, <1>8

\* The hooks still to run of a reload, in their order.
LEMMA HooksAre ==
    ASSUME hooks \in HookLists
    PROVE  /\ Len(hooks) \in 0..3
           /\ hooks # <<>> /\ Head(hooks) = "prune" => hooks = <<"prune", "wheel", "auth">> /\ Tail(hooks) = <<"wheel", "auth">> /\ Len(hooks) = 3
           /\ hooks # <<>> /\ Head(hooks) = "wheel" => hooks = <<"wheel", "auth">> /\ Tail(hooks) = <<"auth">> /\ Len(hooks) = 2
           /\ hooks # <<>> /\ Head(hooks) = "auth" => hooks = <<"auth">> /\ Tail(hooks) = <<>> /\ Len(hooks) = 1
<1>1. Len(<<>>) = 0 /\ Len(<<"auth">>) = 1 /\ Len(<<"wheel", "auth">>) = 2 /\ Len(<<"prune", "wheel", "auth">>) = 3
  OBVIOUS
<1>2. Head(<<"auth">>) = "auth" /\ Head(<<"wheel", "auth">>) = "wheel" /\ Head(<<"prune", "wheel", "auth">>) = "prune"
  OBVIOUS
<1>3. Tail(<<"auth">>) = <<>> /\ Tail(<<"wheel", "auth">>) = <<"auth">> /\ Tail(<<"prune", "wheel", "auth">>) = <<"wheel", "auth">>
  OBVIOUS
<1>4. hooks = <<>> \/ hooks = <<"auth">> \/ hooks = <<"wheel", "auth">> \/ hooks = <<"prune", "wheel", "auth">>
  BY DEF HookLists
<1>5. "prune" # "wheel" /\ "prune" # "auth" /\ "wheel" # "auth"
  OBVIOUS
<1>6. CASE hooks = <<>>
  BY <1>1, <1>6
<1>7. CASE hooks = <<"auth">>
  BY <1>1, <1>2, <1>3, <1>5, <1>7
<1>8. CASE hooks = <<"wheel", "auth">>
  BY <1>1, <1>2, <1>3, <1>5, <1>8
<1>9. CASE hooks = <<"prune", "wheel", "auth">>
  BY <1>1, <1>2, <1>3, <1>5, <1>9
<1> QED BY <1>4, <1>6, <1>7, <1>8, <1>9

\* Every stream of the hub is told to end, if its tenant is not served.
LEMMA PruneHookDoes ==
    ASSUME Shape, PruneHook, UNCHANGED verifier
    PROVE  /\ Shape' /\ hooks = <<"prune", "wheel", "auth">> /\ hooks' = <<"wheel", "auth">>
           /\ UNCHANGED <<world, at, closing, conn, hub, log, bpos, bc, out, wheel, wire, fate>>
           /\ \A c \in Conns :
                /\ sub'[c].queue = sub[c].queue /\ sub'[c].lastSchema = sub[c].lastSchema
                /\ sub'[c].closed = sub[c].closed /\ sub'[c].rpos = sub[c].rpos /\ sub'[c].from = sub[c].from /\ sub'[c].missed = sub[c].missed
                /\ sub'[c].wheel = sub[c].wheel /\ sub'[c].bucket = sub[c].bucket /\ sub'[c].quiet = sub[c].quiet
                /\ sub[c].evicted => sub'[c].evicted
                /\ conf.serving # "served" /\ (\E r \in Roles : c \in hub[r].subs) => sub'[c].evicted
<1> USE DEF Shape
<1>1. /\ hooks = <<"prune", "wheel", "auth">> /\ hooks' = <<"wheel", "auth">>
      /\ UNCHANGED <<world, at, closing, conn, hub, log, bpos, bc, out, wheel, wire, fate>>
  BY HooksAre DEF PruneHook, CaseShape
<1>2. CaseShape'
  BY <1>1 DEF CaseShape, HookLists
<1>3. CASE conf.serving = "served"
  <2>1. sub' = sub
    BY <1>3 DEF PruneHook, Prune
  <2>2. Shape'
    BY <1>1, <1>2, <2>1, Kept
  <2> QED BY <1>1, <1>3, <2>1, <2>2
<1>4. CASE conf.serving # "served"
  <2> DEFINE all == UNION {hub[r].subs : r \in Roles}
  <2>1. sub' = [c \in Conns |-> IF c \in all THEN [sub[c] EXCEPT !.evicted = TRUE] ELSE sub[c]]
    BY <1>4 DEF PruneHook, Prune
  <2>2. \A c \in Conns : c \in all <=> \E r \in Roles : c \in hub[r].subs
    OBVIOUS
  <2> HIDE DEF all
  <2>3. ASSUME NEW c \in Conns
        PROVE  /\ sub'[c].queue = sub[c].queue /\ sub'[c].lastSchema = sub[c].lastSchema
               /\ sub'[c].closed = sub[c].closed /\ sub'[c].rpos = sub[c].rpos /\ sub'[c].from = sub[c].from /\ sub'[c].missed = sub[c].missed
               /\ sub'[c].wheel = sub[c].wheel /\ sub'[c].bucket = sub[c].bucket /\ sub'[c].quiet = sub[c].quiet
               /\ sub'[c].evicted = IF c \in all THEN TRUE ELSE sub[c].evicted
               /\ DOMAIN sub'[c] = SubFields
    BY <2>1 DEF SubShape, SubRec, SubFields
  <2>4. DOMAIN sub' = Conns
    BY <2>1
  <2>5. SubShape'
    <3>1. ASSUME NEW c \in Conns PROVE SubRec(sub'[c])
      <4>1. SubRec(sub[c])
        BY DEF SubShape
      <4> QED BY <2>3, <4>1 DEF SubRec
    <3> QED BY <2>4, <3>1 DEF SubShape
  <2>6. Shape'
    BY <1>1, <1>2, <2>5, Kept
  <2> QED BY <1>1, <2>2, <2>3, <2>6
<1> QED BY <1>3, <1>4

\* The hook of the authentication settings changes the verifier alone.
LEMMA AuthHookDoes ==
    ASSUME Shape, AuthHook
    PROVE  /\ Shape' /\ hooks = <<"auth">> /\ hooks' = <<>>
           /\ UNCHANGED <<world, at, closing, conn, sub, hub, log, bpos, bc, out, wheel, wire, fate>>
<1> USE DEF Shape
<1>1. /\ hooks = <<"auth">> /\ hooks' = <<>>
      /\ UNCHANGED <<world, at, closing, conn, sub, hub, log, bpos, bc, out, wheel, wire, fate>>
  BY HooksAre DEF AuthHook, CaseShape, streamVars
<1>2. CaseShape'
  BY <1>1 DEF CaseShape, HookLists
<1>3. VerifierShape'
  <2>1. at \in DOMAIN world.confs
    BY DEF CaseShape
  <2>2. \/ verifier' = verifier
        \/ verifier' = newVerifier(conf.wiring)
        \/ verifier' = NoVerifier
    BY DEF AuthHook, Reconfigured
  <2>3. CASE verifier' = verifier
    BY <1>1, <2>3 DEF VerifierShape
  <2>4. CASE verifier' = newVerifier(conf.wiring)
    <3>1. verifier'.wiring = world.confs[at].wiring /\ verifier'.none \in BOOLEAN /\ DOMAIN verifier' = {"none", "wiring", "ready"}
      BY <2>4 DEF newVerifier, conf
    <3> QED BY <1>1, <2>1, <3>1 DEF VerifierShape
  <2>5. CASE verifier' = NoVerifier
    BY <2>5 DEF VerifierShape, NoVerifier
  <2> QED BY <2>2, <2>3, <2>4, <2>5
<1> QED BY <1>1, <1>2, <1>3, Kept

\* The verifier gets its keys, which no stream is concerned with.
LEMMA FetchKeysDoes ==
    ASSUME Shape, FetchKeys
    PROVE  /\ Shape'
           /\ UNCHANGED <<world, at, hooks, closing, conn, sub, hub, log, bpos, bc, out, wheel, wire, fate>>
<1> USE DEF Shape
<1>1. UNCHANGED <<world, at, hooks, closing, conn, sub, hub, log, bpos, bc, out, wheel, wire, fate>>
  BY DEF FetchKeys, streamVars
<1>2. VerifierShape'
  BY <1>1 DEF FetchKeys, VerifierShape
<1> QED BY <1>1, <1>2, Kept

\* A reload: the settings change, and three hooks are to run.
LEMMA ReloadDoes ==
    ASSUME Shape, Reload
    PROVE  /\ Shape' /\ hooks = <<>> /\ hooks' = <<"prune", "wheel", "auth">>
           /\ UNCHANGED <<world, closing, conn, sub, hub, log, bpos, bc, out, wheel, wire, fate>>
<1> USE DEF Shape
<1>1. /\ hooks = <<>> /\ hooks' = <<"prune", "wheel", "auth">> /\ at' = at + 1 /\ at < Len(world.confs) /\ UNCHANGED verifier
      /\ UNCHANGED <<world, closing, conn, sub, hub, log, bpos, bc, out, wheel, wire, fate>>
  BY DEF Reload, streamVars
<1>2. CaseShape'
  <2>1. at \in DOMAIN world.confs /\ Case(world)
    BY DEF CaseShape
  <2>2. IsSeq(world.confs)
    BY <2>1 DEF Case, IsSeq
  <2>3. at + 1 \in DOMAIN world.confs
    BY <1>1, <2>1, <2>2, SeqIs
  <2> QED BY <1>1, <2>1, <2>3 DEF CaseShape, HookLists
<1> QED BY <1>1, <1>2, Kept

-----------------------------------------------------------------------------
(* The wheel is made, reshaped, or stopped.                                *)

\* The members of a finite set in some order, each once.
LEMMA SetToSeqIs ==
    ASSUME NEW S, IsFiniteSet(S)
    PROVE  \E n \in Nat :
             /\ DOMAIN SetToSeq(S) = 1..n
             /\ \A i \in 1..n : SetToSeq(S)[i] \in S
             /\ \A x \in S : \E i \in 1..n : SetToSeq(S)[i] = x
             /\ \A i, j \in 1..n : SetToSeq(S)[i] = SetToSeq(S)[j] => i = j
<1> DEFINE n == Cardinality(S)
           s == SetToSeq(S)
<1>1. n \in Nat /\ ExistsBijection(1..n, S)
  BY FS_CardinalityType
<1>2. PICK f : f \in Bijection(1..n, S)
  BY <1>1 DEF ExistsBijection
<1>3. f \in [1..n -> S] /\ IsInjective(f)
  BY <1>2 DEF Bijection, Injection, IsInjective
<1>4. s \in [1..n -> S] /\ IsInjective(s)
  BY <1>3 DEF SetToSeq
<1> HIDE DEF n, s
<1>5. IsFiniteSet(1..n) /\ Cardinality(1..n) = n
  BY <1>1, FS_Interval
<1>6. s \in Injection(1..n, S)
  BY <1>4 DEF Injection
<1>7. s \in Surjection(1..n, S)
  <2>1. Cardinality(1..n) = Cardinality(S) <=> s \in Surjection(1..n, S)
    BY <1>6, FS_Injection
  <2> QED BY <1>5, <2>1 DEF n
<1>8. \A x \in S : \E i \in 1..n : s[i] = x
  BY <1>7 DEF Surjection
<1>9. \A i, j \in 1..n : s[i] = s[j] => i = j
  BY <1>4 DEF IsInjective
<1>10. DOMAIN s = 1..n /\ \A i \in 1..n : s[i] \in S
  BY <1>4
<1> QED BY <1>1, <1>8, <1>9, <1>10 DEF s

\* What the wheel holds.
OnRing(c) == \E i \in 1..Len(wheel.ring) : c \in wheel.ring[i]

\* The wheel stays as it is, or all it holds is dealt over another number of
\* buckets, each in one.
Dealt ==
    /\ wheel'.up = wheel.up /\ wheel'.id = wheel.id /\ wheel'.to = wheel.to
    /\ wheel'.hand = 1
    /\ \A c \in Conns :
         /\ sub'[c].queue = sub[c].queue /\ sub'[c].lastSchema = sub[c].lastSchema
         /\ sub'[c].closed = sub[c].closed /\ sub'[c].evicted = sub[c].evicted
         /\ sub'[c].rpos = sub[c].rpos /\ sub'[c].from = sub[c].from /\ sub'[c].missed = sub[c].missed /\ sub'[c].wheel = sub[c].wheel
         /\ IF OnRing(c)
            THEN /\ sub'[c].quiet = 0 /\ sub'[c].bucket \in 1..Len(wheel'.ring)
                 /\ \A b \in 1..Len(wheel'.ring) : c \in wheel'.ring[b] <=> b = sub'[c].bucket
            ELSE /\ sub'[c] = sub[c] /\ \A b \in 1..Len(wheel'.ring) : c \notin wheel'.ring[b]

\* Reconfigure deals every stream the wheel held into the new ring.
LEMMA ReconfigureDoes ==
    ASSUME Shape, Reconfigure
    PROVE  /\ WheelShape' /\ SubShape'
           /\ (wheel' = wheel /\ sub' = sub) \/ Dealt
<1> USE DEF Shape
<1> DEFINE n == wheelShape(conf.buckets)
           S == UNION {wheel.ring[i] : i \in DOMAIN wheel.ring}
           members == SetToSeq(S)
<1>1. n \in Nat \ {0}
  <2>1. at \in DOMAIN world.confs /\ \A i \in DOMAIN world.confs : world.confs[i].buckets \in Int
    BY DEF CaseShape, Case
  <2>2. conf.buckets \in Int
    BY <2>1 DEF conf
  <2> QED BY <2>2 DEF wheelShape
<1>2. DOMAIN wheel.ring = 1..Len(wheel.ring) /\ WheelRec(wheel) /\ DOMAIN sub = Conns
  BY SeqIs DEF WheelShape, WheelRec, SubShape
<1>3. S \subseteq Conns /\ \A c : c \in S <=> OnRing(c)
  BY <1>2 DEF WheelRec, OnRing
<1>4. IsFiniteSet(S)
  BY <1>3, FS_Subset, ConnsAssumption
<1>5. PICK m \in Nat :
        /\ DOMAIN members = 1..m
        /\ \A i \in 1..m : members[i] \in S
        /\ \A x \in S : \E i \in 1..m : members[i] = x
        /\ \A i, j \in 1..m : members[i] = members[j] => i = j
  <2> HIDE DEF S
  <2> QED BY <1>4, SetToSeqIs
<1> DEFINE ring == [b \in 1..n |-> {members[i] : i \in {j \in DOMAIN members : ((j - 1) % n) + 1 = b}}]
           place(c) == moved(sub, c, CHOOSE i \in DOMAIN members : members[i] = c, n)
<1>6. \/ wheel' = wheel /\ sub' = sub
      \/ /\ wheel' = [wheel EXCEPT !.hand = 1, !.ring = ring]
         /\ sub' = [c \in Conns |-> IF \E i \in DOMAIN members : members[i] = c
                                    THEN [sub[c] EXCEPT !.quiet = 0, !.bucket = place(c)]
                                    ELSE sub[c]]
  BY DEF Reconfigure
<1>7. CASE wheel' = wheel /\ sub' = sub
  BY <1>7, Kept
<1>8. CASE /\ wheel' = [wheel EXCEPT !.hand = 1, !.ring = ring]
           /\ sub' = [c \in Conns |-> IF \E i \in DOMAIN members : members[i] = c
                                      THEN [sub[c] EXCEPT !.quiet = 0, !.bucket = place(c)]
                                      ELSE sub[c]]
  <2>1. \A i \in 1..m : ((i - 1) % n) + 1 \in 1..n
    <3> HIDE DEF n
    <3> QED BY <1>1, WrapIs
  <2>2. ASSUME NEW c \in Conns
        PROVE  /\ (\E i \in DOMAIN members : members[i] = c) <=> OnRing(c)
               /\ OnRing(c) => /\ place(c) \in 1..n
                               /\ \A b \in 1..n : c \in ring[b] <=> b = place(c)
               /\ ~OnRing(c) => \A b \in 1..n : c \notin ring[b]
    <3> HIDE DEF members, S, n
    <3>1. (\E i \in 1..m : members[i] = c) <=> OnRing(c)
      BY <1>3, <1>5
    <3>2. ASSUME OnRing(c)
          PROVE  place(c) \in 1..n /\ \A b \in 1..n : c \in ring[b] <=> b = place(c)
      <4> DEFINE i == CHOOSE i \in DOMAIN members : members[i] = c
      <4>1. i \in 1..m /\ members[i] = c
        BY <1>5, <3>1, <3>2
      <4>2. place(c) = ((i - 1) % n) + 1
        BY DEF moved
      <4> HIDE DEF i, place
      <4>3. \A j \in 1..m : members[j] = c <=> j = i
        BY <1>5, <4>1
      <4>4. ASSUME NEW b \in 1..n PROVE c \in ring[b] <=> b = ((i - 1) % n) + 1
        <5>1. c \in ring[b] <=> \E j \in 1..m : ((j - 1) % n) + 1 = b /\ members[j] = c
          BY <1>5
        <5> QED BY <4>1, <4>3, <5>1
      <4> QED BY <2>1, <4>1, <4>2, <4>4
    <3>3. ASSUME ~OnRing(c) PROVE \A b \in 1..n : c \notin ring[b]
      BY <1>5, <3>1, <3>3
    <3> QED BY <1>5, <3>1, <3>2, <3>3
  <2>3. \A b \in 1..n : ring[b] \subseteq Conns
    <3> HIDE DEF members, S, n
    <3> QED BY <1>3, <1>5
  <2>4. ring = [b \in 1..n |-> ring[b]]
    OBVIOUS
  <2> HIDE DEF ring, n, members, S, place
  <2>5. IsSeq(ring) /\ Len(ring) = n
    BY <1>1, <2>4, FunIs
  <2>6. /\ DOMAIN wheel' = {"up", "id", "ring", "hand", "to"} /\ wheel'.hand = 1 /\ wheel'.ring = ring
        /\ wheel'.up = wheel.up /\ wheel'.id = wheel.id /\ wheel'.to = wheel.to
    BY <1>2, <1>8 DEF WheelRec
  <2>7. WheelShape'
    BY <1>1, <1>2, <2>3, <2>5, <2>6 DEF WheelShape, WheelRec
  <2>8. ASSUME NEW c \in Conns
        PROVE  /\ sub'[c].queue = sub[c].queue /\ sub'[c].lastSchema = sub[c].lastSchema
               /\ sub'[c].closed = sub[c].closed /\ sub'[c].evicted = sub[c].evicted
               /\ sub'[c].rpos = sub[c].rpos /\ sub'[c].from = sub[c].from /\ sub'[c].missed = sub[c].missed /\ sub'[c].wheel = sub[c].wheel
               /\ DOMAIN sub'[c] = SubFields
               /\ OnRing(c) => sub'[c].quiet = 0 /\ sub'[c].bucket = place(c)
               /\ ~OnRing(c) => sub'[c] = sub[c]
    <3>1. DOMAIN sub[c] = SubFields
      BY DEF SubShape, SubRec
    <3>2. sub'[c] = IF OnRing(c) THEN [sub[c] EXCEPT !.quiet = 0, !.bucket = place(c)] ELSE sub[c]
      BY <1>8, <2>2
    <3> QED BY <3>1, <3>2 DEF SubFields
  <2>9. SubShape'
    <3>1. DOMAIN sub' = Conns
      BY <1>8
    <3>2. ASSUME NEW c \in Conns PROVE SubRec(sub'[c])
      <4>1. SubRec(sub[c])
        BY DEF SubShape
      <4>2. CASE OnRing(c)
        BY <1>1, <2>2, <2>8, <4>1, <4>2 DEF SubRec
      <4>3. CASE ~OnRing(c)
        BY <2>8, <4>1, <4>3
      <4> QED BY <4>2, <4>3
    <3> QED BY <3>1, <3>2 DEF SubShape
  <2>10. Dealt
    BY <2>2, <2>5, <2>6, <2>8 DEF Dealt
  <2> QED BY <2>7, <2>9, <2>10
<1> QED BY <1>6, <1>7, <1>8

\* What the hook of the keepalives does.
LEMMA KeepaliveHookDoes ==
    ASSUME Shape, KeepaliveHook, UNCHANGED verifier
    PROVE  /\ Shape' /\ hooks = <<"wheel", "auth">> /\ hooks' = <<"auth">>
           /\ UNCHANGED <<world, at, closing, conn, hub, log, bpos, bc, out, wire, fate>>
           /\ \/ conf.serving = "served" /\ wheel.up /\ wheel' = wheel /\ sub' = sub
              \/ conf.serving = "served" /\ wheel.up /\ Dealt
              \/ /\ conf.serving = "served" /\ ~wheel.up /\ wheel'.up /\ sub' = sub
                 /\ wheel'.id = wheel.id /\ wheel'.to = {}
                 /\ \A i \in DOMAIN wheel'.ring : wheel'.ring[i] = {}
              \/ /\ conf.serving # "served" /\ wheel.up /\ ~wheel'.up /\ sub' = sub
                 /\ wheel'.id = wheel.id + 1 /\ wheel'.to = {}
                 /\ \A i \in DOMAIN wheel'.ring : wheel'.ring[i] = {}
              \/ conf.serving # "served" /\ ~wheel.up /\ wheel' = wheel /\ sub' = sub
<1> USE DEF Shape
<1>1. /\ hooks = <<"wheel", "auth">> /\ hooks' = <<"auth">>
      /\ UNCHANGED <<world, at, closing, conn, hub, log, bpos, bc, out, wire, fate>>
  BY HooksAre DEF KeepaliveHook, CaseShape
<1>2. CaseShape'
  BY <1>1 DEF CaseShape, HookLists
<1>3. wheel.up \in BOOLEAN /\ wheel.id \in Nat \ {0}
  BY DEF WheelShape, WheelRec
<1>4. CASE conf.serving = "served" /\ wheel.up
  <2>1. Reconfigure
    BY <1>4 DEF KeepaliveHook
  <2>2. WheelShape' /\ SubShape' /\ ((wheel' = wheel /\ sub' = sub) \/ Dealt)
    BY <2>1, ReconfigureDoes
  <2>3. Shape'
    BY <1>1, <1>2, <2>2, Kept
  <2> QED BY <1>1, <1>4, <2>2, <2>3
<1>5. CASE conf.serving = "served" /\ ~wheel.up
  <2>1. wheel' = WheelFor /\ sub' = sub
    BY <1>5 DEF KeepaliveHook
  <2>2. /\ WheelRec(WheelFor) /\ WheelFor.id = wheel.id /\ WheelFor.up /\ WheelFor.to = {}
        /\ \A i \in DOMAIN WheelFor.ring : WheelFor.ring[i] = {}
    <3>1. /\ WheelRec(WheelFor) /\ WheelFor.id = wheel.id
          /\ WheelFor = wheel \/ /\ ~wheel.up /\ conf.serving = "served" /\ WheelFor.up /\ WheelFor.to = {}
                                 /\ \A i \in DOMAIN WheelFor.ring : WheelFor.ring[i] = {}
          /\ ~WheelFor.up => WheelFor = wheel /\ conf.serving # "served"
      BY WheelForIs
    <3> QED BY <1>5, <3>1
  <2>3. WheelShape'
    BY <2>1, <2>2 DEF WheelShape
  <2>4. Shape'
    BY <1>1, <1>2, <2>1, <2>3, Kept
  <2> QED BY <1>1, <1>5, <2>1, <2>2, <2>4
<1>6. CASE conf.serving # "served" /\ wheel.up
  <2> DEFINE new == NewWheel(wheel.id + 1, 1)
  <2>1. wheel' = [new EXCEPT !.up = FALSE] /\ sub' = sub
    BY <1>6 DEF KeepaliveHook
  <2>2. /\ WheelRec(new) /\ new.id = wheel.id + 1 /\ new.to = {}
        /\ \A i \in DOMAIN new.ring : new.ring[i] = {}
    <3>1. wheel.id + 1 \in Nat \ {0} /\ 1 \in Int
      BY <1>3
    <3> QED BY <3>1, NewWheelIs
  <2> HIDE DEF new
  <2>3. /\ DOMAIN wheel' = {"up", "id", "ring", "hand", "to"} /\ wheel'.up = FALSE /\ wheel'.id = new.id
        /\ wheel'.to = new.to /\ wheel'.ring = new.ring /\ wheel'.hand = new.hand
    BY <2>1, <2>2 DEF WheelRec
  <2>4. WheelShape'
    BY <2>2, <2>3 DEF WheelShape, WheelRec
  <2>5. Shape'
    BY <1>1, <1>2, <2>1, <2>4, Kept
  <2> QED BY <1>1, <1>6, <2>1, <2>2, <2>3, <2>5
<1>7. CASE conf.serving # "served" /\ ~wheel.up
  <2>1. wheel' = wheel /\ sub' = sub
    BY <1>7 DEF KeepaliveHook
  <2>2. Shape'
    BY <1>1, <1>2, <2>1, Kept
  <2> QED BY <1>1, <1>7, <2>1, <2>2
<1> QED BY <1>3, <1>4, <1>5, <1>6, <1>7

-----------------------------------------------------------------------------
(* What was last told, as frames are put at the end or taken off the head. *)

\* A frame put at the end: an announcement is then the last told.
LEMMA AnnouncedAppend ==
    ASSUME NEW q, IsSeq(q), NEW T, NEW U, Announced(q, Len(q), T, U), NEW f
    PROVE  Announced(Append(q, f), Len(Append(q, f)), T, IF f.kind = "schema" THEN <<f.cols>> ELSE U)
<1> DEFINE r == Append(q, f)
           n == Len(q)
<1>1. n \in Nat /\ Len(r) = n + 1 /\ r[n + 1] = f /\ \A i \in 1..n : r[i] = q[i]
  BY AppendIs, SeqIs
<1>2. (U = T /\ \A k \in 1..n : q[k].kind # "schema")
      \/ \E k \in 1..n : /\ q[k].kind = "schema" /\ U = <<q[k].cols>>
                         /\ \A m \in (k + 1)..n : q[m].kind # "schema"
  BY DEF Announced
<1> HIDE DEF r, n
<1>3. CASE f.kind = "schema"
  <2>1. /\ n + 1 \in 1..(n + 1) /\ r[n + 1].kind = "schema" /\ <<f.cols>> = <<r[n + 1].cols>>
        /\ \A m \in ((n + 1) + 1)..(n + 1) : r[m].kind # "schema"
    BY <1>1, <1>3
  <2>2. Announced(r, n + 1, T, <<f.cols>>)
    BY <2>1 DEF Announced
  <2> QED BY <1>1, <1>3, <2>2 DEF r
<1>4. CASE f.kind # "schema"
  <2>1. CASE U = T /\ \A k \in 1..n : q[k].kind # "schema"
    <3>1. \A k \in 1..(n + 1) : r[k].kind # "schema"
      BY <1>1, <1>4, <2>1
    <3> QED BY <1>1, <1>4, <2>1, <3>1 DEF Announced, r
  <2>2. CASE \E k \in 1..n : /\ q[k].kind = "schema" /\ U = <<q[k].cols>>
                             /\ \A m \in (k + 1)..n : q[m].kind # "schema"
    <3>1. PICK k \in 1..n : /\ q[k].kind = "schema" /\ U = <<q[k].cols>>
                            /\ \A m \in (k + 1)..n : q[m].kind # "schema"
      BY <2>2
    <3>2. k \in 1..(n + 1) /\ r[k].kind = "schema" /\ U = <<r[k].cols>> /\ \A m \in (k + 1)..(n + 1) : r[m].kind # "schema"
      BY <1>1, <1>4, <3>1
    <3>3. Announced(r, n + 1, T, U)
      BY <3>2 DEF Announced
    <3> QED BY <1>1, <1>4, <3>3 DEF r
  <2> QED BY <1>2, <2>1, <2>2
<1> QED BY <1>3, <1>4

\* What was told depends on those frames alone.
LEMMA AnnouncedSame ==
    ASSUME NEW q, NEW r, NEW n \in Nat, \A i \in 1..n : r[i] = q[i], NEW T, NEW U, Announced(q, n, T, U)
    PROVE  Announced(r, n, T, U)
BY DEF Announced

\* A row put under the columns last told comes under its own.
LEMMA UnderOwnAppend ==
    ASSUME NEW q, IsSeq(q), NEW T, UnderOwn(q, T), NEW f, f.ev > 0 => Announced(q, Len(q), T, <<f.cols>>)
    PROVE  UnderOwn(Append(q, f), T)
<1> DEFINE r == Append(q, f)
           n == Len(q)
<1>1. n \in Nat /\ Len(r) = n + 1 /\ r[n + 1] = f /\ \A i \in 1..n : r[i] = q[i]
  BY AppendIs, SeqIs
<1>2. \A i \in 1..n : q[i].ev > 0 => Announced(q, i - 1, T, <<q[i].cols>>)
  BY DEF UnderOwn
<1>3. f.ev > 0 => Announced(q, n, T, <<f.cols>>)
  OBVIOUS
<1> HIDE DEF r, n
<1>4. ASSUME NEW i \in 1..(n + 1), r[i].ev > 0 PROVE Announced(r, i - 1, T, <<r[i].cols>>)
  <2>1. i - 1 \in Nat /\ \A j \in 1..(i - 1) : r[j] = q[j]
    BY <1>1
  <2>2. Announced(q, i - 1, T, <<r[i].cols>>)
    <3>1. CASE i \in 1..n
      BY <1>1, <1>2, <1>4, <3>1
    <3>2. CASE i = n + 1
      <4>1. r[i] = f /\ i - 1 = n
        BY <1>1, <3>2
      <4> QED BY <1>3, <1>4, <4>1
    <3> QED BY <1>1, <3>1, <3>2
  <2> QED BY <2>1, <2>2, AnnouncedSame
<1> QED BY <1>1, <1>4 DEF UnderOwn, r

\* A frame taken off the head is what those left come after.
LEMMA AnnouncedTail ==
    ASSUME NEW q, IsSeq(q), q # <<>>, NEW n \in 1..Len(q), NEW T, NEW U, Announced(q, n, T, U)
    PROVE  Announced(Tail(q), n - 1, IF q[1].kind = "schema" THEN <<q[1].cols>> ELSE T, U)
<1> DEFINE r == Tail(q)
           V == IF q[1].kind = "schema" THEN <<q[1].cols>> ELSE T
<1>1. Len(q) \in Nat /\ \A i \in 1..(Len(q) - 1) : r[i] = q[i + 1]
  BY TailIs, SeqIs
<1>2. n - 1 \in Nat /\ \A i \in 1..(n - 1) : r[i] = q[i + 1] /\ i + 1 \in 2..n
  BY <1>1
<1> HIDE DEF r
<1>3. CASE U = T /\ \A k \in 1..n : q[k].kind # "schema"
  <2>1. 1 \in 1..n
    BY <1>1
  <2>2. U = V /\ \A k \in 1..(n - 1) : r[k].kind # "schema"
    BY <1>2, <1>3, <2>1
  <2> HIDE DEF V
  <2>3. Announced(r, n - 1, V, U)
    BY <2>2 DEF Announced
  <2> QED BY <2>3 DEF r, V
<1>4. CASE \E k \in 1..n : /\ q[k].kind = "schema" /\ U = <<q[k].cols>>
                           /\ \A m \in (k + 1)..n : q[m].kind # "schema"
  <2>1. PICK k \in 1..n : /\ q[k].kind = "schema" /\ U = <<q[k].cols>>
                          /\ \A m \in (k + 1)..n : q[m].kind # "schema"
    BY <1>4
  <2>2. CASE k = 1
    <3>1. U = V
      BY <2>1, <2>2
    <3>2. \A i \in 1..(n - 1) : r[i].kind # "schema"
      BY <1>2, <2>1, <2>2
    <3> HIDE DEF V
    <3>3. Announced(r, n - 1, V, U)
      BY <3>1, <3>2 DEF Announced
    <3> QED BY <3>3 DEF r, V
  <2>3. CASE k # 1
    <3>1. k - 1 \in 1..(n - 1) /\ r[k - 1] = q[k]
      BY <1>2, <2>3
    <3>2. \A m \in ((k - 1) + 1)..(n - 1) : r[m].kind # "schema"
      BY <1>2, <2>1
    <3> HIDE DEF V
    <3>3. Announced(r, n - 1, V, U)
      BY <2>1, <3>1, <3>2 DEF Announced
    <3> QED BY <3>3 DEF r, V
  <2> QED BY <2>2, <2>3
<1> QED BY <1>3, <1>4 DEF Announced

\* ... and each of them still comes under its own columns.
LEMMA UnderOwnTail ==
    ASSUME NEW q, IsSeq(q), q # <<>>, NEW T, UnderOwn(q, T)
    PROVE  /\ UnderOwn(Tail(q), IF q[1].kind = "schema" THEN <<q[1].cols>> ELSE T)
           /\ q[1].ev > 0 => T = <<q[1].cols>>
<1> DEFINE r == Tail(q)
           V == IF q[1].kind = "schema" THEN <<q[1].cols>> ELSE T
<1>1. Len(q) \in Nat /\ Len(r) = Len(q) - 1 /\ Len(q) > 0 /\ \A i \in 1..(Len(q) - 1) : r[i] = q[i + 1]
  BY TailIs, SeqIs
<1>2. q[1].ev > 0 => T = <<q[1].cols>>
  BY <1>1 DEF UnderOwn, Announced
<1>3. ASSUME NEW i \in 1..Len(r), r[i].ev > 0 PROVE Announced(r, i - 1, V, <<r[i].cols>>)
  <2>1. r[i] = q[i + 1] /\ i + 1 \in 1..Len(q) /\ i \in 1..Len(q) /\ (i + 1) - 1 = i
    BY <1>1
  <2>2. Announced(q, i, T, <<r[i].cols>>)
    BY <1>3, <2>1 DEF UnderOwn
  <2> DEFINE U == <<r[i].cols>>
  <2>3. Announced(q, i, T, U)
    BY <2>2
  <2> HIDE DEF U
  <2>4. Announced(Tail(q), i - 1, V, U)
    BY <2>1, <2>3, AnnouncedTail
  <2> QED BY <2>4 DEF U
<1> HIDE DEF V
<1>4. UnderOwn(r, V)
  BY <1>3 DEF UnderOwn
<1> QED BY <1>2, <1>4 DEF V

\* Nothing is told by no frames.
LEMMA AnnouncedEmpty == ASSUME NEW T PROVE Announced(<<>>, Len(<<>>), T, T) /\ UnderOwn(<<>>, T)
BY EmptyIs DEF Announced, UnderOwn

\* Putting one frame at the end.
LEMMA JoinOneIs == ASSUME NEW q, IsSeq(q), NEW f PROVE q \o <<f>> = Append(q, f)
<1>1. PICK S : q \in Seq(S)
  BY DEF IsSeq
<1>2. q \in Seq(S \cup {f}) /\ f \in S \cup {f}
  BY <1>1
<1> QED BY <1>2

-----------------------------------------------------------------------------
(* What keeps each of the invariants of a stream.                          *)

StaysAt(d) == conn'[d].pc = conn[d].pc /\ conn'[d].role = conn[d].role

\* InHub is a matter of where the stream is and of the hub.
LEMMA KeepsInHub ==
    ASSUME NEW d \in Conns, InHub(d), StaysAt(d), \A r \in Roles : d \in hub'[r].subs <=> d \in hub[r].subs, conn[d].role \in Roles
    PROVE  InHub(d)'
BY DEF InHub, StaysAt

\* Known is a matter of where the stream is and of who sends to it.
LEMMA KeepsKnown ==
    ASSUME NEW d \in Conns, Known(d),
           conn[d].pc \in Streaming \cup Ended => conn'[d].pc \in Streaming \cup Ended,
           d \in bc'.to => d \in bc.to, d \in wheel'.to => d \in wheel.to,
           \A s \in Senders : out'[s].c = d => out[s].c = d,
           (\E i \in 1..Len(wheel'.ring) : d \in wheel'.ring[i]) => OnRing(d),
           wire'[d] = wire[d], conn'[d].pc # "add" => conn[d].pc # "add"
    PROVE  Known(d)'
BY DEF Known, OnRing

\* Shut is a matter of the queue.
LEMMA KeepsShut ==
    ASSUME NEW d \in Conns, Shut(d), conn'[d].pc = conn[d].pc, sub'[d].closed = sub[d].closed, sub'[d].queue = sub[d].queue
    PROVE  Shut(d)'
BY DEF Shut

\* Sought is a matter of where the replay is.
LEMMA KeepsSought ==
    ASSUME NEW d \in Conns, Sought(d), UNCHANGED world, conn'[d].pc = conn[d].pc,
           sub'[d].rpos = sub[d].rpos, sub'[d].from = sub[d].from
    PROVE  Sought(d)'
BY DEF Sought

\* Goes is a matter of the settings and of what the stream was told.
LEMMA KeepsGoes ==
    ASSUME NEW d \in Conns, Goes(d), UNCHANGED <<world, at, hooks>>,
           conn'[d].pc \in {"replay", "wheel", "loop"} => conn[d].pc \in {"replay", "wheel", "loop"},
           sub[d].evicted => sub'[d].evicted, wheel.up => wheel'.up
    PROVE  Goes(d)'
BY DEF Goes, conf

\* The wheel is as it was, for a stream.
WheelSame(d) ==
    /\ wheel'.up = wheel.up /\ wheel'.id = wheel.id /\ wheel'.hand = wheel.hand /\ Len(wheel'.ring) = Len(wheel.ring)
    /\ \A i \in 1..Len(wheel.ring) : d \in wheel'.ring[i] <=> d \in wheel.ring[i]

\* InWheel is a matter of the stream's place and of the wheel.
LEMMA KeepsInWheel ==
    ASSUME NEW d \in Conns, InWheel(d), WheelSame(d), conn'[d].pc = conn[d].pc,
           sub'[d].wheel = sub[d].wheel, sub'[d].bucket = sub[d].bucket, sub'[d].quiet = sub[d].quiet,
           sub[d].evicted => sub'[d].evicted
    PROVE  InWheel(d)'
<1>1. Joined(d)' <=> Joined(d)
  BY DEF Joined, WheelSame
<1> HIDE DEF Joined
<1>2. /\ sub'[d].wheel <= wheel'.id /\ (~wheel'.up => sub'[d].wheel < wheel'.id)
      /\ conn'[d].pc = "loop" /\ ~Joined(d)' => sub'[d].evicted
  BY <1>1 DEF InWheel, WheelSame
<1>3. \A i \in 1..Len(wheel'.ring) : d \in wheel'.ring[i] <=> Joined(d)' /\ i = sub'[d].bucket
  BY <1>1 DEF InWheel, WheelSame
<1>4. Joined(d)' => /\ sub'[d].bucket \in 1..Len(wheel'.ring)
                    /\ sub'[d].quiet + Dist(wheel'.hand, sub'[d].bucket, Len(wheel'.ring)) < Len(wheel'.ring)
  BY <1>1 DEF InWheel, WheelSame
<1> QED BY <1>2, <1>3, <1>4 DEF InWheel

\* NoGap stays where whatever was had is had, and whatever was coming is had or
\* coming.
LEMMA KeepsNoGap ==
    ASSUME NEW d \in Conns, NoGap(d), UNCHANGED bpos, conn'[d].pc = conn[d].pc,
           UNCHANGED world, sub'[d].rpos = sub[d].rpos, sub'[d].from = sub[d].from, sub'[d].missed = sub[d].missed,
           Cancelled(d) => Cancelled(d)', Shape,
           \A n \in Nat : Had(d, n) => Had(d, n)',
           conn[d].pc \in Live =>
               \A n \in Nat : n >= sub[d].from /\ Coming(d, n) => Had(d, n)' \/ Coming(d, n)',
           sub[d].from \in Nat, sub[d].rpos \in Nat, bpos \in Nat
    PROVE  NoGap(d)'
<1> HIDE DEF Had, Coming, Cancelled
<1>0. world.req[d].since \in Nat
  BY DEF Shape, CaseShape, Case
<1>1. ASSUME conn'[d].pc = "replay", NEW n \in world'.req[d].since..(sub'[d].rpos - 1)
      PROVE  Had(d, n)'
  <2>1. Had(d, n) /\ n \in Nat
    BY <1>0, <1>1 DEF NoGap
  <2> QED BY <2>1
<1>2. ASSUME conn'[d].pc \in Live, ~Cancelled(d)', NEW n \in sub'[d].from..bpos'
      PROVE  Had(d, n)' \/ Coming(d, n)'
  <2>1. (Had(d, n) \/ Coming(d, n)) /\ n \in Nat /\ n >= sub[d].from
    BY <1>2 DEF NoGap
  <2> QED BY <1>2, <2>1
<1>3. ASSUME conn'[d].pc \in {"wheel", "loop"}, ~Cancelled(d)', world'.req[d].since > 0,
             NEW n \in world'.req[d].since..(sub'[d].from - 1)
      PROVE  Had(d, n)' \/ n \in sub'[d].missed
  <2>1. (Had(d, n) \/ n \in sub[d].missed) /\ n \in Nat
    BY <1>0, <1>3 DEF NoGap
  <2> QED BY <2>1
<1>4. conn'[d].pc \in {"served", "replay"} => sub'[d].from <= bpos' + 1
  BY DEF NoGap
<1> QED BY <1>1, <1>2, <1>3, <1>4 DEF NoGap

\* Tells is a matter of what was written and of what is queued.
LEMMA KeepsTells ==
    ASSUME NEW d \in Conns, Tells(d), UNCHANGED world, conn'[d].pc \in Feeds => conn[d].pc \in Feeds,
           wire'[d] = wire[d], sub'[d].queue = sub[d].queue, sub'[d].lastSchema = sub[d].lastSchema
    PROVE  Tells(d)'
BY DEF Tells

\* What was had stays so.
LEMMA KeepsHad ==
    ASSUME NEW d \in Conns, NEW n, Had(d, n), wire'[d] = wire[d], fate[d] \subseteq fate'[d], sub'[d].queue = sub[d].queue
    PROVE  Had(d, n)'
BY DEF Had

\* A stream no part of a step is about.
Beyond(d) ==
    /\ StaysAt(d) /\ (conn[d].gone => conn'[d].gone)
    /\ sub'[d] = sub[d] /\ wire'[d] = wire[d] /\ fate[d] \subseteq fate'[d]
    /\ \A r \in Roles : d \in hub'[r].subs <=> d \in hub[r].subs
    /\ \A r \in Roles : d \in hub[r].subs => hub'[r].gen = hub[r].gen
    /\ WheelSame(d) /\ (d \in wheel'.to => d \in wheel.to)
    /\ \A s \in Senders : out'[s].c = d <=> out[s].c = d
    /\ d \in bc'.to <=> d \in bc.to

\* A stream no part of a step is about keeps its invariants.
LEMMA BeyondKeeps ==
    ASSUME Shape, Shape', NEW d \in Conns, Streams(d), Beyond(d),
           UNCHANGED <<world, at, hooks, bpos>>, bc'.ev = bc.ev, bc'.todo = bc.todo, closing => closing'
    PROVE  Streams(d)'
<1>1. conn[d].role \in Roles /\ sub[d].from \in Nat /\ sub[d].rpos \in Nat /\ bpos \in Nat /\ "hub" \in Senders
  BY SeqIs DEF Shape, ConnShape, ConnRec, SubShape, SubRec, LogShape, Senders
<1>2. StaysAt(d) /\ conn'[d].pc = conn[d].pc
  BY DEF Beyond, StaysAt
<1>3. InHub(d)'
  BY <1>1, KeepsInHub DEF Beyond, Streams
<1>4. Known(d)'
  <2>1. (\E i \in 1..Len(wheel'.ring) : d \in wheel'.ring[i]) => OnRing(d)
    BY DEF Beyond, WheelSame, OnRing
  <2> QED BY <1>2, <2>1, KeepsKnown DEF Beyond, Streams
<1>5. Shut(d)' /\ Sought(d)' /\ Tells(d)'
  BY <1>2, KeepsShut, KeepsSought, KeepsTells DEF Beyond, Streams
<1>6. Goes(d)'
  BY <1>2, KeepsGoes DEF Beyond, Streams, WheelSame
<1>7. InWheel(d)'
  BY <1>2, KeepsInWheel DEF Beyond, Streams
<1>8. NoGap(d)'
  <2>1. Cancelled(d) => Cancelled(d)'
    BY DEF Cancelled, Beyond
  <2>2. \A n \in Nat : Had(d, n) => Had(d, n)'
    BY KeepsHad DEF Beyond
  <2>3. ASSUME conn[d].pc \in Live, NEW n \in Nat, Coming(d, n) PROVE Coming(d, n)'
    <3>1. d \in hub[conn[d].role].subs
      BY <2>3 DEF Streams, InHub, Streaming, Live
    <3>2. conn'[d].role = conn[d].role /\ hub'[conn[d].role].gen = hub[conn[d].role].gen
      BY <1>1, <3>1 DEF Beyond, StaysAt
    <3> QED BY <1>1, <2>3, <3>2 DEF Coming, Beyond
  <2> QED BY <1>1, <1>2, <2>1, <2>2, <2>3, KeepsNoGap DEF Beyond, Streams
<1> QED BY <1>3, <1>4, <1>5, <1>6, <1>7, <1>8 DEF Streams

-----------------------------------------------------------------------------
(* Each step keeps the invariants.                                         *)

\* A step beside the streams: a request that goes on, a row published, a
\* client that leaves.
LEMMA AsideKeeps ==
    ASSUME IInv, Shape', UNCHANGED <<world, at, hooks, sub, hub, bpos, bc, out, wheel, wire, fate>>, closing => closing',
           \A d \in Conns : \/ StaysAt(d) /\ (conn[d].gone => conn'[d].gone)
                            \/ conn[d].pc \in RequestPcs /\ conn'[d].pc \in RequestPcs \cup {"subscribe"}
    PROVE  IInv'
<1>1. OutFrames'
  BY DEF IInv, OutFrames
<1>2. WheelServes'
  BY DEF IInv, WheelServes, conf
<1>3. ASSUME NEW d \in Conns PROVE Streams(d)'
  <2>1. Shape /\ Streams(d)
    BY DEF IInv
  <2>2. CASE StaysAt(d) /\ (conn[d].gone => conn'[d].gone)
    <3>1. Beyond(d)
      BY <2>2 DEF Beyond, WheelSame
    <3> QED BY <2>1, <3>1, BeyondKeeps
  <2>3. CASE conn[d].pc \in RequestPcs /\ conn'[d].pc \in RequestPcs \cup {"subscribe"}
    <3>1. /\ conn[d].pc \notin Streaming \cup Ended \cup Live \cup Feeds
          /\ conn'[d].pc \notin Streaming \cup Ended \cup Live \cup Feeds
      BY <2>3 DEF RequestPcs, RequestKinds, Streaming, Ended, Live, Feeds
    <3>2. InHub(d)'
      BY <2>1, <3>1 DEF Streams, InHub
    <3>3. Known(d)'
      <4>1. conn[d].pc # "add"
        BY <2>3 DEF RequestPcs, RequestKinds
      <4> QED BY <2>1, <3>1, <4>1 DEF Streams, Known
    <3>4. Shut(d)'
      BY <2>1, <3>1 DEF Streams, Shut, Ended
    <3>5. Sought(d)'
      <4>1. conn'[d].pc # "add"
        BY <2>3 DEF RequestPcs, RequestKinds
      <4> QED BY <2>1, <3>1, <4>1 DEF Streams, Sought, Streaming
    <3>6. Goes(d)'
      BY <2>1, <3>1 DEF Streams, Goes, Streaming
    <3>7. InWheel(d)'
      <4>1. ~Joined(d) /\ ~Joined(d)'
        BY <3>1 DEF Joined, Streaming
      <4>2. conn'[d].pc # "loop"
        BY <3>1 DEF Streaming
      <4> QED BY <2>1, <4>1, <4>2 DEF Streams, InWheel
    <3>8. NoGap(d)'
      BY <3>1 DEF NoGap, Live, Streaming
    <3>9. Tells(d)'
      BY <2>1, <3>1 DEF Streams, Tells
    <3> QED BY <3>2, <3>3, <3>4, <3>5, <3>6, <3>7, <3>8, <3>9 DEF Streams
  <2> QED BY <2>2, <2>3
<1> QED BY <1>1, <1>2, <1>3 DEF IInv

\* Steps of requests.
LEMMA RequestKeeps == ASSUME IInv, NEW c \in Conns, RequestStep(c) PROVE IInv'
<1>1. Shape
  BY DEF IInv
<1>2. Beside
  BY <1>1, RequestBeside
<1>3. Shape'
  <2>1. LogShape'
    <3>1. IsSeq(log) /\ bpos \in 0..Len(log) /\ Len(log) \in Nat
      BY <1>1, SeqIs DEF Shape, LogShape
    <3>2. IsSeq(log') /\ Len(log') >= Len(log) /\ Len(log') \in Nat
      <4>1. CASE log' = log
        BY <3>1, <4>1
      <4>2. ASSUME NEW e, log' = Append(log, e) PROVE IsSeq(log') /\ Len(log') = Len(log) + 1
        BY <3>1, <4>2, AppendIs
      <4> QED BY <1>2, <3>1, <4>1, <4>2 DEF Beside
    <3> QED BY <1>2, <3>1, <3>2 DEF LogShape, Beside
  <2> QED BY <1>1, <1>2, <2>1, Kept DEF Shape, Beside
<1>4. \A d \in Conns : \/ StaysAt(d) /\ (conn[d].gone => conn'[d].gone)
                       \/ conn[d].pc \in RequestPcs /\ conn'[d].pc \in RequestPcs \cup {"subscribe"}
  BY <1>2 DEF Beside, Asks, StaysAt
<1> QED BY <1>2, <1>3, <1>4, AsideKeeps DEF Beside

\* A row is published.
LEMMA PublishKeeps == ASSUME IInv, Publish, UNCHANGED verifier PROVE IInv'
<1>1. /\ Shape' /\ UNCHANGED <<world, at, hooks, closing, conn, sub, hub, bpos, bc, out, wheel, wire, fate>>
  BY PublishDoes DEF IInv
<1> QED BY <1>1, AsideKeeps DEF StaysAt

\* The verifier's keys arrive.
LEMMA FetchKeysKeeps == ASSUME IInv, FetchKeys PROVE IInv'
<1>1. /\ Shape' /\ UNCHANGED <<world, at, hooks, closing, conn, sub, hub, bpos, bc, out, wheel, wire, fate>>
  BY FetchKeysDoes DEF IInv
<1> QED BY <1>1, AsideKeeps DEF StaysAt

\* The server begins to shut down: handlers are cancelled.
LEMMA ShutdownKeeps == ASSUME IInv, Shutdown, UNCHANGED verifier PROVE IInv'
<1>1. /\ Shape' /\ closing' = TRUE /\ UNCHANGED <<world, at, hooks, conn, sub, hub, bpos, bc, out, wheel, wire, fate>>
  BY ShutdownDoes DEF IInv
<1> QED BY <1>1, AsideKeeps DEF StaysAt

\* A client leaves: its handler is cancelled.
LEMMA ClientGoneKeeps == ASSUME IInv, NEW c \in Conns, ClientGone(c), UNCHANGED verifier PROVE IInv'
<1>1. /\ Shape' /\ conn'[c].pc = conn[c].pc /\ conn'[c].role = conn[c].role /\ conn'[c].gone = TRUE
      /\ \A d \in Conns \ {c} : conn'[d] = conn[d]
      /\ UNCHANGED <<world, at, hooks, closing, sub, hub, bpos, bc, out, wheel, wire, fate>>
  BY ClientGoneDoes DEF IInv
<1>2. \A d \in Conns : StaysAt(d) /\ (conn[d].gone => conn'[d].gone)
  BY <1>1 DEF StaysAt
<1> QED BY <1>1, <1>2, AsideKeeps

\* A step of one stream's handler, and what it leaves of the others.
Handles(c) ==
    /\ UNCHANGED <<world, at, hooks, closing, bpos, bc>>
    /\ \A d \in Conns \ {c} :
         /\ conn'[d] = conn[d] /\ sub'[d] = sub[d] /\ wire'[d] = wire[d] /\ fate[d] \subseteq fate'[d]

\* A step of one stream's handler is nothing to another stream.
LEMMA OthersKeep ==
    ASSUME IInv, Shape', NEW c \in Conns, Handles(c), UNCHANGED <<hub, out, wheel>>,
           NEW d \in Conns \ {c}
    PROVE  Streams(d)'
<1>1. Beyond(d)
  BY DEF Beyond, StaysAt, WheelSame, Handles
<1>2. Shape /\ Streams(d)
  BY DEF IInv
<1> QED BY <1>1, <1>2, BeyondKeeps DEF Handles

\* ... so that it is enough to look at the stream itself.
LEMMA HandlerKeeps ==
    ASSUME IInv, Shape', NEW c \in Conns, Handles(c), UNCHANGED <<hub, out, wheel>>, Streams(c)',
           out["hub"].c = c => sub'[c].lastSchema = sub[c].lastSchema
    PROVE  IInv'
<1>1. OutFrames'
  <2>1. out["hub"].c # None => sub'[out["hub"].c].lastSchema = sub[out["hub"].c].lastSchema
    BY DEF Handles, IInv, Shape, OutShape, OutRec, Senders
  <2> QED BY <2>1 DEF IInv, OutFrames, Handles
<1>2. WheelServes'
  BY DEF IInv, WheelServes, conf, Handles
<1>3. ASSUME NEW d \in Conns PROVE Streams(d)'
  BY <1>3, OthersKeep
<1> QED BY <1>1, <1>2, <1>3 DEF IInv

\* A stream that is out of the hub is closed.
LEMMA CloseKeeps == ASSUME IInv, NEW c \in Conns, Close(c), UNCHANGED verifier PROVE IInv'
<1>1. Shape /\ Streams(c)
  BY DEF IInv
<1>2. /\ Shape' /\ conn[c].pc = "close" /\ Moves(c, "discard")
      /\ UNCHANGED <<world, at, hooks, closing, hub, log, bpos, bc, out, wheel, wire, fate>>
      /\ \A d \in Conns \ {c} : sub'[d] = sub[d]
      /\ sub'[c].closed /\ SameBut(c)
  BY <1>1, CloseDoes
<1>3. Handles(c)
  BY <1>2 DEF Handles, Moves
<1>4. conn'[c].pc = "discard" /\ conn'[c].role = conn[c].role
  BY <1>2 DEF Moves
<1>5. Streams(c)'
  <2>1. InHub(c)'
    BY <1>1, <1>2, <1>4 DEF Streams, InHub, Streaming
  <2>2. Known(c)'
    BY <1>4 DEF Known, Ended
  <2>3. Shut(c)'
    BY <1>1, <1>2, <1>4 DEF Streams, Shut, SameBut
  <2>4. Sought(c)'
    BY <1>1, <1>2, <1>4 DEF Streams, Sought, Live, SameBut
  <2>5. Goes(c)'
    BY <1>4 DEF Goes
  <2>6. InWheel(c)'
    BY <1>1, <1>2, <1>4 DEF Streams, InWheel, Joined, SameBut
  <2>7. NoGap(c)'
    BY <1>4 DEF NoGap, Live
  <2>8. Tells(c)'
    BY <1>1, <1>2, <1>4 DEF Streams, Tells, Feeds
  <2> QED BY <2>1, <2>2, <2>3, <2>4, <2>5, <2>6, <2>7, <2>8 DEF Streams
<1> QED BY <1>2, <1>3, <1>5, HandlerKeeps DEF SameBut

\* A closed stream lets go of its queue.
LEMMA DiscardKeeps == ASSUME IInv, NEW c \in Conns, Discard(c), UNCHANGED verifier PROVE IInv'
<1>1. Shape /\ Streams(c)
  BY DEF IInv
<1>2. /\ Shape' /\ conn[c].pc = "discard" /\ Moves(c, "done")
      /\ UNCHANGED <<world, at, hooks, closing, hub, log, bpos, bc, out, wheel, wire>>
      /\ \A d \in Conns \ {c} : sub'[d] = sub[d] /\ fate'[d] = fate[d]
      /\ sub'[c].queue = <<>> /\ SamePlace(sub'[c], sub[c]) /\ sub'[c].lastSchema = sub[c].lastSchema
  BY <1>1, DiscardDoes
<1>3. Handles(c)
  BY <1>2 DEF Handles, Moves
<1>4. conn'[c].pc = "done" /\ conn'[c].role = conn[c].role
  BY <1>2 DEF Moves
<1>5. Streams(c)'
  <2>1. InHub(c)'
    BY <1>1, <1>2, <1>4 DEF Streams, InHub, Streaming
  <2>2. Known(c)'
    BY <1>4 DEF Known, Ended
  <2>3. Shut(c)'
    BY <1>1, <1>2, <1>4, EmptyIs DEF Streams, Shut, SamePlace
  <2>4. Sought(c)'
    BY <1>1, <1>2, <1>4 DEF Streams, Sought, Live, SamePlace
  <2>5. Goes(c)'
    BY <1>4 DEF Goes
  <2>6. InWheel(c)'
    BY <1>1, <1>2, <1>4 DEF Streams, InWheel, Joined, SamePlace
  <2>7. NoGap(c)'
    BY <1>4 DEF NoGap, Live
  <2>8. Tells(c)'
    BY <1>1, <1>2, <1>4 DEF Streams, Tells, Feeds
  <2> QED BY <2>1, <2>2, <2>3, <2>4, <2>5, <2>6, <2>7, <2>8 DEF Streams
<1> QED BY <1>2, <1>3, <1>5, HandlerKeeps

\* A handler that only goes on to leave.
LEMMA LoopEndKeeps == ASSUME IInv, NEW c \in Conns, LoopEnd(c), UNCHANGED verifier PROVE IInv'
<1>1. Shape /\ Streams(c)
  BY DEF IInv
<1>2. /\ Shape' /\ conn[c].pc = "loop" /\ Moves(c, "leaveWheel")
      /\ UNCHANGED <<world, at, hooks, closing, sub, hub, log, bpos, bc, out, wheel, wire, fate>>
  BY <1>1, LoopEndDoes
<1>3. Handles(c)
  BY <1>2 DEF Handles, Moves
<1>4. conn'[c].pc = "leaveWheel" /\ conn'[c].role = conn[c].role
  BY <1>2 DEF Moves
<1>5. Streams(c)'
  <2>1. InHub(c)'
    BY <1>1, <1>2, <1>4 DEF Streams, InHub, Streaming
  <2>2. Known(c)'
    BY <1>4 DEF Known, Streaming
  <2>3. Shut(c)'
    BY <1>1, <1>2, <1>4 DEF Streams, Shut
  <2>4. Sought(c)'
    BY <1>1, <1>2, <1>4 DEF Streams, Sought, Live
  <2>5. Goes(c)'
    BY <1>4 DEF Goes
  <2>6. InWheel(c)'
    BY <1>1, <1>2, <1>4 DEF Streams, InWheel, Joined
  <2>7. NoGap(c)'
    BY <1>4 DEF NoGap, Live
  <2>8. Tells(c)'
    BY <1>1, <1>2, <1>4 DEF Streams, Tells, Feeds
  <2> QED BY <2>1, <2>2, <2>3, <2>4, <2>5, <2>6, <2>7, <2>8 DEF Streams
<1> QED BY <1>2, <1>3, <1>5, HandlerKeeps

\* Served is read after Add: a reload before it is seen, one after it will prune.
LEMMA CheckServedKeeps == ASSUME IInv, NEW c \in Conns, CheckServed(c), UNCHANGED verifier PROVE IInv'
<1>1. Shape /\ Streams(c)
  BY DEF IInv
<1>2. /\ Shape' /\ conn[c].pc = "served"
      /\ UNCHANGED <<world, at, hooks, closing, sub, hub, log, bpos, bc, out, wheel, wire, fate>>
      /\ \/ Moves(c, "leaveHub")
         \/ conf.serving = "served" /\ sub[c].rpos > 0 /\ Moves(c, "replay")
         \/ conf.serving = "served" /\ sub[c].rpos = 0 /\ Moves(c, "wheel")
  BY <1>1, CheckServedDoes
<1>3. Handles(c)
  BY <1>2 DEF Handles, Moves
<1>4. /\ conn'[c].role = conn[c].role
      /\ \/ conn'[c].pc = "leaveHub"
         \/ conf.serving = "served" /\ sub[c].rpos > 0 /\ conn'[c].pc = "replay"
         \/ conf.serving = "served" /\ sub[c].rpos = 0 /\ conn'[c].pc = "wheel"
  BY <1>2 DEF Moves
<1>5. Streams(c)'
  <2>1. InHub(c)'
    BY <1>1, <1>2, <1>4 DEF Streams, InHub, Streaming
  <2>2. Known(c)'
    BY <1>4 DEF Known, Streaming
  <2>3. Shut(c)'
    BY <1>1, <1>2, <1>4 DEF Streams, Shut
  <2>4. Sought(c)'
    BY <1>1, <1>2, <1>4 DEF Streams, Sought, Live
  <2>5. Goes(c)'
    BY <1>2, <1>4 DEF Goes, conf
  <2>6. InWheel(c)'
    BY <1>1, <1>2, <1>4 DEF Streams, InWheel, Joined
  <2>7. NoGap(c)'
    <3>1. \A n : (Had(c, n)' <=> Had(c, n)) /\ (Coming(c, n)' <=> Coming(c, n))
      BY <1>2, <1>4 DEF Had, Coming
    <3> HIDE DEF Had, Coming
    <3>2. NoGap(c) /\ sub' = sub /\ bpos' = bpos /\ world' = world
      BY <1>1, <1>2 DEF Streams
    <3>3. sub[c].rpos = world.req[c].since /\ world.req[c].since \in Nat
      BY <1>1, <1>2 DEF Streams, Sought, Shape, CaseShape, Case
    <3>4. Cancelled(c)' <=> Cancelled(c)
      BY <1>2 DEF Cancelled, Moves
    <3> HIDE DEF Cancelled
    <3> QED BY <1>2, <1>4, <3>1, <3>2, <3>3, <3>4 DEF NoGap, Live
  <2>8. Tells(c)'
    BY <1>1, <1>2, <1>4 DEF Streams, Tells, Feeds, Sought
  <2> QED BY <2>1, <2>2, <2>3, <2>4, <2>5, <2>6, <2>7, <2>8 DEF Streams
<1> QED BY <1>2, <1>3, <1>5, HandlerKeeps

\* The replay ends at the log's end: what follows is in the queue or coming.
LEMMA ReplayEndKeeps == ASSUME IInv, NEW c \in Conns, ReplayEnd(c), UNCHANGED verifier PROVE IInv'
<1>1. Shape /\ Streams(c)
  BY DEF IInv
<1>2. /\ Shape' /\ conn[c].pc = "replay" /\ Moves(c, "wheel") /\ (sub[c].rpos > Len(log) \/ Cancelled(c))
      /\ UNCHANGED <<world, at, hooks, closing, sub, hub, log, bpos, bc, out, wheel, wire, fate>>
  BY <1>1, ReplayEndDoes
<1>3. Handles(c)
  BY <1>2 DEF Handles, Moves
<1>4. conn'[c].pc = "wheel" /\ conn'[c].role = conn[c].role /\ conn'[c].gone = conn[c].gone
  BY <1>2 DEF Moves
<1>5. Streams(c)'
  <2>1. InHub(c)'
    BY <1>1, <1>2, <1>4 DEF Streams, InHub, Streaming
  <2>2. Known(c)'
    BY <1>4 DEF Known, Streaming
  <2>3. Shut(c)'
    BY <1>1, <1>2, <1>4 DEF Streams, Shut
  <2>4. Sought(c)'
    BY <1>1, <1>2, <1>4 DEF Streams, Sought, Live
  <2>5. Goes(c)'
    BY <1>1, <1>2, <1>4 DEF Streams, Goes, conf
  <2>6. InWheel(c)'
    BY <1>1, <1>2, <1>4 DEF Streams, InWheel, Joined
  <2>7. NoGap(c)'
    <3>1. \A n : Had(c, n)' <=> Had(c, n)
      BY <1>2 DEF Had
    <3>2. Cancelled(c)' <=> Cancelled(c)
      BY <1>2, <1>4 DEF Cancelled
    <3>3. /\ sub[c].rpos \in Nat /\ sub[c].from \in Nat /\ bpos \in 0..Len(log) /\ Len(log) \in Nat
          /\ world.req[c].since \in Nat /\ world' = world
      BY <1>1, <1>2, SeqIs DEF Shape, SubShape, SubRec, LogShape, CaseShape, Case
    <3>4. /\ \A n \in world.req[c].since..(sub[c].rpos - 1) : Had(c, n)
          /\ sub[c].from <= bpos + 1
          /\ ~Cancelled(c) => \A n \in sub[c].from..bpos : Had(c, n) \/ Coming(c, n)
      BY <1>1, <1>2 DEF Streams, NoGap, Live
    <3>5. \A n : Coming(c, n)' <=> Coming(c, n)
      BY <1>2, <1>4 DEF Coming
    <3> HIDE DEF Had, Coming, Cancelled
    <3>6. ~Cancelled(c) => \A n \in world.req[c].since..(sub[c].from - 1) : Had(c, n)
      BY <1>2, <3>3, <3>4
    <3> QED BY <1>2, <1>4, <3>1, <3>2, <3>3, <3>4, <3>5, <3>6 DEF NoGap
  <2>8. Tells(c)'
    BY <1>1, <1>2, <1>4 DEF Streams, Tells, Sought, Feeds
  <2> QED BY <2>1, <2>2, <2>3, <2>4, <2>5, <2>6, <2>7, <2>8 DEF Streams
<1> QED BY <1>2, <1>3, <1>5, HandlerKeeps

\* The replay failed: the rows it had not come to are those it missed, up to the
\* registration; what followed that is in the queue or coming.
LEMMA ReplayFailsKeeps == ASSUME IInv, NEW c \in Conns, ReplayFails(c), UNCHANGED verifier PROVE IInv'
<1>1. Shape /\ Streams(c)
  BY DEF IInv
<1>2. /\ Shape' /\ conn[c].pc = "replay" /\ Moves(c, "wheel")
      /\ UNCHANGED <<world, at, hooks, closing, hub, log, bpos, bc, out, wheel, wire, fate>>
      /\ \A d \in Conns \ {c} : sub'[d] = sub[d]
      /\ sub'[c].queue = sub[c].queue /\ sub'[c].lastSchema = sub[c].lastSchema
      /\ sub'[c].closed = sub[c].closed /\ sub'[c].evicted = sub[c].evicted
      /\ sub'[c].rpos = sub[c].rpos /\ sub'[c].from = sub[c].from
      /\ sub'[c].wheel = sub[c].wheel /\ sub'[c].bucket = sub[c].bucket
      /\ sub'[c].missed = sub[c].rpos..(sub[c].from - 1)
  BY <1>1, ReplayFailsDoes
<1>3. Handles(c)
  BY <1>2 DEF Handles, Moves
<1>4. conn'[c].pc = "wheel" /\ conn'[c].role = conn[c].role /\ conn'[c].gone = conn[c].gone
  BY <1>2 DEF Moves
<1>5. Streams(c)'
  <2>1. InHub(c)'
    BY <1>1, <1>2, <1>4 DEF Streams, InHub, Streaming
  <2>2. Known(c)'
    BY <1>4 DEF Known, Streaming
  <2>3. Shut(c)'
    BY <1>1, <1>2, <1>4 DEF Streams, Shut
  <2>4. Sought(c)'
    BY <1>1, <1>2, <1>4 DEF Streams, Sought, Live
  <2>5. Goes(c)'
    BY <1>1, <1>2, <1>4 DEF Streams, Goes, conf
  <2>6. InWheel(c)'
    BY <1>1, <1>2, <1>4 DEF Streams, InWheel, Joined
  <2>7. NoGap(c)'
    <3>1. \A n : (Had(c, n)' <=> Had(c, n)) /\ (Coming(c, n)' <=> Coming(c, n))
      BY <1>2, <1>4 DEF Had, Coming
    <3>2. Cancelled(c)' <=> Cancelled(c)
      BY <1>2, <1>4 DEF Cancelled
    <3>3. sub[c].rpos \in Nat /\ sub[c].from \in Nat /\ world.req[c].since \in Nat /\ world' = world
      BY <1>1, <1>2 DEF Shape, SubShape, SubRec, CaseShape, Case
    <3>4. /\ \A n \in world.req[c].since..(sub[c].rpos - 1) : Had(c, n)
          /\ ~Cancelled(c) => \A n \in sub[c].from..bpos : Had(c, n) \/ Coming(c, n)
      BY <1>1, <1>2 DEF Streams, NoGap, Live
    <3> HIDE DEF Had, Coming, Cancelled
    <3>5. \A n \in world.req[c].since..(sub[c].from - 1) : Had(c, n) \/ n \in sub'[c].missed
      BY <1>2, <3>3, <3>4
    <3> QED BY <1>2, <1>4, <3>1, <3>2, <3>3, <3>4, <3>5 DEF NoGap
  <2>8. Tells(c)'
    BY <1>1, <1>2, <1>4 DEF Streams, Tells, Sought, Feeds
  <2> QED BY <2>1, <2>2, <2>3, <2>4, <2>5, <2>6, <2>7, <2>8 DEF Streams
<1> QED BY <1>2, <1>3, <1>5, HandlerKeeps

\* A stream begins: none sends to it, and nothing is held for it.
LEMMA SubscribeKeeps == ASSUME IInv, NEW c \in Conns, SubscribeSchema(c), UNCHANGED verifier PROVE IInv'
<1>1. Shape /\ Streams(c) /\ wheel.id \in Nat \ {0} /\ IsSeq(wire[c]) /\ world.req[c].since \in Nat
  BY DEF IInv, Shape, WheelShape, WheelRec, WireShape, CaseShape, Case
<1>2. /\ Shape' /\ conn[c].pc = "subscribe"
      /\ UNCHANGED <<world, at, hooks, closing, hub, log, bpos, bc, out, wheel, fate>>
      /\ \A d \in Conns \ {c} : sub'[d] = sub[d] /\ wire'[d] = wire[d]
      /\ sub'[c].queue = <<>> /\ ~sub'[c].closed /\ ~sub'[c].evicted /\ sub'[c].rpos = world.req[c].since
      /\ sub'[c].wheel = 0
      /\ \/ Moves(c, "close") /\ wire' = wire
         \/ /\ Moves(c, "add")
            /\ \/ wire' = wire /\ sub'[c].lastSchema = <<>>
               \/ \E cols : wire'[c] = wire[c] \o <<SchemaFrame(cols)>> /\ sub'[c].lastSchema = <<cols>>
  BY <1>1, SubscribeDoes
<1>3. Handles(c)
  BY <1>2 DEF Handles, Moves
<1>4. conn'[c].pc \in {"close", "add"} /\ conn'[c].role = conn[c].role
  BY <1>2 DEF Moves
<1>5. /\ c \notin bc.to /\ c \notin wheel.to /\ wire[c] = <<>> /\ \A s \in Senders : out[s].c # c
      /\ \A i \in 1..Len(wheel.ring) : c \notin wheel.ring[i]
  BY <1>1, <1>2 DEF Streams, Known, Streaming, Ended
<1>6. Streams(c)'
  <2>1. InHub(c)'
    BY <1>1, <1>2, <1>4 DEF Streams, InHub, Streaming
  <2>2. Known(c)'
    BY <1>2, <1>4, <1>5 DEF Known, Ended
  <2>3. Shut(c)'
    BY <1>2, <1>4, EmptyIs DEF Shut
  <2>4. Sought(c)'
    BY <1>2, <1>4 DEF Sought, Live
  <2>5. Goes(c)'
    BY <1>4 DEF Goes
  <2>6. InWheel(c)'
    BY <1>1, <1>2, <1>4, <1>5 DEF InWheel, Joined
  <2>7. NoGap(c)'
    BY <1>4 DEF NoGap, Live
  <2>8. Tells(c)'
    <3>1. CASE world.req[c].since # 0
      BY <1>2, <3>1 DEF Tells
    <3>2. CASE world.req[c].since = 0
      <4>1. UnderOwn(wire[c], <<>>)
        BY <1>1, <3>2 DEF Streams, Tells
      <4>2. CASE wire' = wire /\ conn'[c].pc = "close"
        BY <1>2, <4>1, <4>2 DEF Tells, Feeds
      <4>3. CASE wire' = wire /\ conn'[c].pc = "add" /\ sub'[c].lastSchema = <<>>
        <5>1. Announced(wire[c], Len(wire[c]), <<>>, <<>>)
          BY <1>5, AnnouncedEmpty
        <5>2. UnderOwn(sub'[c].queue, <<>>) /\ Announced(sub'[c].queue, Len(sub'[c].queue), <<>>, sub'[c].lastSchema)
          BY <1>2, <4>3, AnnouncedEmpty
        <5> QED BY <1>2, <4>1, <4>3, <5>1, <5>2 DEF Tells
      <4>4. ASSUME NEW cols, wire'[c] = wire[c] \o <<SchemaFrame(cols)>>, sub'[c].lastSchema = <<cols>>, conn'[c].pc = "add"
            PROVE  Tells(c)'
        <5> DEFINE f == SchemaFrame(cols)
        <5>1. f.kind = "schema" /\ f.cols = cols /\ f.ev = 0
          BY SchemaFrameIs
        <5> HIDE DEF f
        <5>2. wire'[c] = Append(wire[c], f)
          BY <1>1, <4>4, JoinOneIs DEF f
        <5>3. Announced(wire[c], Len(wire[c]), <<>>, <<>>)
          BY <1>5, AnnouncedEmpty
        <5>4. Announced(wire'[c], Len(wire'[c]), <<>>, <<cols>>)
          BY <1>1, <5>1, <5>2, <5>3, AnnouncedAppend
        <5>5. UnderOwn(wire'[c], <<>>)
          <6>1. f.ev > 0 => Announced(wire[c], Len(wire[c]), <<>>, <<f.cols>>)
            BY <5>1
          <6> QED BY <1>1, <4>1, <5>2, <6>1, UnderOwnAppend
        <5>6. UnderOwn(sub'[c].queue, <<cols>>) /\ Announced(sub'[c].queue, Len(sub'[c].queue), <<cols>>, sub'[c].lastSchema)
          BY <1>2, <4>4, AnnouncedEmpty
        <5> QED BY <4>4, <5>4, <5>5, <5>6 DEF Tells
      <4> QED BY <1>2, <4>2, <4>3, <4>4 DEF Moves
    <3> QED BY <3>1, <3>2
  <2> QED BY <2>1, <2>2, <2>3, <2>4, <2>5, <2>6, <2>7, <2>8 DEF Streams
<1>7. out["hub"].c # c
  BY <1>5 DEF Senders
<1> QED BY <1>2, <1>3, <1>6, <1>7, HandlerKeeps

\* The gap grows by the row replayed.
LEMMA ReplayNextKeeps == ASSUME IInv, NEW c \in Conns, ReplayNext(c), UNCHANGED verifier PROVE IInv'
<1>1. /\ Shape /\ Streams(c) /\ IsSeq(wire[c]) /\ sub[c].rpos \in Nat /\ sub[c].from \in Nat
  BY DEF IInv, Shape, WireShape, SubShape, SubRec
<1>2. /\ Shape' /\ conn[c].pc = "replay"
      /\ UNCHANGED <<world, at, hooks, closing, hub, log, bpos, bc, out, wheel>>
      /\ \A d \in Conns \ {c} : sub'[d] = sub[d] /\ wire'[d] = wire[d] /\ fate'[d] = fate[d]
      /\ sub'[c].queue = sub[c].queue /\ sub'[c].lastSchema = sub[c].lastSchema
      /\ sub'[c].closed = sub[c].closed /\ sub'[c].evicted = sub[c].evicted /\ sub'[c].from = sub[c].from /\ sub'[c].missed = sub[c].missed
      /\ sub'[c].wheel = sub[c].wheel /\ sub'[c].bucket = sub[c].bucket
      /\ sub'[c].rpos = sub[c].rpos + 1
      /\ fate[c] \subseteq fate'[c]
      /\ \A i \in 1..Len(wire[c]) : i \in 1..Len(wire'[c]) /\ wire'[c][i] = wire[c][i]
      /\ sub[c].rpos \in fate'[c] \/ \E i \in 1..Len(wire'[c]) : wire'[c][i].ev = sub[c].rpos
      /\ conn' = conn \/ (conn[c].gone /\ Moves(c, "wheel"))
  BY <1>1, ReplayNextDoes
<1>3. Handles(c)
  BY <1>2 DEF Handles, Moves
<1>4. /\ conn'[c].role = conn[c].role
      /\ conn'[c].pc = "replay" \/ (conn'[c].pc = "wheel" /\ conn'[c].gone)
  BY <1>2 DEF Moves
<1>5. Streams(c)'
  <2>1. InHub(c)'
    BY <1>1, <1>2, <1>4 DEF Streams, InHub, Streaming
  <2>2. Known(c)'
    BY <1>4 DEF Known, Streaming
  <2>3. Shut(c)'
    BY <1>1, <1>2, <1>4 DEF Streams, Shut
  <2>4. Sought(c)'
    BY <1>1, <1>2, <1>4 DEF Streams, Sought, Live
  <2>5. Goes(c)'
    BY <1>1, <1>2, <1>4 DEF Streams, Goes, conf
  <2>6. InWheel(c)'
    BY <1>1, <1>2, <1>4 DEF Streams, InWheel, Joined
  <2>7. NoGap(c)'
    <3>1. ASSUME NEW n, Had(c, n) PROVE Had(c, n)'
      BY <1>2, <3>1 DEF Had
    <3>2. ASSUME NEW n, n = sub[c].rpos PROVE Had(c, n)'
      BY <1>2, <3>2 DEF Had
    <3>3. /\ \A n \in world.req[c].since..(sub[c].rpos - 1) : Had(c, n)
          /\ sub[c].from <= bpos + 1 /\ world.req[c].since \in Nat
          /\ ~Cancelled(c) => \A n \in sub[c].from..bpos : Had(c, n) \/ Coming(c, n)
      BY <1>1, <1>2 DEF Streams, NoGap, Live, Shape, CaseShape, Case
    <3>4. \A n : Coming(c, n)' <=> Coming(c, n)
      BY <1>2, <1>4 DEF Coming
    <3>5. (conn'[c].pc = "wheel" => Cancelled(c)') /\ (Cancelled(c) => Cancelled(c)')
      BY <1>2, <1>4 DEF Cancelled, Moves
    <3> HIDE DEF Had, Coming, Cancelled
    <3>6. \A n \in world'.req[c].since..(sub'[c].rpos - 1) : Had(c, n)'
      <4>1. ASSUME NEW n \in world.req[c].since..sub[c].rpos PROVE Had(c, n)'
        <5>1. n = sub[c].rpos \/ n \in world.req[c].since..(sub[c].rpos - 1)
          BY <1>1, <3>3
        <5> QED BY <3>1, <3>2, <3>3, <5>1
      <4> QED BY <1>1, <1>2, <3>3, <4>1
    <3>7. ~Cancelled(c)' => \A n \in sub'[c].from..bpos' : Had(c, n)' \/ Coming(c, n)'
      BY <1>2, <3>1, <3>3, <3>4, <3>5
    <3> QED BY <1>2, <1>4, <3>3, <3>5, <3>6, <3>7 DEF NoGap
  <2>8. Tells(c)'
    BY <1>1, <1>2 DEF Streams, Sought, Tells
  <2> QED BY <2>1, <2>2, <2>3, <2>4, <2>5, <2>6, <2>7, <2>8 DEF Streams
<1> QED BY <1>2, <1>3, <1>5, HandlerKeeps

\* The head of the queue is told, or counted as the client left.
LEMMA LoopWriteKeeps == ASSUME IInv, NEW c \in Conns, LoopWrite(c), UNCHANGED verifier PROVE IInv'
<1>1. /\ Shape /\ Streams(c) /\ IsSeq(wire[c]) /\ sub[c].rpos \in Nat /\ sub[c].from \in Nat /\ IsSeq(sub[c].queue)
      /\ SubRec(sub[c]) /\ bpos \in Nat
  BY SeqIs DEF IInv, Shape, WireShape, SubShape, SubRec, LogShape
<1> DEFINE q == sub[c].queue
           h == Head(q)
<1>2. /\ Shape' /\ conn[c].pc = "loop" /\ q # <<>>
      /\ UNCHANGED <<world, at, hooks, closing, hub, log, bpos, bc, out, wheel>>
      /\ \A d \in Conns \ {c} : sub'[d] = sub[d] /\ wire'[d] = wire[d] /\ fate'[d] = fate[d]
      /\ sub'[c].queue = Tail(q) /\ sub'[c].lastSchema = sub[c].lastSchema
      /\ SamePlace(sub'[c], sub[c])
      /\ \/ /\ Moves(c, "leaveWheel") /\ wire' = wire /\ fate[c] \subseteq fate'[c]
            /\ h.ev # 0 => h.ev \in fate'[c]
         \/ conn' = conn /\ fate' = fate /\ wire'[c] = wire[c] \o Recorded(h)
  BY <1>1, LoopWriteDoes
<1>3. Handles(c)
  BY <1>2 DEF Handles, Moves
<1>4. /\ conn'[c].role = conn[c].role /\ conn'[c].gone = conn[c].gone
      /\ \/ conn'[c].pc = "leaveWheel" /\ wire' = wire
         \/ conn'[c].pc = "loop" /\ fate' = fate /\ wire'[c] = wire[c] \o Recorded(h)
  BY <1>2 DEF Moves
<1>5. /\ Len(q) \in Nat /\ Len(Tail(q)) = Len(q) - 1 /\ Len(q) > 0 /\ h = q[1]
      /\ \A i \in 1..(Len(q) - 1) : Tail(q)[i] = q[i + 1]
  BY <1>1, <1>2, TailIs, SeqIs
<1>6. Shut(c)'
  <2>1. /\ sub[c].closed <=> conn[c].pc \in {"discard", "done"}
        /\ \A i \in 1..Len(q) : q[i].kind = "keepalive" => q[i].ev = 0
    BY <1>1 DEF Streams, Shut
  <2> HIDE DEF q
  <2>2. \A i \in 1..Len(Tail(q)) : Tail(q)[i].kind = "keepalive" => Tail(q)[i].ev = 0
    <3>1. ASSUME NEW i \in 1..Len(Tail(q)) PROVE Tail(q)[i] = q[i + 1] /\ i + 1 \in 1..Len(q)
      BY <1>5
    <3> QED BY <2>1, <3>1
  <2>3. sub'[c].closed = sub[c].closed
    BY <1>2 DEF SamePlace
  <2> QED BY <1>2, <1>4, <2>1, <2>2, <2>3 DEF Shut
<1>7. CASE conn'[c].pc = "leaveWheel" /\ wire' = wire
  <2>1. InHub(c)'
    BY <1>1, <1>2, <1>4, <1>7 DEF Streams, InHub, Streaming
  <2>2. Known(c)'
    BY <1>7 DEF Known, Streaming
  <2>4. Sought(c)'
    BY <1>1, <1>2, <1>7 DEF Streams, Sought, Live, SamePlace
  <2>5. Goes(c)'
    BY <1>7 DEF Goes
  <2>6. InWheel(c)'
    BY <1>1, <1>2, <1>7 DEF Streams, InWheel, Joined, SamePlace
  <2>7. NoGap(c)'
    BY <1>7 DEF NoGap, Live
  <2>8. Tells(c)'
    BY <1>1, <1>2, <1>7 DEF Streams, Tells, Feeds
  <2>9. Streams(c)'
    BY <1>6, <2>1, <2>2, <2>4, <2>5, <2>6, <2>7, <2>8 DEF Streams
  <2> QED BY <1>2, <1>3, <2>9, HandlerKeeps
<1>8. CASE conn'[c].pc = "loop" /\ fate' = fate /\ wire'[c] = wire[c] \o Recorded(h)
  <2>0. StaysAt(c)
    BY <1>2, <1>4, <1>8 DEF StaysAt
  <2>1. InHub(c)'
    BY <1>1, <1>2, <1>4, <1>8 DEF Streams, InHub, Streaming
  <2>2. Known(c)'
    BY <1>8 DEF Known, Streaming
  <2>4. Sought(c)'
    BY <1>1, <1>2, <1>8 DEF Streams, Sought, Live, SamePlace
  <2>5. Goes(c)'
    BY <1>1, <1>2, <1>8 DEF Streams, Goes, conf, SamePlace
  <2>6. InWheel(c)'
    BY <1>1, <1>2, <1>8 DEF Streams, InWheel, Joined, SamePlace
  <2>7. wire'[c] = IF h.kind = "keepalive" THEN wire[c] ELSE Append(wire[c], h)
    <3>1. CASE h.kind = "keepalive"
      <4>1. wire'[c] = wire[c] \o <<>>
        BY <1>8, <3>1 DEF Recorded
      <4>2. PICK S : wire[c] \in Seq(S)
        BY <1>1 DEF IsSeq
      <4>3. wire[c] \o <<>> = wire[c]
        BY <4>2
      <4> QED BY <3>1, <4>1, <4>3
    <3>2. CASE h.kind # "keepalive"
      <4>1. wire'[c] = wire[c] \o <<h>>
        BY <1>8, <3>2 DEF Recorded
      <4> HIDE DEF h
      <4>2. wire[c] \o <<h>> = Append(wire[c], h)
        BY <1>1, JoinOneIs
      <4> QED BY <3>2, <4>1, <4>2
    <3> QED BY <3>1, <3>2
  <2>8. h.kind = "keepalive" => h.ev = 0
    BY <1>1, <1>5 DEF Streams, Shut
  <2>9. NoGap(c)'
    <3>1. ASSUME NEW n \in Nat, n > 0, Had(c, n) PROVE Had(c, n)'
      <4> HIDE DEF h, q
      <4>1. /\ Len(wire[c]) \in Nat
            /\ h.kind # "keepalive" => /\ Len(wire'[c]) = Len(wire[c]) + 1 /\ wire'[c][Len(wire[c]) + 1] = h
                                       /\ \A i \in 1..Len(wire[c]) : wire'[c][i] = wire[c][i]
        BY <1>1, <2>7, AppendIs, SeqIs
      <4>2. CASE \E i \in 1..Len(wire[c]) : wire[c][i].ev = n
        BY <2>7, <4>1, <4>2 DEF Had
      <4>3. CASE n \in fate[c]
        BY <1>8, <4>3 DEF Had
      <4>4. CASE \E i \in 1..Len(q) : q[i].ev = n
        <5>1. PICK i \in 1..Len(q) : q[i].ev = n
          BY <4>4
        <5>2. CASE i = 1
          <6>1. h.kind # "keepalive" /\ h.ev = n
            BY <1>5, <2>8, <3>1, <5>1, <5>2
          <6> QED BY <4>1, <6>1 DEF Had
        <5>3. CASE i # 1
          <6>1. i - 1 \in 1..Len(Tail(q)) /\ Tail(q)[i - 1].ev = n
            <7>1. i - 1 \in 1..(Len(q) - 1) /\ (i - 1) + 1 = i
              BY <1>5, <5>3
            <7> QED BY <1>5, <5>1, <7>1
          <6> QED BY <1>2, <6>1 DEF Had
        <5> QED BY <5>2, <5>3
      <4> QED BY <3>1, <4>2, <4>3, <4>4 DEF Had, q
    <3>2. \A n : Coming(c, n) => Coming(c, n)'
      BY <1>2, <2>0 DEF Coming, StaysAt
    <3>3. Cancelled(c)' <=> Cancelled(c)
      BY <1>2, <1>4 DEF Cancelled, SamePlace
    <3>4. sub[c].from > 0
      BY <1>1, <1>2 DEF Streams, Sought, Live
    <3> HIDE DEF Had, Coming, Cancelled
    <3>5. NoGap(c) /\ sub'[c].from = sub[c].from /\ sub'[c].missed = sub[c].missed /\ bpos' = bpos
      BY <1>1, <1>2 DEF Streams, SamePlace
    <3>6. ~Cancelled(c)' => \A n \in sub'[c].from..bpos' : Had(c, n)' \/ Coming(c, n)'
      <4>1. ASSUME ~Cancelled(c), NEW n \in sub[c].from..bpos PROVE Had(c, n)' \/ Coming(c, n)'
        <5>1. n \in Nat /\ n > 0 /\ (Had(c, n) \/ Coming(c, n))
          BY <1>1, <1>2, <3>4, <3>5, <4>1 DEF NoGap, Live
        <5> QED BY <3>1, <3>2, <5>1
      <4> QED BY <3>3, <3>5, <4>1
    <3>7. ASSUME ~Cancelled(c)', world'.req[c].since > 0, NEW n \in world'.req[c].since..(sub'[c].from - 1)
          PROVE  Had(c, n)' \/ n \in sub'[c].missed
      <4>1. world' = world /\ world.req[c].since \in Nat
        BY <1>1, <1>2 DEF Shape, CaseShape, Case
      <4>2. n \in Nat /\ n > 0 /\ (Had(c, n) \/ n \in sub[c].missed)
        BY <1>1, <1>2, <3>3, <3>5, <3>7, <4>1 DEF NoGap
      <4> QED BY <3>1, <3>5, <4>2
    <3> QED BY <1>8, <3>6, <3>7 DEF NoGap
  <2>10. Tells(c)'
    <3>1. CASE world.req[c].since # 0
      BY <1>2, <3>1 DEF Tells
    <3>2. CASE world.req[c].since = 0
      <4>1. /\ UnderOwn(wire[c], <<>>)
            /\ \E T : /\ Announced(wire[c], Len(wire[c]), <<>>, T) /\ UnderOwn(q, T)
                      /\ Announced(q, Len(q), T, sub[c].lastSchema)
        BY <1>1, <1>2, <3>2 DEF Streams, Tells, Feeds
      <4>2. PICK T : /\ Announced(wire[c], Len(wire[c]), <<>>, T) /\ UnderOwn(q, T)
                     /\ Announced(q, Len(q), T, sub[c].lastSchema)
        BY <4>1
      <4> DEFINE V == IF h.kind = "schema" THEN <<h.cols>> ELSE T
                 last == sub[c].lastSchema
      <4>3. UnderOwn(Tail(q), V) /\ (h.ev > 0 => T = <<h.cols>>)
        <5>1. UnderOwn(q, T) /\ IsSeq(q) /\ q # <<>>
          BY <1>1, <1>2, <4>2
        <5> HIDE DEF q
        <5>2. /\ UnderOwn(Tail(q), IF q[1].kind = "schema" THEN <<q[1].cols>> ELSE T)
              /\ q[1].ev > 0 => T = <<q[1].cols>>
          BY <5>1, UnderOwnTail
        <5> QED BY <1>5, <5>2
      <4>4. Announced(Tail(q), Len(Tail(q)), V, last)
        <5>1. Announced(q, Len(q), T, last) /\ IsSeq(q) /\ q # <<>> /\ Len(q) \in 1..Len(q)
          BY <1>1, <1>2, <1>5, <4>2
        <5> HIDE DEF q, last
        <5>2. Announced(Tail(q), Len(q) - 1, IF q[1].kind = "schema" THEN <<q[1].cols>> ELSE T, last)
          BY <5>1, AnnouncedTail
        <5> QED BY <1>5, <5>2
      <4>5. Announced(wire'[c], Len(wire'[c]), <<>>, V) /\ UnderOwn(wire'[c], <<>>)
        <5>1. CASE h.kind = "keepalive"
          <6>1. V = T /\ wire'[c] = wire[c]
            BY <2>7, <5>1
          <6> QED BY <4>1, <4>2, <6>1
        <5>2. CASE h.kind # "keepalive"
          <6>1. wire'[c] = Append(wire[c], h)
            BY <2>7, <5>2
          <6>2. h.ev > 0 => Announced(wire[c], Len(wire[c]), <<>>, <<h.cols>>)
            BY <4>2, <4>3
          <6> HIDE DEF h
          <6>3. UnderOwn(wire'[c], <<>>)
            BY <1>1, <4>1, <6>1, <6>2, UnderOwnAppend
          <6>4. Announced(wire'[c], Len(wire'[c]), <<>>, V)
            BY <1>1, <4>2, <6>1, AnnouncedAppend
          <6> QED BY <6>3, <6>4
        <5> QED BY <5>1, <5>2
      <4> HIDE DEF V
      <4>6. UnderOwn(sub'[c].queue, V) /\ Announced(sub'[c].queue, Len(sub'[c].queue), V, sub'[c].lastSchema)
        BY <1>2, <4>3, <4>4
      <4> QED BY <4>5, <4>6 DEF Tells
    <3> QED BY <3>1, <3>2
  <2>11. Streams(c)'
    BY <1>6, <2>1, <2>2, <2>4, <2>5, <2>6, <2>9, <2>10 DEF Streams
  <2> QED BY <1>2, <1>3, <2>11, HandlerKeeps
<1> QED BY <1>4, <1>7, <1>8

\* A stream is registered: its feed begins at the log's end, or where its replay does.
LEMMA HubAddKeeps == ASSUME IInv, NEW c \in Conns, HubAdd(c), UNCHANGED verifier PROVE IInv'
<1>1. /\ Shape /\ Streams(c) /\ sub[c].rpos \in Nat /\ sub[c].from \in Nat /\ Len(log) \in Nat /\ bpos \in 0..Len(log)
      /\ conn[c].role \in Roles
  BY SeqIs DEF IInv, Shape, SubShape, SubRec, LogShape, ConnShape, ConnRec
<1>2. /\ Shape' /\ conn[c].pc = "add" /\ Moves(c, "served")
      /\ UNCHANGED <<world, at, hooks, closing, log, bpos, bc, out, wheel, wire, fate>>
      /\ hub'[conn[c].role].subs = hub[conn[c].role].subs \cup {c}
      /\ hub'[conn[c].role].gen = hub[conn[c].role].gen
      /\ \A r \in Roles \ {conn[c].role} : hub'[r] = hub[r]
      /\ \A d \in Conns \ {c} : sub'[d] = sub[d]
      /\ sub'[c].queue = sub[c].queue /\ sub'[c].lastSchema = sub[c].lastSchema
      /\ sub'[c].closed = sub[c].closed /\ sub'[c].evicted = sub[c].evicted /\ sub'[c].rpos = sub[c].rpos
      /\ sub'[c].wheel = sub[c].wheel /\ sub'[c].bucket = sub[c].bucket
      /\ sub'[c].from = bpos + 1
  BY <1>1, HubAddDoes
<1>3. conn'[c].pc = "served" /\ conn'[c].role = conn[c].role /\ \A d \in Conns \ {c} : conn'[d] = conn[d]
  BY <1>2 DEF Moves
<1>4. Streams(c)'
  <2>1. InHub(c)'
    <3>1. \A r \in Roles : c \notin hub[r].subs
      BY <1>1, <1>2 DEF Streams, InHub, Streaming
    <3> QED BY <1>1, <1>2, <1>3, <3>1 DEF InHub, Streaming
  <2>2. Known(c)'
    BY <1>3 DEF Known, Streaming
  <2>3. Shut(c)'
    BY <1>1, <1>2, <1>3 DEF Streams, Shut
  <2>4. Sought(c)'
    BY <1>1, <1>2, <1>3 DEF Streams, Sought, Live
  <2>5. Goes(c)'
    BY <1>3 DEF Goes
  <2>6. InWheel(c)'
    BY <1>1, <1>2, <1>3 DEF Streams, InWheel, Joined
  <2>7. NoGap(c)'
    <3>1. sub'[c].from..bpos' = {} /\ sub'[c].from <= bpos' + 1
      BY <1>1, <1>2
    <3> QED BY <1>3, <3>1 DEF NoGap
  <2>8. Tells(c)'
    BY <1>1, <1>2, <1>3 DEF Streams, Tells, Feeds
  <2> QED BY <2>1, <2>2, <2>3, <2>4, <2>5, <2>6, <2>7, <2>8 DEF Streams
<1>5. ASSUME NEW d \in Conns \ {c} PROVE Streams(d)'
  <2>1. \A r \in Roles : (d \in hub'[r].subs <=> d \in hub[r].subs) /\ hub'[r].gen = hub[r].gen
    BY <1>1, <1>2, <1>5
  <2>2. Beyond(d)
    BY <1>2, <1>3, <1>5, <2>1 DEF Beyond, StaysAt, WheelSame
  <2>3. Shape /\ Streams(d)
    BY <1>5 DEF IInv
  <2> QED BY <1>2, <2>2, <2>3, BeyondKeeps
<1>6. OutFrames' /\ WheelServes'
  <2>1. OutFrames /\ WheelServes /\ out["hub"].c \in Conns \cup {None}
    BY DEF IInv, Shape, OutShape, OutRec, Senders
  <2>2. out["hub"].c # None => sub'[out["hub"].c].lastSchema = sub[out["hub"].c].lastSchema
    BY <1>2, <2>1
  <2> QED BY <1>2, <2>1, <2>2 DEF OutFrames, WheelServes, conf
<1> QED BY <1>2, <1>4, <1>5, <1>6 DEF IInv

\* A stream is gone from the hub; the bucket of another is the one it was in.
LEMMA HubRemoveKeeps == ASSUME IInv, NEW c \in Conns, HubRemove(c), UNCHANGED verifier PROVE IInv'
<1>1. Shape /\ Streams(c) /\ conn[c].role \in Roles
  BY DEF IInv, Shape, ConnShape, ConnRec
<1>2. /\ Shape' /\ conn[c].pc = "leaveHub" /\ Moves(c, "close")
      /\ UNCHANGED <<world, at, hooks, closing, sub, log, bpos, bc, out, wheel, wire, fate>>
      /\ hub'[conn[c].role].subs = hub[conn[c].role].subs \ {c}
      /\ hub[conn[c].role].subs # {c} => hub'[conn[c].role].gen = hub[conn[c].role].gen
      /\ \A r \in Roles \ {conn[c].role} : hub'[r] = hub[r]
  BY <1>1, HubRemoveDoes
<1>3. conn'[c].pc = "close" /\ conn'[c].role = conn[c].role /\ \A d \in Conns \ {c} : conn'[d] = conn[d]
  BY <1>2 DEF Moves
<1>4. Streams(c)'
  <2>1. InHub(c)'
    <3>1. \A r \in Roles : c \notin hub'[r].subs
      BY <1>1, <1>2 DEF Streams, InHub
    <3> QED BY <1>3, <3>1 DEF InHub, Streaming
  <2>2. Known(c)'
    BY <1>3 DEF Known, Ended
  <2>3. Shut(c)'
    BY <1>1, <1>2, <1>3 DEF Streams, Shut
  <2>4. Sought(c)'
    BY <1>1, <1>2, <1>3 DEF Streams, Sought, Live
  <2>5. Goes(c)'
    BY <1>3 DEF Goes
  <2>6. InWheel(c)'
    BY <1>1, <1>2, <1>3 DEF Streams, InWheel, Joined
  <2>7. NoGap(c)'
    BY <1>3 DEF NoGap, Live
  <2>8. Tells(c)'
    BY <1>1, <1>2, <1>3 DEF Streams, Tells, Feeds
  <2> QED BY <2>1, <2>2, <2>3, <2>4, <2>5, <2>6, <2>7, <2>8 DEF Streams
<1>5. ASSUME NEW d \in Conns \ {c} PROVE Streams(d)'
  <2>1. \A r \in Roles : d \in hub'[r].subs <=> d \in hub[r].subs
    BY <1>1, <1>2, <1>5
  <2>2. \A r \in Roles : d \in hub[r].subs => hub'[r].gen = hub[r].gen
    BY <1>1, <1>2, <1>5
  <2>3. Beyond(d)
    BY <1>2, <1>3, <1>5, <2>1, <2>2 DEF Beyond, StaysAt, WheelSame
  <2>4. Shape /\ Streams(d)
    BY <1>5 DEF IInv
  <2> QED BY <1>2, <2>3, <2>4, BeyondKeeps
<1>6. OutFrames' /\ WheelServes'
  BY <1>2 DEF IInv, OutFrames, WheelServes, conf
<1> QED BY <1>2, <1>4, <1>5, <1>6 DEF IInv

\* A stream joins the wheel, a turn ahead of the hand.
LEMMA WheelAddKeeps == ASSUME IInv, NEW c \in Conns, WheelAdd(c), UNCHANGED verifier PROVE IInv'
<1>1. /\ Shape /\ Streams(c) /\ OutFrames /\ WheelServes
      /\ sub[c].rpos \in Nat /\ sub[c].from \in Nat /\ bpos \in Nat /\ sub[c].wheel \in Nat
      /\ wheel.up \in BOOLEAN /\ wheel.id \in Nat /\ Len(wheel.ring) \in Nat /\ hooks \in HookLists
  BY SeqIs DEF IInv, Shape, SubShape, SubRec, LogShape, WheelShape, WheelRec, CaseShape
<1>2. /\ Shape' /\ conn[c].pc = "wheel" /\ Moves(c, "loop")
      /\ UNCHANGED <<world, at, hooks, closing, hub, log, bpos, bc, out, wire, fate>>
      /\ \A d \in Conns \ {c} : sub'[d] = sub[d]
  BY <1>1, WheelAddDoes
<1>3. /\ conn'[c].pc = "loop" /\ conn'[c].role = conn[c].role /\ conn'[c].gone = conn[c].gone
      /\ \A d \in Conns \ {c} : conn'[d] = conn[d]
  BY <1>2 DEF Moves
<1>4. \/ ~wheel.up /\ conf.serving # "served" /\ wheel' = wheel /\ sub' = sub
      \/ /\ wheel'.up /\ wheel'.id = wheel.id /\ wheel'.to \subseteq wheel.to
         /\ wheel.up \/ conf.serving = "served"
         /\ sub'[c].wheel = wheel.id /\ sub'[c].bucket \in 1..Len(wheel'.ring) /\ sub'[c].quiet = 0
         /\ Dist(wheel'.hand, sub'[c].bucket, Len(wheel'.ring)) = Len(wheel'.ring) - 1
         /\ sub'[c].queue = sub[c].queue /\ sub'[c].lastSchema = sub[c].lastSchema
         /\ sub'[c].closed = sub[c].closed /\ sub'[c].evicted = sub[c].evicted
         /\ sub'[c].rpos = sub[c].rpos /\ sub'[c].from = sub[c].from /\ sub'[c].missed = sub[c].missed
         /\ \/ /\ wheel.up /\ wheel'.hand = wheel.hand /\ Len(wheel'.ring) = Len(wheel.ring)
               /\ \A i \in 1..Len(wheel.ring) :
                    wheel'.ring[i] = IF i = sub'[c].bucket THEN wheel.ring[i] \cup {c} ELSE wheel.ring[i]
            \/ /\ ~wheel.up
               /\ \A i \in 1..Len(wheel'.ring) : wheel'.ring[i] = IF i = sub'[c].bucket THEN {c} ELSE {}
  BY <1>1, WheelAddDoes
<1>5. /\ sub'[c].queue = sub[c].queue /\ sub'[c].lastSchema = sub[c].lastSchema
      /\ sub'[c].closed = sub[c].closed /\ sub'[c].evicted = sub[c].evicted
      /\ sub'[c].rpos = sub[c].rpos /\ sub'[c].from = sub[c].from /\ sub'[c].missed = sub[c].missed
      /\ wheel'.to \subseteq wheel.to /\ (wheel.up => wheel'.up)
  BY <1>1, <1>4
<1>6. InHub(c)' /\ Known(c)' /\ Shut(c)' /\ Sought(c)' /\ Goes(c)' /\ Tells(c)'
  <2>1. InHub(c)'
    BY <1>1, <1>2, <1>3 DEF Streams, InHub, Streaming
  <2>2. Known(c)'
    BY <1>3 DEF Known, Streaming
  <2>3. Shut(c)'
    BY <1>1, <1>2, <1>3, <1>5 DEF Streams, Shut
  <2>4. Sought(c)'
    BY <1>1, <1>2, <1>3, <1>5 DEF Streams, Sought, Live
  <2>5. Goes(c)'
    BY <1>1, <1>2, <1>3, <1>5 DEF Streams, Goes, conf
  <2>6. Tells(c)'
    BY <1>1, <1>2, <1>3, <1>5 DEF Streams, Tells, Feeds
  <2> QED BY <2>1, <2>2, <2>3, <2>4, <2>5, <2>6
<1>7. NoGap(c)'
  <2>1. \A n : (Had(c, n) => Had(c, n)') /\ (Coming(c, n) => Coming(c, n)')
    BY <1>2, <1>3, <1>5 DEF Had, Coming
  <2>2. Cancelled(c)' <=> Cancelled(c)
    BY <1>2, <1>3, <1>5 DEF Cancelled
  <2> HIDE DEF Had, Coming, Cancelled
  <2>3. NoGap(c)
    BY <1>1 DEF Streams
  <2> QED BY <1>2, <1>3, <1>5, <2>1, <2>2, <2>3 DEF NoGap, Live
<1>8. ~Joined(c)
  BY <1>2 DEF Joined
<1>9. InWheel(c)'
  <2>1. InWheel(c) /\ Goes(c)
    BY <1>1 DEF Streams
  <2>2. CASE ~wheel.up /\ conf.serving # "served" /\ wheel' = wheel /\ sub' = sub
    <3>1. sub[c].evicted
      BY <1>2, <2>1, <2>2 DEF Goes
    <3>2. sub[c].wheel < wheel.id
      BY <2>1, <2>2 DEF InWheel
    <3>3. ~Joined(c)'
      BY <1>1, <2>2, <3>2 DEF Joined
    <3> QED BY <1>8, <2>1, <2>2, <3>1, <3>3 DEF InWheel
  <2>3. CASE wheel'.up
    <3>0. sub'[c].wheel = wheel.id /\ wheel'.id = wheel.id
      BY <1>4, <2>1, <2>3
    <3>1. Joined(c)'
      BY <1>3, <3>0 DEF Joined
    <3>2. Len(wheel'.ring) \in Nat \ {0}
      BY <1>2, SeqIs DEF Shape, WheelShape, WheelRec
    <3>3. \A i \in 1..Len(wheel.ring) : c \notin wheel.ring[i]
      BY <1>8, <2>1 DEF InWheel
    <3>4. \A i \in 1..Len(wheel'.ring) : c \in wheel'.ring[i] <=> i = sub'[c].bucket
      BY <1>4, <2>3, <3>3
    <3>5. /\ sub'[c].bucket \in 1..Len(wheel'.ring)
          /\ sub'[c].quiet + Dist(wheel'.hand, sub'[c].bucket, Len(wheel'.ring)) < Len(wheel'.ring)
      BY <1>4, <2>3, <3>2
    <3> HIDE DEF Joined
    <3> QED BY <1>1, <1>4, <2>3, <3>0, <3>1, <3>4, <3>5 DEF InWheel
  <2> QED BY <1>4, <2>2, <2>3
<1>10. Streams(c)'
  BY <1>6, <1>7, <1>9 DEF Streams
<1>11. ASSUME NEW d \in Conns \ {c} PROVE Streams(d)'
  <2>1. Streams(d) /\ sub'[d] = sub[d] /\ conn'[d] = conn[d] /\ sub[d].wheel \in Nat /\ sub[d].from \in Nat /\ sub[d].rpos \in Nat
    BY <1>2, <1>3, <1>11 DEF IInv, Shape, SubShape, SubRec
  <2>2. CASE wheel'.up <=> wheel.up
    <3>1. WheelSame(d)
      BY <1>1, <1>4, <1>11, <2>2 DEF WheelSame
    <3>2. Beyond(d)
      BY <1>2, <1>5, <2>1, <3>1 DEF Beyond, StaysAt
    <3> QED BY <1>1, <1>2, <2>1, <3>2, BeyondKeeps
  <2>3. CASE ~wheel.up /\ wheel'.up
    <3>1. /\ wheel'.id = wheel.id
          /\ \A i \in 1..Len(wheel'.ring) : d \notin wheel'.ring[i]
      BY <1>4, <1>11, <2>3
    <3>2. sub[d].wheel < wheel.id /\ InWheel(d)
      BY <2>1, <2>3 DEF Streams, InWheel
    <3>3. ~Joined(d) /\ ~Joined(d)'
      BY <1>1, <2>1, <3>1, <3>2 DEF Joined
    <3>4. InWheel(d)'
      BY <2>1, <2>3, <3>1, <3>2, <3>3 DEF InWheel
    <3>5. StaysAt(d) /\ conn[d].role \in Roles
      BY <1>1, <2>1 DEF StaysAt, Shape, ConnShape, ConnRec
    <3>6. InHub(d)'
      BY <1>2, <2>1, <3>5, KeepsInHub DEF Streams
    <3>7. Known(d)'
      BY <1>2, <1>5, <2>1, <3>1, KeepsKnown DEF Streams
    <3>8. Shut(d)' /\ Sought(d)' /\ Tells(d)'
      BY <1>2, <2>1, KeepsShut, KeepsSought, KeepsTells DEF Streams
    <3>9. Goes(d)'
      BY <1>2, <1>5, <2>1, KeepsGoes DEF Streams
    <3>10. NoGap(d)'
      <4>1. \A n : (Had(d, n) => Had(d, n)') /\ (Coming(d, n) => Coming(d, n)')
        BY <1>2, <2>1 DEF Had, Coming
      <4>2. Cancelled(d) => Cancelled(d)'
        BY <1>2, <2>1 DEF Cancelled
      <4> HIDE DEF Had, Coming, Cancelled
      <4> QED BY <1>1, <1>2, <2>1, <4>1, <4>2, KeepsNoGap DEF Streams
    <3> QED BY <3>4, <3>6, <3>7, <3>8, <3>9, <3>10 DEF Streams
  <2>4. wheel'.up \in BOOLEAN
    BY <1>2 DEF Shape, WheelShape, WheelRec
  <2> QED BY <1>1, <1>5, <2>2, <2>3, <2>4
<1>12. OutFrames'
  <2>1. out["hub"].c \in Conns \cup {None}
    BY <1>1 DEF Shape, OutShape, OutRec, Senders
  <2>2. out["hub"].c # None => sub'[out["hub"].c].lastSchema = sub[out["hub"].c].lastSchema
    BY <1>2, <1>5, <2>1
  <2> QED BY <1>1, <1>2, <2>2 DEF OutFrames
<1>13. WheelServes'
  BY <1>1, <1>2, <1>4 DEF WheelServes, conf
<1> QED BY <1>2, <1>10, <1>11, <1>12, <1>13 DEF IInv


\* A stream leaves the wheel it joined.
LEMMA WheelRemoveKeeps == ASSUME IInv, NEW c \in Conns, WheelRemove(c), UNCHANGED verifier PROVE IInv'
<1>1. Shape /\ Streams(c) /\ InWheel(c)
  BY DEF IInv, Streams
<1>2. /\ Shape' /\ conn[c].pc = "leaveWheel" /\ Moves(c, "leaveHub")
      /\ UNCHANGED <<world, at, hooks, closing, sub, hub, log, bpos, bc, out, wire, fate>>
      /\ wheel'.up = wheel.up /\ wheel'.id = wheel.id /\ wheel'.hand = wheel.hand /\ wheel'.to = wheel.to
      /\ Len(wheel'.ring) = Len(wheel.ring)
      /\ \A i \in 1..Len(wheel.ring) : wheel'.ring[i] = wheel.ring[i] \ {c}
  BY <1>1, WheelRemoveDoes
<1>3. conn'[c].pc = "leaveHub" /\ conn'[c].role = conn[c].role /\ \A d \in Conns \ {c} : conn'[d] = conn[d]
  BY <1>2 DEF Moves
<1>4. Streams(c)'
  <2>1. InHub(c)'
    BY <1>1, <1>2, <1>3 DEF Streams, InHub, Streaming
  <2>2. Known(c)'
    BY <1>3 DEF Known, Streaming
  <2>3. Shut(c)'
    BY <1>1, <1>2, <1>3 DEF Streams, Shut
  <2>4. Sought(c)'
    BY <1>1, <1>2, <1>3 DEF Streams, Sought, Live
  <2>5. Goes(c)'
    BY <1>3 DEF Goes
  <2>6. InWheel(c)'
    <3>1. ~Joined(c)'
      BY <1>3 DEF Joined
    <3> QED BY <1>1, <1>2, <1>3, <3>1 DEF InWheel
  <2>7. NoGap(c)'
    BY <1>3 DEF NoGap, Live
  <2>8. Tells(c)'
    BY <1>1, <1>2, <1>3 DEF Streams, Tells, Feeds
  <2> QED BY <2>1, <2>2, <2>3, <2>4, <2>5, <2>6, <2>7, <2>8 DEF Streams
<1>5. ASSUME NEW d \in Conns \ {c} PROVE Streams(d)'
  <2>1. Beyond(d)
    BY <1>2, <1>3, <1>5 DEF Beyond, StaysAt, WheelSame
  <2>2. Shape /\ Streams(d)
    BY <1>5 DEF IInv
  <2> QED BY <1>2, <2>1, <2>2, BeyondKeeps
<1>6. OutFrames' /\ WheelServes'
  BY <1>2 DEF IInv, OutFrames, WheelServes, conf
<1> QED BY <1>2, <1>4, <1>5, <1>6 DEF IInv

\* What a step of the wheel or of a hook leaves of a stream.
WheelOnly(d) ==
    /\ UNCHANGED <<world, closing, conn, hub, bpos, bc, out, wire, fate>>
    /\ sub'[d].queue = sub[d].queue /\ sub'[d].lastSchema = sub[d].lastSchema /\ sub'[d].closed = sub[d].closed
    /\ sub'[d].rpos = sub[d].rpos /\ sub'[d].from = sub[d].from /\ sub'[d].missed = sub[d].missed /\ (sub[d].evicted => sub'[d].evicted)
    /\ d \in wheel'.to => d \in wheel.to \/ OnRing(d)
    /\ (\E i \in 1..Len(wheel'.ring) : d \in wheel'.ring[i]) => OnRing(d)

\* A step of the wheel alone keeps all but the stream's place in it.
LEMMA WheelOnlyKeeps ==
    ASSUME Shape, NEW d \in Conns, Streams(d), WheelOnly(d)
    PROVE  InHub(d)' /\ Known(d)' /\ Shut(d)' /\ Sought(d)' /\ NoGap(d)' /\ Tells(d)'
<1>1. conn[d].role \in Roles /\ sub[d].from \in Nat /\ sub[d].rpos \in Nat /\ bpos \in Nat
  BY SeqIs DEF Shape, ConnShape, ConnRec, SubShape, SubRec, LogShape
<1>2. StaysAt(d) /\ conn' = conn
  BY DEF WheelOnly, StaysAt
<1>3. InHub(d)'
  BY <1>1, <1>2, KeepsInHub DEF WheelOnly, Streams
<1>4. Known(d)'
  BY DEF Streams, Known, WheelOnly, OnRing
<1>5. Shut(d)' /\ Sought(d)' /\ Tells(d)'
  BY <1>2, KeepsShut, KeepsSought, KeepsTells DEF WheelOnly, Streams
<1>6. NoGap(d)'
  <2>1. Cancelled(d) => Cancelled(d)'
    BY DEF Cancelled, WheelOnly
  <2>2. \A n : (Had(d, n) => Had(d, n)') /\ (Coming(d, n) => Coming(d, n)')
    BY DEF Had, Coming, WheelOnly
  <2> HIDE DEF Had, Coming, Cancelled
  <2> QED BY <1>1, <1>2, <2>1, <2>2, KeepsNoGap DEF WheelOnly, Streams
<1> QED BY <1>3, <1>4, <1>5, <1>6

\* The frames on their way are of no other step's concern.
LEMMA OutFramesKept ==
    ASSUME Shape, OutFrames, UNCHANGED <<bc, out>>, \A d \in Conns : sub'[d].lastSchema = sub[d].lastSchema
    PROVE  OutFrames'
<1>1. out["hub"].c \in Conns \cup {None}
  BY DEF Shape, OutShape, OutRec, Senders
<1>2. out["hub"].c # None => sub'[out["hub"].c].lastSchema = sub[out["hub"].c].lastSchema
  BY <1>1
<1> QED BY <1>2 DEF OutFrames

\* The hand moves: the bucket it was at is served, all others are one tick nearer.
LEMMA TickKeeps == ASSUME IInv, Tick, UNCHANGED verifier PROVE IInv'
<1> DEFINE n == Len(wheel.ring)
<1>1. Shape /\ OutFrames /\ WheelServes
  BY DEF IInv
<1>2. /\ Shape' /\ wheel.up
      /\ UNCHANGED <<world, at, hooks, closing, conn, hub, bpos, bc, out, wire, fate>>
      /\ wheel'.up = wheel.up /\ wheel'.id = wheel.id /\ wheel'.ring = wheel.ring
      /\ wheel'.to = wheel.ring[wheel.hand] /\ wheel.hand \in 1..n
      /\ wheel'.hand = IF wheel.hand = n THEN 1 ELSE wheel.hand + 1
      /\ \A c \in Conns :
           /\ sub'[c].queue = sub[c].queue /\ sub'[c].lastSchema = sub[c].lastSchema
           /\ sub'[c].closed = sub[c].closed /\ sub'[c].evicted = sub[c].evicted
           /\ sub'[c].rpos = sub[c].rpos /\ sub'[c].from = sub[c].from /\ sub'[c].missed = sub[c].missed
           /\ sub'[c].wheel = sub[c].wheel /\ sub'[c].bucket = sub[c].bucket
           /\ sub'[c].quiet = IF \E i \in 1..n : c \in wheel.ring[i]
                              THEN IF c \in wheel.ring[wheel.hand] THEN 0 ELSE sub[c].quiet + 1
                              ELSE sub[c].quiet
  BY <1>1, TickDoes
<1>3. OutFrames' /\ WheelServes'
  <2>1. OutFrames'
    BY <1>1, <1>2, OutFramesKept
  <2> QED BY <1>1, <1>2, <2>1 DEF WheelServes, conf
<1>4. ASSUME NEW d \in Conns PROVE Streams(d)'
  <2>1. Streams(d) /\ InWheel(d) /\ Goes(d) /\ sub[d].quiet \in Nat /\ sub[d].bucket \in Nat /\ n \in Nat
    BY <1>1, SeqIs DEF IInv, Streams, Shape, SubShape, SubRec, WheelShape, WheelRec
  <2>2. WheelOnly(d)
    BY <1>2 DEF WheelOnly, OnRing
  <2>3. InHub(d)' /\ Known(d)' /\ Shut(d)' /\ Sought(d)' /\ NoGap(d)' /\ Tells(d)'
    BY <1>1, <2>1, <2>2, WheelOnlyKeeps
  <2>4. Goes(d)'
    BY <1>2, <2>1, KeepsGoes
  <2>5. InWheel(d)'
    <3>1. Joined(d)' <=> Joined(d)
      BY <1>2 DEF Joined
    <3> HIDE DEF Joined
    <3>2. ASSUME Joined(d)
          PROVE  sub'[d].quiet + Dist(wheel'.hand, sub'[d].bucket, n) < n
      <4> DEFINE b == sub[d].bucket
                 h == wheel.hand
                 k == sub[d].quiet
      <4>1. b \in 1..n /\ k + Dist(h, b, n) < n /\ \A i \in 1..n : d \in wheel.ring[i] <=> i = b
        BY <2>1, <3>2 DEF InWheel
      <4>2. sub'[d].bucket = b /\ sub'[d].quiet = IF h = b THEN 0 ELSE k + 1
        BY <1>2, <4>1
      <4>3. wheel'.hand = IF h = n THEN 1 ELSE h + 1
        BY <1>2
      <4>4. h \in 1..n /\ k \in Nat /\ n \in Nat
        BY <1>2, <2>1
      <4> HIDE DEF b, h, k, n
      <4>5. CASE h = b
        <5>1. Dist(IF h = n THEN 1 ELSE h + 1, b, n) = n - 1
          BY <4>1, <4>4, <4>5 DEF Dist
        <5> QED BY <4>2, <4>3, <4>4, <4>5, <5>1
      <4>6. CASE h # b
        <5>1. Dist(IF h = n THEN 1 ELSE h + 1, b, n) = Dist(h, b, n) - 1 /\ Dist(h, b, n) \in Nat
          BY <4>1, <4>4, <4>6 DEF Dist
        <5> QED BY <4>1, <4>2, <4>3, <4>4, <4>6, <5>1
      <4> QED BY <4>5, <4>6
    <3> QED BY <1>2, <2>1, <3>1, <3>2 DEF InWheel
  <2> QED BY <2>3, <2>4, <2>5 DEF Streams
<1> QED BY <1>2, <1>3, <1>4 DEF IInv

\* A keepalive is on its way to a stream the wheel held.
LEMMA WheelSendKeeps == ASSUME IInv, NEW c \in Conns, WheelSend(c), UNCHANGED verifier PROVE IInv'
<1>1. Shape /\ OutFrames /\ WheelServes
  BY DEF IInv
<1>2. /\ Shape' /\ c \in wheel.to /\ out["wheel"].c = None
      /\ UNCHANGED <<world, at, hooks, closing, conn, sub, hub, log, bpos, bc, wire, fate>>
      /\ wheel'.up = wheel.up /\ wheel'.id = wheel.id /\ wheel'.ring = wheel.ring /\ wheel'.hand = wheel.hand
      /\ wheel'.to = wheel.to \ {c}
      /\ out'["hub"] = out["hub"]
      /\ \/ out' = out
         \/ out'["wheel"].c = c /\ out'["wheel"].frame = Keepalive
  BY <1>1, WheelSendDoes
<1>3. OutFrames' /\ WheelServes'
  BY <1>1, <1>2 DEF OutFrames, WheelServes, conf
<1>4. ASSUME NEW d \in Conns PROVE Streams(d)'
  <2>1. Streams(d)
    BY DEF IInv
  <2>2. CASE d # c
    <3>1. None # d
      BY ConnsAssumption
    <3>2. Beyond(d)
      BY <1>2, <2>2, <3>1 DEF Beyond, StaysAt, WheelSame, Senders
    <3> QED BY <1>1, <1>2, <2>1, <3>2, BeyondKeeps
  <2>3. CASE d = c
    <3>1. conn[d].pc \in Streaming \cup Ended
      BY <1>2, <2>1, <2>3 DEF Streams, Known
    <3>2. StaysAt(d) /\ conn[d].role \in Roles /\ sub[d].from \in Nat /\ sub[d].rpos \in Nat /\ bpos \in Nat
      BY <1>1, <1>2, SeqIs DEF StaysAt, Shape, ConnShape, ConnRec, SubShape, SubRec, LogShape
    <3>3. InHub(d)'
      BY <1>2, <2>1, <3>2, KeepsInHub DEF Streams
    <3>4. Known(d)'
      BY <1>2, <3>1 DEF Known
    <3>5. Shut(d)' /\ Sought(d)' /\ Tells(d)'
      BY <1>2, <2>1, KeepsShut, KeepsSought, KeepsTells DEF Streams
    <3>6. Goes(d)'
      BY <1>2, <2>1, KeepsGoes DEF Streams
    <3>7. InWheel(d)'
      <4>1. WheelSame(d)
        BY <1>2 DEF WheelSame
      <4> QED BY <1>2, <2>1, <4>1, KeepsInWheel DEF Streams
    <3>8. NoGap(d)'
      <4>1. \A n : (Had(d, n) => Had(d, n)') /\ (Coming(d, n) => Coming(d, n)')
        BY <1>2 DEF Had, Coming
      <4>2. Cancelled(d) => Cancelled(d)'
        BY <1>2 DEF Cancelled
      <4> HIDE DEF Had, Coming, Cancelled
      <4> QED BY <1>2, <2>1, <3>2, <4>1, <4>2, <1>1, KeepsNoGap DEF Streams
    <3> QED BY <3>3, <3>4, <3>5, <3>6, <3>7, <3>8 DEF Streams
  <2> QED BY <2>2, <2>3
<1> QED BY <1>2, <1>3, <1>4 DEF IInv

\* A frame is queued, or dropped: a row under the columns last announced, and
\* what the Broadcast owed the stream is then paid.
LEMMA SendPutOf ==
    ASSUME IInv, NEW s \in Senders, NEW c, NEW f, NEW t, c = out[s].c, f = out[s].frame, t = out[s].then,
           SendPut(s), UNCHANGED verifier
    PROVE  IInv'
<1> DEFINE q == sub[c].queue
<1>1. Shape /\ OutFrames /\ WheelServes
  BY DEF IInv
<1>2. /\ Shape' /\ UNCHANGED <<world, at, hooks, closing, conn, hub, bpos, bc, wheel, wire>>
      /\ c \in Conns /\ f.kind # "none"
      /\ DOMAIN out' = Senders /\ \A u \in Senders \ {s} : out'[u] = out[u]
      /\ DOMAIN fate' = Conns /\ fate[c] \subseteq fate'[c]
      /\ \A d \in Conns \ {c} : fate'[d] = fate[d]
      /\ PutDrops(s) \/ PutQueues(s)
  BY <1>1, SendPutDoes
<1>3. Streams(c) /\ conn[c].pc \in Streaming \cup Ended /\ None # c
  <2>1. Streams(c)
    BY <1>2 DEF IInv
  <2> QED BY <1>2, <2>1, ConnsAssumption DEF Streams, Known
<1>4. NoSend.c = None /\ NoSend.frame.kind = "none"
  BY DEF NoSend
<1>5. \/ sub' = sub /\ out'[s] = NoSend
      \/ f.kind = "schema" /\ out'[s].c = c /\ out'[s].frame.kind = "none" /\ out'[s].then = t
      \/ f.kind # "schema" /\ out'[s] = NoSend
  <2>1. DOMAIN out[s] = {"c", "frame", "then"}
    BY <1>1 DEF Shape, OutShape, OutRec
  <2>2. CASE PutDrops(s)
    BY <2>2 DEF PutDrops
  <2>3. CASE PutQueues(s)
    <3>1. out'[s] = IF f.kind = "schema" THEN [out[s] EXCEPT !.frame = NoSend.frame] ELSE NoSend
      BY <2>3 DEF PutQueues
    <3> QED BY <1>4, <2>1, <3>1
  <2> QED BY <1>2, <2>2, <2>3
<1>6. /\ SamePlace(sub'[c], sub[c])
      /\ \A d \in Conns \ {c} : sub'[d] = sub[d]
      /\ sub' = sub \/ sub'[c].lastSchema = IF f.kind = "schema" THEN <<f.cols>> ELSE sub[c].lastSchema
      /\ \/ sub' = sub
         \/ ~sub[c].closed /\ sub'[c].queue = Append(q, f)
         \/ sub[c].closed /\ sub'[c].queue = <<>>
  BY <1>2 DEF PutDrops, PutQueues, SamePlace
<1>7. f.kind = "keepalive" => f.ev = 0
  <2>1. s = "hub" \/ s = "wheel"
    BY DEF Senders
  <2> QED BY <1>1, <1>3, <2>1 DEF OutFrames, Keepalive, RowFrame
<1>8. s = "wheel" => f.kind = "keepalive" /\ f.ev = 0
  BY <1>1, <1>3 DEF OutFrames, Keepalive
<1>9. s = "hub" => /\ bc.ev > 0
                   /\ \/ f.kind = "schema" /\ f.ev = 0 /\ Len(t) = 1 /\ RowFrame(t[1]) /\ t[1].ev = bc.ev /\ t[1].cols = f.cols
                      \/ RowFrame(f) /\ f.ev = bc.ev /\ t = <<>> /\ sub[c].lastSchema = <<f.cols>>
  BY <1>1, <1>2, <1>3 DEF OutFrames
<1>10. OutFrames'
  <2>1. CASE s = "hub"
    <3>1. out'["wheel"] = out["wheel"]
      BY <1>2, <2>1 DEF Senders
    <3>2. out'["hub"].c # None =>
            /\ bc'.ev > 0
            /\ /\ out'["hub"].frame.kind = "none" /\ Len(out'["hub"].then) = 1 /\ RowFrame(out'["hub"].then[1])
               /\ out'["hub"].then[1].ev = bc'.ev /\ sub'[out'["hub"].c].lastSchema = <<out'["hub"].then[1].cols>>
      <4>1. CASE out'["hub"] = NoSend
        BY <1>4, <4>1
      <4>2. CASE f.kind = "schema" /\ out'["hub"].c = c /\ out'["hub"].frame.kind = "none" /\ out'["hub"].then = t
        <5>1. CASE PutDrops(s)
          BY <1>4, <2>1, <5>1 DEF PutDrops
        <5>2. CASE PutQueues(s)
          <6>1. sub'[c].lastSchema = <<f.cols>>
            BY <4>2, <5>2 DEF PutQueues
          <6> QED BY <1>2, <1>9, <2>1, <4>2, <6>1 DEF RowFrame
        <5> QED BY <1>2, <5>1, <5>2
      <4> QED BY <1>5, <2>1, <4>1, <4>2
    <3>3. bc'.ev = 0 => bc'.todo = {} /\ bc'.to = {}
      BY <1>1, <1>2 DEF OutFrames
    <3> QED BY <1>1, <3>1, <3>2, <3>3 DEF OutFrames
  <2>2. CASE s = "wheel"
    <3>1. out'["hub"] = out["hub"] /\ out'["wheel"].c = None
      BY <1>2, <1>4, <1>5, <1>8, <2>2 DEF Senders
    <3>2. \A d \in Conns : sub'[d].lastSchema = sub[d].lastSchema
      BY <1>6, <1>8, <2>2
    <3>3. out["hub"].c \in Conns \cup {None}
      BY <1>1 DEF Shape, OutShape, OutRec, Senders
    <3>4. out["hub"].c # None => sub'[out["hub"].c].lastSchema = sub[out["hub"].c].lastSchema
      BY <3>2, <3>3
    <3> QED BY <1>1, <1>2, <3>1, <3>4 DEF OutFrames
  <2> QED BY <2>1, <2>2 DEF Senders
<1>11. WheelServes'
  BY <1>1, <1>2 DEF WheelServes, conf
<1>12. ASSUME NEW d \in Conns \ {c} PROVE Streams(d)'
  <2>1. \A u \in Senders : out'[u].c = d <=> out[u].c = d
    <3>1. None # d
      BY ConnsAssumption
    <3>2. out'[s].c # d /\ out[s].c # d
      BY <1>4, <1>5, <1>12, <3>1
    <3> QED BY <1>2, <3>2
  <2>2. Beyond(d)
    BY <1>2, <1>6, <1>12, <2>1 DEF Beyond, StaysAt, WheelSame
  <2>3. Shape /\ Streams(d)
    BY <1>12 DEF IInv
  <2> QED BY <1>2, <2>2, <2>3, BeyondKeeps
<1>13. Streams(c)'
  <2>1. StaysAt(c) /\ conn[c].role \in Roles /\ sub[c].from \in Nat /\ sub[c].rpos \in Nat /\ bpos \in Nat /\ IsSeq(q)
    BY <1>1, <1>2, SeqIs DEF StaysAt, Shape, ConnShape, ConnRec, SubShape, SubRec, LogShape
  <2>2. InHub(c)'
    BY <1>2, <1>3, <2>1, KeepsInHub DEF Streams
  <2>3. Known(c)'
    BY <1>2, <1>3 DEF Known
  <2>4. Sought(c)'
    BY <1>2, <1>3, <1>6, KeepsSought DEF Streams, SamePlace
  <2>5. Goes(c)'
    BY <1>2, <1>3, <1>6, KeepsGoes DEF Streams, SamePlace
  <2>6. InWheel(c)'
    <3>1. WheelSame(c)
      BY <1>2 DEF WheelSame
    <3> QED BY <1>2, <1>3, <1>6, <3>1, KeepsInWheel DEF Streams, SamePlace
  <2>7. Shut(c) /\ sub'[c].closed = sub[c].closed /\ NoGap(c) /\ Tells(c) /\ Sought(c)
    BY <1>3, <1>6 DEF Streams, SamePlace
  <2>8. CASE sub' = sub
    <3>1. Shut(c)' /\ Tells(c)'
      BY <1>2, <2>7, <2>8, KeepsShut, KeepsTells
    <3> HIDE DEF q
    <3>2. CASE s = "wheel"
      <4>1. out'["hub"] = out["hub"]
        BY <1>2, <3>2 DEF Senders
      <4>2. \A n : (Had(c, n) => Had(c, n)') /\ (Coming(c, n) => Coming(c, n)')
        BY <1>2, <2>8, <4>1 DEF Had, Coming
      <4>3. Cancelled(c) => Cancelled(c)'
        BY <1>2, <2>8 DEF Cancelled
      <4> HIDE DEF Had, Coming, Cancelled
      <4>4. NoGap(c)'
        BY <1>2, <2>1, <2>7, <2>8, <4>2, <4>3, <1>1, KeepsNoGap
      <4> QED BY <2>2, <2>3, <2>4, <2>5, <2>6, <3>1, <4>4 DEF Streams
    <3>3. CASE s = "hub"
      <4>1. \A n : Had(c, n) => Had(c, n)'
        BY <1>2, <2>8 DEF Had
      <4>2. Had(c, bc.ev)' \/ out'["hub"].c = c
        <5>1. CASE PutDrops(s)
          <6>1. /\ f.ev # 0 => f.ev \in fate'[c]
                /\ \A i \in 1..Len(t) : t[i].ev # 0 => t[i].ev \in fate'[c]
            BY <5>1 DEF PutDrops
          <6>2. bc.ev \in fate'[c]
            <7>1. CASE Len(t) = 1 /\ RowFrame(t[1]) /\ t[1].ev = bc.ev
              <8>1. 1 \in 1..Len(t)
                BY <7>1
              <8> QED BY <6>1, <7>1, <8>1 DEF RowFrame
            <7>2. CASE RowFrame(f) /\ f.ev = bc.ev
              BY <6>1, <7>2 DEF RowFrame
            <7> QED BY <1>9, <3>3, <7>1, <7>2
          <6> QED BY <1>2, <6>2 DEF Had
        <5>2. CASE PutQueues(s)
          <6>1. CASE f.kind = "schema"
            <7>1. out'[s] = [out[s] EXCEPT !.frame = NoSend.frame]
              BY <5>2, <6>1 DEF PutQueues
            <7>2. DOMAIN out[s] = {"c", "frame", "then"}
              BY <1>1 DEF Shape, OutShape, OutRec
            <7>3. out'[s].c = c
              BY <7>1, <7>2
            <7> QED BY <3>3, <7>3
          <6>2. CASE f.kind # "schema"
            <7>1. RowFrame(f) /\ f.ev = bc.ev
              BY <1>9, <3>3, <6>2
            <7>2. \/ sub'[c].queue = Append(q, f)
                  \/ f.ev # 0 => f.ev \in fate'[c]
              BY <5>2 DEF PutQueues, q
            <7>3. sub'[c].queue = Append(q, f) => \E i \in 1..Len(sub'[c].queue) : sub'[c].queue[i].ev = bc.ev
              <8>1. Len(Append(q, f)) = Len(q) + 1 /\ Append(q, f)[Len(q) + 1] = f /\ Len(q) \in Nat
                BY <2>1, AppendIs, SeqIs
              <8>2. Len(q) + 1 \in 1..Len(Append(q, f))
                BY <8>1
              <8> QED BY <7>1, <8>1, <8>2
            <7> QED BY <1>2, <7>1, <7>2, <7>3 DEF Had, RowFrame
          <6> QED BY <6>1, <6>2
        <5> QED BY <1>2, <5>1, <5>2
      <4>3. \A n : Coming(c, n) => Had(c, n)' \/ Coming(c, n)'
        <5>1. ASSUME NEW n, Coming(c, n) PROVE Had(c, n)' \/ Coming(c, n)'
          <6>1. bc.ev = n /\ bc' = bc /\ hub' = hub /\ conn' = conn
            BY <1>2, <5>1 DEF Coming
          <6>2. n = bc.ev => (Had(c, bc.ev)' => Had(c, n)')
            BY <6>1 DEF Had
          <6>3. out'["hub"].c = c => Coming(c, n)'
            BY <6>1 DEF Coming
          <6> QED BY <4>2, <6>1, <6>2, <6>3
        <5> QED BY <5>1
      <4>4. Cancelled(c) => Cancelled(c)'
        BY <1>2, <2>8 DEF Cancelled
      <4> HIDE DEF Had, Coming, Cancelled
      <4>5. NoGap(c)'
        BY <1>2, <2>1, <2>7, <2>8, <4>1, <4>3, <4>4, <1>1, KeepsNoGap
      <4> QED BY <2>2, <2>3, <2>4, <2>5, <2>6, <3>1, <4>5 DEF Streams
    <3> QED BY <3>2, <3>3 DEF Senders
  <2>9. CASE sub[c].closed /\ sub'[c].queue = <<>>
    <3>1. conn[c].pc \in {"discard", "done"} /\ conn'[c].pc = conn[c].pc
      BY <1>2, <2>7, <2>9 DEF Shut
    <3>2. Shut(c)'
      BY <2>7, <2>9, <3>1, EmptyIs DEF Shut
    <3>3. NoGap(c)'
      BY <3>1 DEF NoGap, Live
    <3>4. Tells(c)'
      BY <1>2, <2>7, <3>1 DEF Tells, Feeds
    <3> QED BY <2>2, <2>3, <2>4, <2>5, <2>6, <3>2, <3>3, <3>4 DEF Streams
  <2>10. CASE sub' # sub /\ ~sub[c].closed /\ sub'[c].queue = Append(q, f)
    <3> DEFINE r == Append(q, f)
    <3> HIDE DEF q
    <3>1. /\ Len(q) \in Nat /\ Len(r) = Len(q) + 1 /\ r[Len(q) + 1] = f
          /\ \A i \in 1..Len(q) : r[i] = q[i]
      BY <2>1, AppendIs, SeqIs
    <3>2. Shut(c)'
      <4>1. \A i \in 1..Len(q) : q[i].kind = "keepalive" => q[i].ev = 0
        BY <2>7 DEF Shut, q
      <4> HIDE DEF r
      <4>2. \A i \in 1..Len(r) : r[i].kind = "keepalive" => r[i].ev = 0
        <5>1. ASSUME NEW i \in 1..Len(r) PROVE i \in 1..Len(q) \/ i = Len(q) + 1
          BY <3>1
        <5> QED BY <1>7, <3>1, <4>1, <5>1
      <4>3. sub'[c].queue = r /\ conn' = conn
        BY <1>2, <2>10 DEF r
      <4> QED BY <2>7, <2>10, <4>2, <4>3 DEF Shut
    <3>3. NoGap(c)'
      <4>1. \A n : Had(c, n) => Had(c, n)'
        <5>1. ASSUME NEW n, \E i \in 1..Len(q) : q[i].ev = n PROVE \E i \in 1..Len(r) : r[i].ev = n
          <6>1. PICK i \in 1..Len(q) : q[i].ev = n
            BY <5>1
          <6>2. i \in 1..Len(r) /\ r[i].ev = n
            BY <3>1, <6>1
          <6> QED BY <6>2
        <5>2. sub'[c].queue = r /\ wire' = wire /\ fate[c] \subseteq fate'[c]
          BY <1>2, <2>10
        <5> HIDE DEF r
        <5> QED BY <5>1, <5>2 DEF Had, q
      <4>2. s = "hub" => Had(c, bc.ev)' \/ out'["hub"].c = c
        <5>1. ASSUME s = "hub", RowFrame(f), f.ev = bc.ev PROVE Had(c, bc.ev)'
          <6>1. Len(q) + 1 \in 1..Len(r) /\ r[Len(q) + 1].ev = bc.ev /\ sub'[c].queue = r /\ bc' = bc
            BY <1>2, <2>10, <3>1, <5>1
          <6> HIDE DEF r
          <6> QED BY <6>1 DEF Had
        <5>2. ASSUME s = "hub", f.kind = "schema" PROVE out'["hub"].c = c
          <6>1. ~PutDrops(s)
            BY <2>10 DEF PutDrops
          <6>2. out'[s] = [out[s] EXCEPT !.frame = NoSend.frame]
            BY <1>2, <5>2, <6>1 DEF PutQueues
          <6>3. DOMAIN out[s] = {"c", "frame", "then"}
            BY <1>1 DEF Shape, OutShape, OutRec
          <6> QED BY <5>2, <6>2, <6>3
        <5> QED BY <1>9, <5>1, <5>2
      <4>3. \A n : Coming(c, n) => Had(c, n)' \/ Coming(c, n)'
        <5>1. ASSUME NEW n, Coming(c, n) PROVE Had(c, n)' \/ Coming(c, n)'
          <6>1. bc.ev = n /\ bc' = bc /\ hub' = hub /\ conn' = conn
            BY <1>2, <5>1 DEF Coming
          <6>2. Had(c, bc.ev)' => Had(c, n)'
            BY <6>1 DEF Had
          <6>3. out'["hub"].c = out["hub"].c \/ out'["hub"].c = c => (out["hub"].c = c => Coming(c, n)')
            BY <6>1 DEF Coming
          <6>4. out["hub"].c # c => Coming(c, n)'
            BY <5>1, <6>1 DEF Coming
          <6>5. s # "hub" => out'["hub"] = out["hub"]
            BY <1>2 DEF Senders
          <6> QED BY <4>2, <6>1, <6>2, <6>3, <6>4, <6>5
        <5> QED BY <5>1
      <4>4. Cancelled(c) => Cancelled(c)'
        BY <1>2, <1>6 DEF Cancelled, SamePlace
      <4>5. sub'[c].rpos = sub[c].rpos /\ sub'[c].from = sub[c].from /\ sub'[c].missed = sub[c].missed
        BY <1>6 DEF SamePlace
      <4> HIDE DEF Had, Coming, Cancelled
      <4> QED BY <1>2, <2>1, <2>7, <4>1, <4>3, <4>4, <4>5, <1>1, KeepsNoGap
    <3>4. Tells(c)'
      <4>1. CASE ~(world.req[c].since = 0 /\ conn[c].pc \in Feeds)
        BY <1>2, <2>7, <4>1 DEF Tells
      <4>2. CASE world.req[c].since = 0 /\ conn[c].pc \in Feeds
        <5>1. PICK T : /\ Announced(wire[c], Len(wire[c]), <<>>, T)
                       /\ UnderOwn(sub[c].queue, T)
                       /\ Announced(sub[c].queue, Len(sub[c].queue), T, sub[c].lastSchema)
          BY <2>7, <4>2 DEF Tells
        <5> DEFINE last == sub[c].lastSchema
        <5>2. UnderOwn(q, T) /\ Announced(q, Len(q), T, last)
          BY <5>1 DEF q
        <5>3. f.ev > 0 => last = <<f.cols>>
          BY <1>8, <1>9 DEF Senders, RowFrame
        <5>4. f.ev > 0 => Announced(q, Len(q), T, <<f.cols>>)
          BY <5>2, <5>3
        <5>5. sub'[c].lastSchema = IF f.kind = "schema" THEN <<f.cols>> ELSE last
          BY <1>6, <2>10
        <5> HIDE DEF last
        <5>6. UnderOwn(r, T)
          BY <2>1, <5>2, <5>4, UnderOwnAppend
        <5>7. Announced(r, Len(r), T, IF f.kind = "schema" THEN <<f.cols>> ELSE last)
          BY <2>1, <5>2, AnnouncedAppend
        <5> HIDE DEF r
        <5>8. sub'[c].queue = r
          BY <2>10 DEF r
        <5>9. UnderOwn(sub'[c].queue, T) /\ Announced(sub'[c].queue, Len(sub'[c].queue), T, sub'[c].lastSchema)
          BY <5>5, <5>6, <5>7, <5>8
        <5>10. UnderOwn(wire[c], <<>>)
          BY <2>7, <4>2 DEF Tells
        <5> QED BY <1>2, <5>1, <5>9, <5>10 DEF Tells
      <4> QED BY <4>1, <4>2
    <3> QED BY <2>2, <2>3, <2>4, <2>5, <2>6, <3>2, <3>3, <3>4 DEF Streams
  <2> QED BY <1>6, <2>8, <2>9, <2>10
<1> QED BY <1>2, <1>10, <1>11, <1>12, <1>13 DEF IInv

\* A frame is put in its queue, whoever sends it.
LEMMA SendPutKeeps == ASSUME IInv, NEW s \in Senders, SendPut(s), UNCHANGED verifier PROVE IInv'
<1>1. \A c, f, t : c = out[s].c /\ f = out[s].frame /\ t = out[s].then => IInv'
  BY SendPutOf
<1> QED BY <1>1

\* The row after its announcement is on its way under the columns announced.
LEMMA SendNextOf ==
    ASSUME IInv, NEW s \in Senders, NEW c, NEW t, c = out[s].c, t = out[s].then,
           SendNext(s), UNCHANGED verifier
    PROVE  IInv'
<1>1. Shape /\ OutFrames /\ WheelServes
  BY DEF IInv
<1>2. /\ Shape' /\ UNCHANGED <<world, at, hooks, closing, conn, sub, hub, bpos, bc, wheel, wire>>
      /\ c \in Conns /\ out[s].frame.kind = "none"
      /\ DOMAIN out' = Senders /\ \A u \in Senders \ {s} : out'[u] = out[u]
      /\ DOMAIN fate' = Conns /\ fate[c] \subseteq fate'[c]
      /\ \A d \in Conns \ {c} : fate'[d] = fate[d]
      /\ \/ /\ sub[c].closed /\ out'[s] = NoSend
            /\ \A i \in 1..Len(t) : t[i].ev # 0 => t[i].ev \in fate'[c]
         \/ out'[s] = [c |-> c, frame |-> t[1], then |-> <<>>] /\ fate' = fate
  BY <1>1, SendNextDoes
<1>3. Streams(c) /\ conn[c].pc \in Streaming \cup Ended /\ None # c
  <2>1. Streams(c)
    BY <1>2 DEF IInv
  <2> QED BY <1>2, <2>1, ConnsAssumption DEF Streams, Known
<1>4. s = "hub"
  BY <1>1, <1>2, <1>3 DEF OutFrames, Keepalive, Senders
<1>5. bc.ev > 0 /\ Len(t) = 1 /\ RowFrame(t[1]) /\ t[1].ev = bc.ev /\ sub[c].lastSchema = <<t[1].cols>>
  BY <1>1, <1>2, <1>3, <1>4 DEF OutFrames, RowFrame
<1>6. out'["wheel"] = out["wheel"]
  BY <1>2, <1>4 DEF Senders
<1>7. NoSend.c = None
  BY DEF NoSend
<1>8. \/ sub[c].closed /\ out'["hub"].c = None
      \/ out'["hub"].c = c /\ out'["hub"].frame = t[1] /\ out'["hub"].then = <<>> /\ fate' = fate
  BY <1>2, <1>4, <1>7
<1>9. OutFrames' /\ WheelServes'
  <2>1. OutFrames'
    BY <1>1, <1>2, <1>5, <1>6, <1>8 DEF OutFrames
  <2> QED BY <1>1, <1>2, <2>1 DEF WheelServes, conf
<1>10. ASSUME NEW d \in Conns \ {c} PROVE Streams(d)'
  <2>1. \A u \in Senders : out'[u].c = d <=> out[u].c = d
    <3>1. None # d
      BY ConnsAssumption
    <3> QED BY <1>4, <1>6, <1>8, <1>10, <3>1 DEF Senders
  <2>2. Beyond(d)
    BY <1>2, <1>10, <2>1 DEF Beyond, StaysAt, WheelSame
  <2>3. Shape /\ Streams(d)
    BY <1>10 DEF IInv
  <2> QED BY <1>2, <2>2, <2>3, BeyondKeeps
<1>11. Streams(c)'
  <2>1. StaysAt(c) /\ conn[c].role \in Roles /\ sub[c].from \in Nat /\ sub[c].rpos \in Nat /\ bpos \in Nat
    BY <1>1, <1>2, SeqIs DEF StaysAt, Shape, ConnShape, ConnRec, SubShape, SubRec, LogShape
  <2>2. InHub(c)'
    BY <1>2, <1>3, <2>1, KeepsInHub DEF Streams
  <2>3. Known(c)'
    BY <1>2, <1>3 DEF Known
  <2>4. Shut(c)' /\ Sought(c)' /\ Tells(c)'
    BY <1>2, <1>3, KeepsShut, KeepsSought, KeepsTells DEF Streams
  <2>5. Goes(c)'
    BY <1>2, <1>3, KeepsGoes DEF Streams
  <2>6. InWheel(c)'
    <3>1. WheelSame(c)
      BY <1>2 DEF WheelSame
    <3> QED BY <1>2, <1>3, <3>1, KeepsInWheel DEF Streams
  <2>7. NoGap(c)'
    <3>1. CASE sub[c].closed
      <4>1. conn'[c].pc \in {"discard", "done"}
        BY <1>2, <1>3, <3>1 DEF Streams, Shut
      <4> QED BY <4>1 DEF NoGap, Live
    <3>2. CASE out'["hub"].c = c
      <4>1. \A n : (Had(c, n) => Had(c, n)') /\ (Coming(c, n) => Coming(c, n)')
        BY <1>2, <3>2 DEF Had, Coming
      <4>2. Cancelled(c) => Cancelled(c)'
        BY <1>2 DEF Cancelled
      <4> HIDE DEF Had, Coming, Cancelled
      <4> QED BY <1>2, <1>3, <2>1, <4>1, <4>2, <1>1, KeepsNoGap DEF Streams
    <3> QED BY <1>8, <3>1, <3>2
  <2> QED BY <2>2, <2>3, <2>4, <2>5, <2>6, <2>7 DEF Streams
<1> QED BY <1>2, <1>9, <1>10, <1>11 DEF IInv

\* The row after its announcement is next, whoever sends it.
LEMMA SendNextKeeps == ASSUME IInv, NEW s \in Senders, SendNext(s), UNCHANGED verifier PROVE IInv'
<1>1. \A c, t : c = out[s].c /\ t = out[s].then => IInv'
  BY SendNextOf
<1> QED BY <1>1

\* The next row of the log: those in the hub will be sent it, or have it counted.
LEMMA BroadcastKeeps == ASSUME IInv, Broadcast, UNCHANGED verifier PROVE IInv'
<1>1. Shape /\ OutFrames /\ WheelServes
  BY DEF IInv
<1>2. /\ Shape' /\ bc.ev = 0 /\ bpos' = bpos + 1 /\ bpos \in Nat
      /\ UNCHANGED <<world, at, hooks, closing, conn, sub, hub, out, wheel, wire, fate>>
      /\ \/ bc' = bc /\ \A r \in Roles : hub[r].subs = {}
         \/ /\ bc'.ev = bpos + 1 /\ bc'.to = {}
            /\ bc'.todo = {<<r, hub[r].gen>> : r \in {q \in Roles : hub[q].subs # {}}}
  BY <1>1, BroadcastDoes, SeqIs DEF Shape, LogShape
<1>3. out["hub"].c = None /\ bc.to = {} /\ bc.todo = {}
  BY <1>1, <1>2 DEF OutFrames
<1>4. OutFrames' /\ WheelServes'
  <2>1. bc'.ev = 0 => bc'.todo = {} /\ bc'.to = {}
    BY <1>2, <1>3
  <2> QED BY <1>1, <1>2, <1>3, <2>1 DEF OutFrames, WheelServes, conf
<1>5. ASSUME NEW d \in Conns PROVE Streams(d)'
  <2>1. Streams(d) /\ conn[d].role \in Roles /\ sub[d].from \in Nat /\ sub[d].rpos \in Nat /\ None # d
    BY <1>1, ConnsAssumption DEF IInv, Shape, ConnShape, ConnRec, SubShape, SubRec
  <2>2. StaysAt(d) /\ WheelSame(d) /\ d \notin bc'.to
    BY <1>2, <1>3 DEF StaysAt, WheelSame
  <2>3. InHub(d)'
    BY <1>2, <2>1, <2>2, KeepsInHub DEF Streams
  <2>4. Known(d)'
    BY <1>2, <2>1, <2>2 DEF Streams, Known
  <2>5. Shut(d)' /\ Sought(d)' /\ Tells(d)'
    BY <1>2, <2>1, KeepsShut, KeepsSought, KeepsTells DEF Streams
  <2>6. Goes(d)'
    BY <1>2, <2>1, KeepsGoes DEF Streams
  <2>7. InWheel(d)'
    BY <1>2, <2>1, <2>2, KeepsInWheel DEF Streams
  <2>8. NoGap(d)'
    <3>1. \A n : Had(d, n)' <=> Had(d, n)
      BY <1>2 DEF Had
    <3>2. Cancelled(d)' <=> Cancelled(d)
      BY <1>2 DEF Cancelled
    <3>3. \A n : ~Coming(d, n) \/ n = 0
      BY <1>2 DEF Coming
    <3>4. ASSUME conn[d].pc \in Live PROVE \A n : n = bpos + 1 => Coming(d, n)'
      <4>1. d \in hub[conn[d].role].subs
        BY <2>1, <3>4 DEF Streams, InHub, Streaming, Live
      <4>2. bc'.ev = bpos + 1 /\ <<conn[d].role, hub[conn[d].role].gen>> \in bc'.todo
        BY <1>2, <2>1, <4>1
      <4>3. <<conn'[d].role, hub'[conn'[d].role].gen>> \in bc'.todo
        BY <1>2, <4>2
      <4> QED BY <1>2, <4>2, <4>3 DEF Coming
    <3>5. conn[d].pc \in Live => sub[d].from > 0
      BY <2>1 DEF Streams, Sought, Live
    <3>6. NoGap(d) /\ sub' = sub /\ conn' = conn
      BY <1>2, <2>1 DEF Streams
    <3> HIDE DEF Had, Coming, Cancelled
    <3>7. ASSUME conn[d].pc \in Live, ~Cancelled(d), NEW n \in sub[d].from..(bpos + 1)
          PROVE  Had(d, n)' \/ Coming(d, n)'
      <4>1. CASE n = bpos + 1
        BY <3>4, <3>7, <4>1
      <4>2. CASE n \in sub[d].from..bpos
        <5>1. (Had(d, n) \/ Coming(d, n)) /\ n # 0
          BY <2>1, <3>5, <3>6, <3>7, <4>2 DEF NoGap
        <5> QED BY <3>1, <3>3, <5>1
      <4> QED BY <1>2, <2>1, <3>7, <4>1, <4>2
    <3>8. world' = world /\ (conn[d].pc \in {"served", "replay"} => sub[d].from <= bpos + 1)
      BY <1>2, <3>6 DEF NoGap
    <3> QED BY <1>2, <2>1, <3>1, <3>2, <3>6, <3>7, <3>8 DEF NoGap
  <2> QED BY <2>3, <2>4, <2>5, <2>6, <2>7, <2>8 DEF Streams
<1> QED BY <1>2, <1>4, <1>5 DEF IInv

\* One role's turn: its subscribers are to be sent the row, or have it counted.
LEMMA BroadcastRoleKeeps == ASSUME IInv, BroadcastRole, UNCHANGED verifier PROVE IInv'
<1>1. Shape /\ OutFrames /\ WheelServes
  BY DEF IInv
<1>2. /\ Shape' /\ bc.ev # 0 /\ bc.to = {} /\ out["hub"].c = None /\ bc'.ev = bc.ev
      /\ UNCHANGED <<world, at, hooks, closing, conn, sub, hub, bpos, out, wheel, wire>>
      /\ DOMAIN fate' = Conns /\ \A c \in Conns : fate[c] \subseteq fate'[c]
      /\ \E q \in bc.todo :
           LET members == IF hub[q[1]].gen = q[2] THEN hub[q[1]].subs ELSE {}
           IN  /\ bc'.todo = bc.todo \ {q}
               /\ bc'.to = members \/ (bc'.to = {} /\ \A c \in Conns \cap members : bc.ev \in fate'[c])
  BY <1>1, BroadcastRoleDoes
<1>3. OutFrames' /\ WheelServes'
  BY <1>1, <1>2 DEF OutFrames, WheelServes, conf
<1>4. PICK q \in bc.todo :
        LET members == IF hub[q[1]].gen = q[2] THEN hub[q[1]].subs ELSE {}
        IN  /\ bc'.todo = bc.todo \ {q}
            /\ bc'.to = members \/ (bc'.to = {} /\ \A c \in Conns \cap members : bc.ev \in fate'[c])
  BY <1>2
<1>5. q[1] \in Roles /\ q = <<q[1], q[2]>>
  BY <1>1 DEF Shape, BcShape, BcRec
<1>6. ASSUME NEW d \in Conns PROVE Streams(d)'
  <2>1. Streams(d) /\ conn[d].role \in Roles /\ sub[d].from \in Nat /\ sub[d].rpos \in Nat /\ bpos \in Nat
    BY <1>1, SeqIs DEF IInv, Shape, ConnShape, ConnRec, SubShape, SubRec, LogShape
  <2>2. StaysAt(d) /\ WheelSame(d)
    BY <1>2 DEF StaysAt, WheelSame
  <2>3. d \in bc'.to => d \in hub[q[1]].subs
    BY <1>4
  <2>4. d \in bc'.to => conn[d].pc \in Streaming
    BY <1>5, <2>1, <2>3 DEF Streams, InHub
  <2>5. InHub(d)'
    BY <1>2, <2>1, <2>2, KeepsInHub DEF Streams
  <2>6. Known(d)'
    BY <1>2, <2>1, <2>4 DEF Streams, Known
  <2>7. Shut(d)' /\ Sought(d)' /\ Tells(d)'
    BY <1>2, <2>1, KeepsShut, KeepsSought, KeepsTells DEF Streams
  <2>8. Goes(d)'
    BY <1>2, <2>1, KeepsGoes DEF Streams
  <2>9. InWheel(d)'
    BY <1>2, <2>1, <2>2, KeepsInWheel DEF Streams
  <2>10. NoGap(d)'
    <3>1. \A n : Had(d, n) => Had(d, n)'
      BY <1>2 DEF Had
    <3>2. Cancelled(d) => Cancelled(d)'
      BY <1>2 DEF Cancelled
    <3>3. ASSUME conn[d].pc \in Live, NEW n, Coming(d, n) PROVE Had(d, n)' \/ Coming(d, n)'
      <4> DEFINE r == conn[d].role
                 g == hub[conn[d].role].gen
      <4>1. n = bc.ev /\ <<r, g>> \in bc.todo /\ d \in hub[r].subs
        <5>1. d \in hub[conn[d].role].subs
          BY <2>1, <3>3 DEF Streams, InHub, Streaming, Live
        <5>2. None # d
          BY ConnsAssumption
        <5> QED BY <1>2, <3>3, <5>1, <5>2 DEF Coming
      <4>2. CASE <<r, g>> = q
        <5>1. q[1] = r /\ q[2] = g
          BY <4>2
        <5>2. d \in bc'.to \/ bc.ev \in fate'[d]
          BY <1>4, <4>1, <5>1
        <5> QED BY <1>2, <4>1, <5>2 DEF Had, Coming
      <4>3. CASE <<r, g>> # q
        <5>1. <<r, g>> \in bc'.todo
          BY <1>4, <4>1, <4>3
        <5> QED BY <1>2, <4>1, <5>1 DEF Coming
      <4> QED BY <4>2, <4>3
    <3> HIDE DEF Had, Coming, Cancelled
    <3> QED BY <1>2, <2>1, <3>1, <3>2, <3>3, <1>1, KeepsNoGap DEF Streams
  <2> QED BY <2>5, <2>6, <2>7, <2>8, <2>9, <2>10 DEF Streams
<1> QED BY <1>2, <1>3, <1>6 DEF IInv

\* One subscriber's turn: the row is on its way to it, or counted for it.
LEMMA BroadcastToKeeps == ASSUME IInv, NEW c \in Conns, BroadcastTo(c), UNCHANGED verifier PROVE IInv'
<1>1. Shape /\ OutFrames /\ WheelServes
  BY DEF IInv
<1>2. bc.ev # 0
  BY <1>1 DEF BroadcastTo, OutFrames
<1>3. /\ Shape' /\ c \in bc.to /\ out["hub"].c = None
      /\ bc'.ev = bc.ev /\ bc'.todo = bc.todo /\ bc'.to = bc.to \ {c}
      /\ UNCHANGED <<world, at, hooks, closing, conn, sub, hub, bpos, wheel, wire>>
      /\ DOMAIN fate' = Conns /\ \A d \in Conns \ {c} : fate'[d] = fate[d]
      /\ DOMAIN out' = Senders /\ out'["wheel"] = out["wheel"]
      /\ \/ fate'[c] = fate[c] \cup {bc.ev} /\ out' = out
         \/ /\ fate' = fate
            /\ out'["hub"].c = c
            /\ LET f == out'["hub"].frame
                   t == out'["hub"].then
               IN  \/ /\ f.kind = "schema" /\ f.ev = 0 /\ Len(t) = 1 /\ RowFrame(t[1]) /\ t[1].ev = bc.ev
                      /\ t[1].cols = f.cols
                   \/ RowFrame(f) /\ f.ev = bc.ev /\ t = <<>> /\ sub[c].lastSchema = <<f.cols>>
  BY <1>1, <1>2, BroadcastToDoes
<1>4. bc.ev \in Nat /\ None # c
  BY <1>1, ConnsAssumption DEF Shape, BcShape, BcRec
<1>5. OutFrames' /\ WheelServes'
  <2>1. OutFrames'
    <3>1. CASE out' = out
      BY <1>1, <1>3, <3>1 DEF OutFrames
    <3>2. CASE out'["hub"].c = c
      BY <1>1, <1>2, <1>3, <1>4, <3>2 DEF OutFrames
    <3> QED BY <1>3, <3>1, <3>2
  <2> QED BY <1>1, <1>3, <2>1 DEF WheelServes, conf
<1>6. ASSUME NEW d \in Conns \ {c} PROVE Streams(d)'
  <2>1. Streams(d) /\ None # d
    BY <1>6, ConnsAssumption DEF IInv
  <2>2. \A s \in Senders : out'[s].c = d <=> out[s].c = d
    BY <1>3, <1>6, <2>1 DEF Senders
  <2>3. Beyond(d)
    BY <1>3, <1>6, <2>2 DEF Beyond, StaysAt, WheelSame
  <2> QED BY <1>1, <1>3, <2>1, <2>3, BeyondKeeps
<1>7. Streams(c)'
  <2>1. Streams(c) /\ conn[c].role \in Roles /\ sub[c].from \in Nat /\ sub[c].rpos \in Nat /\ bpos \in Nat
    BY <1>1, SeqIs DEF IInv, Shape, ConnShape, ConnRec, SubShape, SubRec, LogShape
  <2>2. StaysAt(c) /\ WheelSame(c)
    BY <1>3 DEF StaysAt, WheelSame
  <2>3. conn[c].pc \in Streaming \cup Ended
    BY <1>3, <2>1 DEF Streams, Known
  <2>4. InHub(c)'
    BY <1>3, <2>1, <2>2, KeepsInHub DEF Streams
  <2>5. Known(c)'
    BY <1>3, <2>3 DEF Known
  <2>6. Shut(c)' /\ Sought(c)' /\ Tells(c)'
    BY <1>3, <2>1, KeepsShut, KeepsSought, KeepsTells DEF Streams
  <2>7. Goes(c)'
    BY <1>3, <2>1, KeepsGoes DEF Streams
  <2>8. InWheel(c)'
    BY <1>3, <2>1, <2>2, KeepsInWheel DEF Streams
  <2>9. NoGap(c)'
    <3>1. \A n : Had(c, n) => Had(c, n)'
      BY <1>3 DEF Had
    <3>2. Cancelled(c) => Cancelled(c)'
      BY <1>3 DEF Cancelled
    <3>3. ASSUME NEW n, Coming(c, n) PROVE Had(c, n)' \/ Coming(c, n)'
      <4>1. n = bc.ev /\ bc'.ev = n
        BY <1>3, <3>3 DEF Coming
      <4>2. CASE fate'[c] = fate[c] \cup {bc.ev}
        BY <4>1, <4>2 DEF Had
      <4>3. CASE out'["hub"].c = c
        BY <4>1, <4>3 DEF Coming
      <4> QED BY <1>3, <4>2, <4>3
    <3> HIDE DEF Had, Coming, Cancelled
    <3> QED BY <1>3, <2>1, <3>1, <3>2, <3>3, <1>1, KeepsNoGap DEF Streams
  <2> QED BY <2>4, <2>5, <2>6, <2>7, <2>8, <2>9 DEF Streams
<1> QED BY <1>3, <1>5, <1>6, <1>7 DEF IInv

\* A Broadcast ends when nothing of it is owed.
LEMMA BroadcastEndKeeps == ASSUME IInv, BroadcastEnd, UNCHANGED verifier PROVE IInv'
<1>1. Shape /\ OutFrames /\ WheelServes
  BY DEF IInv
<1>2. /\ Shape' /\ bc.ev # 0 /\ bc.todo = {} /\ bc.to = {} /\ out["hub"].c = None
      /\ bc'.ev = 0 /\ bc'.todo = {} /\ bc'.to = {}
      /\ UNCHANGED <<world, at, hooks, closing, conn, sub, hub, bpos, out, wheel, wire, fate>>
  BY <1>1, BroadcastEndDoes
<1>3. OutFrames' /\ WheelServes'
  BY <1>1, <1>2 DEF OutFrames, WheelServes, conf
<1>4. ASSUME NEW d \in Conns PROVE Streams(d)'
  <2>1. Streams(d) /\ conn[d].role \in Roles /\ sub[d].from \in Nat /\ sub[d].rpos \in Nat /\ bpos \in Nat /\ None # d
    BY <1>1, SeqIs, ConnsAssumption DEF IInv, Shape, ConnShape, ConnRec, SubShape, SubRec, LogShape
  <2>2. StaysAt(d) /\ WheelSame(d)
    BY <1>2 DEF StaysAt, WheelSame
  <2>3. InHub(d)'
    BY <1>2, <2>1, <2>2, KeepsInHub DEF Streams
  <2>4. Known(d)'
    BY <1>2, <2>1, <2>2 DEF Streams, Known
  <2>5. Shut(d)' /\ Sought(d)' /\ Tells(d)'
    BY <1>2, <2>1, KeepsShut, KeepsSought, KeepsTells DEF Streams
  <2>6. Goes(d)'
    BY <1>2, <2>1, KeepsGoes DEF Streams
  <2>7. InWheel(d)'
    BY <1>2, <2>1, <2>2, KeepsInWheel DEF Streams
  <2>8. NoGap(d)'
    <3>1. \A n : (Had(d, n) => Had(d, n)') /\ ~Coming(d, n)
      BY <1>2, <2>1 DEF Had, Coming
    <3>2. Cancelled(d) => Cancelled(d)'
      BY <1>2 DEF Cancelled
    <3> HIDE DEF Had, Coming, Cancelled
    <3> QED BY <1>2, <2>1, <3>1, <3>2, <1>1, KeepsNoGap DEF Streams
  <2> QED BY <2>3, <2>4, <2>5, <2>6, <2>7, <2>8 DEF Streams
<1> QED BY <1>2, <1>3, <1>4 DEF IInv

\* A tenant no longer served: all its streams that are in the hub are told to end.
LEMMA PruneHookKeeps == ASSUME IInv, PruneHook, UNCHANGED verifier PROVE IInv'
<1>1. Shape /\ OutFrames
  BY DEF IInv
<1>2. /\ Shape' /\ hooks' = <<"wheel", "auth">>
      /\ UNCHANGED <<world, at, closing, conn, hub, bpos, bc, out, wheel, wire, fate>>
      /\ \A c \in Conns :
           /\ sub'[c].queue = sub[c].queue /\ sub'[c].lastSchema = sub[c].lastSchema
           /\ sub'[c].closed = sub[c].closed /\ sub'[c].rpos = sub[c].rpos /\ sub'[c].from = sub[c].from /\ sub'[c].missed = sub[c].missed
           /\ sub'[c].wheel = sub[c].wheel /\ sub'[c].bucket = sub[c].bucket /\ sub'[c].quiet = sub[c].quiet
           /\ sub[c].evicted => sub'[c].evicted
           /\ conf.serving # "served" /\ (\E r \in Roles : c \in hub[r].subs) => sub'[c].evicted
  BY <1>1, PruneHookDoes
<1>3. OutFrames'
  BY <1>1, <1>2, OutFramesKept
<1>4. WheelServes'
  <2>1. <<"wheel", "auth">> # <<>> /\ <<"wheel", "auth">> # <<"auth">>
    OBVIOUS
  <2> QED BY <1>2, <2>1 DEF WheelServes
<1>5. ASSUME NEW d \in Conns PROVE Streams(d)'
  <2>1. Streams(d) /\ conn[d].role \in Roles
    BY <1>1 DEF IInv, Shape, ConnShape, ConnRec
  <2>2. WheelOnly(d)
    BY <1>2 DEF WheelOnly, OnRing
  <2>3. InHub(d)' /\ Known(d)' /\ Shut(d)' /\ Sought(d)' /\ NoGap(d)' /\ Tells(d)'
    BY <1>1, <2>1, <2>2, WheelOnlyKeeps
  <2>4. Goes(d)'
    <3>1. ASSUME conn[d].pc \in {"replay", "wheel", "loop"}, conf.serving # "served" PROVE sub'[d].evicted
      <4>1. d \in hub[conn[d].role].subs
        BY <2>1, <3>1 DEF Streams, InHub, Streaming
      <4> QED BY <1>2, <2>1, <3>1, <4>1
    <3> QED BY <1>2, <3>1 DEF Goes, conf
  <2>5. InWheel(d)'
    <3>1. WheelSame(d)
      BY <1>2 DEF WheelSame
    <3> QED BY <1>2, <2>1, <3>1, KeepsInWheel DEF Streams
  <2> QED BY <2>3, <2>4, <2>5 DEF Streams
<1> QED BY <1>2, <1>3, <1>4, <1>5 DEF IInv

\* The wheel follows the tenant: a stream that stays on goes on being held in
\* one bucket; when the wheel stops, those it held were told to end.
LEMMA KeepaliveHookKeeps == ASSUME IInv, KeepaliveHook, UNCHANGED verifier PROVE IInv'
<1>1. Shape /\ OutFrames
  BY DEF IInv
<1>2. /\ Shape' /\ hooks = <<"wheel", "auth">> /\ hooks' = <<"auth">>
      /\ UNCHANGED <<world, at, closing, conn, hub, bpos, bc, out, wire, fate>>
      /\ \/ conf.serving = "served" /\ wheel.up /\ wheel' = wheel /\ sub' = sub
         \/ conf.serving = "served" /\ wheel.up /\ Dealt
         \/ /\ conf.serving = "served" /\ ~wheel.up /\ wheel'.up /\ sub' = sub
            /\ wheel'.id = wheel.id /\ wheel'.to = {}
            /\ \A i \in DOMAIN wheel'.ring : wheel'.ring[i] = {}
         \/ /\ conf.serving # "served" /\ wheel.up /\ ~wheel'.up /\ sub' = sub
            /\ wheel'.id = wheel.id + 1 /\ wheel'.to = {}
            /\ \A i \in DOMAIN wheel'.ring : wheel'.ring[i] = {}
         \/ conf.serving # "served" /\ ~wheel.up /\ wheel' = wheel /\ sub' = sub
  BY <1>1, KeepaliveHookDoes
<1>3. /\ wheel.id \in Nat /\ Len(wheel'.ring) \in Nat /\ DOMAIN wheel'.ring = 1..Len(wheel'.ring)
      /\ Len(wheel.ring) \in Nat /\ wheel'.hand \in 1..Len(wheel'.ring)
  BY <1>1, <1>2, SeqIs DEF Shape, WheelShape, WheelRec
<1>4. \A d \in Conns : sub'[d].lastSchema = sub[d].lastSchema
  BY <1>2 DEF Dealt
<1>5. OutFrames'
  BY <1>1, <1>2, <1>4, OutFramesKept
<1>6. WheelServes'
  <2>1. wheel'.up <=> conf.serving = "served"
    BY <1>2 DEF Dealt
  <2> QED BY <1>2, <2>1 DEF WheelServes, conf
<1>7. ASSUME NEW d \in Conns PROVE Streams(d)'
  <2>1. Streams(d) /\ InWheel(d) /\ Goes(d) /\ sub[d].wheel \in Nat
    BY <1>1 DEF IInv, Shape, SubShape, SubRec, Streams
  <2>2. WheelOnly(d)
    BY <1>2, <1>3 DEF WheelOnly, OnRing, Dealt
  <2>3. InHub(d)' /\ Known(d)' /\ Shut(d)' /\ Sought(d)' /\ NoGap(d)' /\ Tells(d)'
    BY <1>1, <2>1, <2>2, WheelOnlyKeeps
  <2>4. Len(hooks) = 2
    BY <1>2
  <2>5. Goes(d)'
    BY <1>2, <2>1, <2>2, <2>4 DEF Goes, conf, WheelOnly
  <2>6. InWheel(d)'
    <3>1. CASE wheel' = wheel /\ sub' = sub
      <4>1. WheelSame(d)
        BY <3>1 DEF WheelSame
      <4> QED BY <1>2, <2>1, <3>1, <4>1, KeepsInWheel
    <3>2. CASE Dealt /\ wheel.up
      <4>1. Joined(d)' <=> Joined(d)
        BY <1>2, <3>2 DEF Joined, Dealt
      <4>2. OnRing(d) <=> Joined(d)
        BY <2>1 DEF OnRing, InWheel
      <4> HIDE DEF Joined
      <4>3. /\ wheel'.up /\ wheel'.id = wheel.id /\ wheel'.hand = 1
            /\ sub'[d].wheel = sub[d].wheel /\ sub'[d].evicted = sub[d].evicted
            /\ OnRing(d) => /\ sub'[d].quiet = 0 /\ sub'[d].bucket \in 1..Len(wheel'.ring)
                            /\ \A b \in 1..Len(wheel'.ring) : d \in wheel'.ring[b] <=> b = sub'[d].bucket
            /\ ~OnRing(d) => \A b \in 1..Len(wheel'.ring) : d \notin wheel'.ring[b]
        BY <3>2 DEF Dealt
      <4>4. Joined(d) => sub'[d].quiet + Dist(wheel'.hand, sub'[d].bucket, Len(wheel'.ring)) < Len(wheel'.ring)
        <5> DEFINE b == sub'[d].bucket
                   n == Len(wheel'.ring)
        <5>1. Joined(d) => b \in 1..n /\ n \in Nat
          BY <1>3, <4>2, <4>3
        <5> HIDE DEF b, n
        <5>2. Joined(d) => 0 + Dist(1, b, n) < n
          BY <5>1 DEF Dist
        <5> QED BY <4>2, <4>3, <5>2 DEF b, n
      <4> QED BY <1>2, <2>1, <4>1, <4>2, <4>3, <4>4 DEF InWheel
    <3>3. CASE /\ ~wheel.up /\ wheel'.up /\ sub' = sub /\ wheel'.id = wheel.id
               /\ \A i \in DOMAIN wheel'.ring : wheel'.ring[i] = {}
      <4>1. ~Joined(d) /\ ~Joined(d)'
        BY <1>2, <1>3, <2>1, <3>3 DEF InWheel, Joined
      <4> HIDE DEF Joined
      <4> QED BY <1>2, <1>3, <2>1, <3>3, <4>1 DEF InWheel
    <3>4. CASE /\ conf.serving # "served" /\ ~wheel'.up /\ sub' = sub /\ wheel'.id = wheel.id + 1
               /\ \A i \in DOMAIN wheel'.ring : wheel'.ring[i] = {}
      <4>1. sub[d].wheel < wheel'.id /\ ~Joined(d)'
        BY <1>2, <1>3, <2>1, <3>4 DEF InWheel, Joined
      <4>2. conn[d].pc = "loop" => sub[d].evicted
        BY <2>1, <2>4, <3>4 DEF Goes
      <4> HIDE DEF Joined
      <4> QED BY <1>2, <1>3, <2>1, <3>4, <4>1, <4>2 DEF InWheel
    <3> QED BY <1>2, <3>1, <3>2, <3>3, <3>4
  <2> QED BY <2>3, <2>5, <2>6 DEF Streams
<1> QED BY <1>2, <1>5, <1>6, <1>7 DEF IInv

\* A step that only the settings in force, or the hooks yet to run, take part in.
LEMMA SettingsKeep ==
    ASSUME IInv, Shape', UNCHANGED <<world, closing, conn, sub, hub, bpos, bc, out, wheel, wire, fate>>, WheelServes',
           \A d \in Conns : Goes(d)'
    PROVE  IInv'
<1>1. OutFrames'
  BY DEF IInv, OutFrames
<1>2. ASSUME NEW d \in Conns PROVE Streams(d)'
  <2>1. Shape /\ Streams(d)
    BY DEF IInv
  <2>2. WheelOnly(d)
    BY DEF WheelOnly, OnRing
  <2>3. InHub(d)' /\ Known(d)' /\ Shut(d)' /\ Sought(d)' /\ NoGap(d)' /\ Tells(d)'
    BY <2>1, <2>2, WheelOnlyKeeps
  <2>4. InWheel(d)'
    <3>1. WheelSame(d)
      BY DEF WheelSame
    <3> QED BY <2>1, <3>1, KeepsInWheel DEF Streams
  <2> QED BY <2>3, <2>4 DEF Streams
<1> QED BY <1>1, <1>2 DEF IInv

\* The hook of the authentication settings.
LEMMA AuthHookKeeps == ASSUME IInv, AuthHook PROVE IInv'
<1>1. /\ Shape' /\ hooks = <<"auth">> /\ hooks' = <<>>
      /\ UNCHANGED <<world, at, closing, conn, sub, hub, bpos, bc, out, wheel, wire, fate>>
  BY AuthHookDoes DEF IInv
<1>2. WheelServes'
  BY <1>1 DEF IInv, WheelServes, conf
<1>3. ASSUME NEW d \in Conns PROVE Goes(d)'
  <2>1. Len(hooks) = 1 /\ Goes(d)
    BY <1>1 DEF IInv, Streams
  <2> QED BY <1>1, <2>1 DEF Goes, conf
<1> QED BY <1>1, <1>2, <1>3, SettingsKeep

\* A reload: a stream of a tenant that was served has its wheel and three hooks to come.
LEMMA ReloadKeeps == ASSUME IInv, Reload PROVE IInv'
<1>1. /\ Shape' /\ hooks = <<>> /\ hooks' = <<"prune", "wheel", "auth">>
      /\ UNCHANGED <<world, closing, conn, sub, hub, bpos, bc, out, wheel, wire, fate>>
  BY ReloadDoes DEF IInv
<1>2. Len(hooks') = 3 /\ Len(hooks) = 0 /\ hooks' \notin {<<>>, <<"auth">>}
  BY <1>1
<1>3. WheelServes'
  BY <1>2 DEF WheelServes
<1>4. ASSUME NEW d \in Conns PROVE Goes(d)'
  <2>1. Goes(d) /\ WheelServes
    BY DEF IInv, Streams
  <2> QED BY <1>1, <1>2, <2>1 DEF Goes, WheelServes
<1> QED BY <1>1, <1>3, <1>4, SettingsKeep

-----------------------------------------------------------------------------
(* The invariant holds at first, and every step keeps it.                  *)

\* Initial states have the shape.
LEMMA InitShape == Init => Shape
<1> SUFFICES ASSUME Init PROVE Shape
  OBVIOUS
<1>1. Case(world)
  BY WorldsAssumption DEF Init
<1>2. 1 \in DOMAIN world.confs
  <2>1. PICK S : world.confs \in Seq(S) /\ world.confs # <<>>
    BY <1>1 DEF Case
  <2> QED BY <2>1
<1>3. CaseShape
  BY <1>1, <1>2 DEF CaseShape, Init, StreamInit, HookLists
<1>4. ConnShape
  <2>1. ASSUME NEW c \in Conns PROVE ConnRec(conn[c])
    <3> DEFINE p == IF world.req[c].kind = "idle" THEN "answered" ELSE "tenant"
    <3>1. conn[c] = [NewConn EXCEPT !.pc = p]
      BY DEF Init
    <3>2. "" \in Roles
      BY <1>1, <1>2 DEF Case, RolesOf
    <3>3. p \in Pcs
      BY DEF Pcs, RequestPcs
    <3> HIDE DEF p
    <3> QED BY <3>1, <3>2, <3>3 DEF ConnRec, ConnFields, NewConn
  <2>2. DOMAIN conn = Conns
    BY DEF Init
  <2> QED BY <2>1, <2>2 DEF ConnShape
<1>5. SubShape
  <2>1. SubRec(NoSub)
    BY EmptyIs DEF SubRec, SubFields, NoSub
  <2> QED BY <2>1 DEF SubShape, Init, StreamInit
<1>6. HubShape
  BY DEF HubShape, HubRec, Init, StreamInit
<1>7. LogShape
  BY EmptyIs DEF LogShape, Init, StreamInit
<1>8. BcShape
  BY DEF BcShape, BcRec, Idle, Init, StreamInit
<1>9. OutShape
  BY EmptyIs DEF OutShape, OutRec, NoSend, Init, StreamInit
<1>10. WheelShape
  <2> DEFINE w == NewWheel(1, world.confs[1].buckets)
             u == world.confs[1].serving = "served"
  <2>1. world.confs[1].buckets \in Int
    BY <1>1, <1>2 DEF Case
  <2>2. WheelRec(w)
    <3> DEFINE b == world.confs[1].buckets
    <3>1. b \in Int /\ 1 \in Nat \ {0}
      BY <2>1
    <3> HIDE DEF b
    <3>2. WheelRec(NewWheel(1, b))
      BY <3>1, NewWheelIs
    <3> QED BY <3>2 DEF b
  <2>3. wheel = [w EXCEPT !.up = u] /\ u \in BOOLEAN
    BY DEF Init, StreamInit
  <2> HIDE DEF w, u
  <2> QED BY <2>2, <2>3 DEF WheelShape, WheelRec
<1>11. WireShape
  BY EmptyIs DEF WireShape, Init, StreamInit
<1>12. VerifierShape
  BY <1>2 DEF VerifierShape, Init, newVerifier
<1> QED BY <1>3, <1>4, <1>5, <1>6, <1>7, <1>8, <1>9, <1>10, <1>11, <1>12 DEF Shape

\* The invariant holds at first: there is no stream.
LEMMA InitHolds == Init => IInv
<1> SUFFICES ASSUME Init PROVE IInv
  OBVIOUS
<1>1. Shape
  BY InitShape
<1>2. OutFrames
  BY DEF OutFrames, Init, StreamInit, NoSend, Idle, Senders
<1> DEFINE w == NewWheel(1, world.confs[1].buckets)
           u == world.confs[1].serving = "served"
<1>3. /\ wheel.up = u /\ wheel.id = 1 /\ wheel.to = {} /\ wheel.ring = w.ring
      /\ \A i \in DOMAIN w.ring : w.ring[i] = {}
  <2>1. wheel = [w EXCEPT !.up = u]
    BY DEF Init, StreamInit
  <2>2. world.confs[1].buckets \in Int
    <3>1. Case(world) /\ 1 \in DOMAIN world.confs
      BY <1>1 DEF Shape, CaseShape, Init, StreamInit
    <3> QED BY <3>1 DEF Case
  <2>3. WheelRec(w) /\ w.id = 1 /\ w.to = {} /\ \A i \in DOMAIN w.ring : w.ring[i] = {}
    <3> DEFINE b == world.confs[1].buckets
    <3>1. b \in Int /\ 1 \in Nat \ {0}
      BY <2>2
    <3> HIDE DEF b
    <3>2. /\ WheelRec(NewWheel(1, b)) /\ NewWheel(1, b).id = 1 /\ NewWheel(1, b).to = {}
          /\ \A i \in DOMAIN NewWheel(1, b).ring : NewWheel(1, b).ring[i] = {}
      BY <3>1, NewWheelIs
    <3> QED BY <3>2 DEF b
  <2> HIDE DEF w, u
  <2> QED BY <2>1, <2>3 DEF WheelRec
<1>4. WheelServes
  BY <1>3 DEF WheelServes, conf, Init, StreamInit
<1>5. ASSUME NEW d \in Conns PROVE Streams(d)
  <2>1. conn[d].pc \in {"answered", "tenant"}
    BY DEF Init, NewConn
  <2>2. /\ sub[d] = NoSub /\ wire[d] = <<>> /\ \A r \in Roles : hub[r].subs = {}
        /\ bc.to = {} /\ \A s \in Senders : out[s].c = None
    BY DEF Init, StreamInit, Idle, NoSend
  <2>3. InHub(d)
    BY <2>1, <2>2 DEF InHub, Streaming
  <2>4. \A i \in 1..Len(wheel.ring) : wheel.ring[i] = {}
    BY <1>1, <1>3, SeqIs DEF Shape, WheelShape, WheelRec
  <2>5. Known(d)
    BY <1>3, <2>1, <2>2, <2>4, ConnsAssumption DEF Known
  <2>6. Shut(d)
    BY <2>1, <2>2, EmptyIs DEF Shut, NoSub
  <2>7. Sought(d)
    BY <2>1, <2>2 DEF Sought, NoSub, Live
  <2>8. Goes(d)
    BY <2>1 DEF Goes
  <2>9. InWheel(d)
    BY <1>3, <2>1, <2>2, <2>4 DEF InWheel, Joined, NoSub
  <2>10. NoGap(d)
    BY <2>1 DEF NoGap, Live
  <2>11. Tells(d)
    BY <2>1, <2>2, AnnouncedEmpty DEF Tells, Feeds
  <2> QED BY <2>3, <2>5, <2>6, <2>7, <2>8, <2>9, <2>10, <2>11 DEF Streams
<1> QED BY <1>1, <1>2, <1>4, <1>5 DEF IInv

\* A step of nothing keeps the invariant.
LEMMA StillKeeps == ASSUME IInv, UNCHANGED vars PROVE IInv'
<1>1. UNCHANGED <<world, at, hooks, closing, conn, sub, hub, log, bpos, bc, out, wheel, wire, fate, verifier>>
  BY DEF vars, streamVars
<1>2. Shape'
  BY <1>1, Kept DEF IInv, Shape
<1> QED BY <1>1, <1>2, AsideKeeps DEF StaysAt

\* Every step of a stream's handler keeps the invariant.
LEMMA StreamStepKeeps == ASSUME IInv, NEW c \in Conns, StreamStep(c), UNCHANGED verifier PROVE IInv'
BY SubscribeKeeps, HubAddKeeps, CheckServedKeeps, ReplayNextKeeps, ReplayEndKeeps, ReplayFailsKeeps, WheelAddKeeps, LoopWriteKeeps,
   LoopEndKeeps, WheelRemoveKeeps, HubRemoveKeeps, CloseKeeps, DiscardKeeps, ClientGoneKeeps, BroadcastToKeeps,
   WheelSendKeeps DEF StreamStep

\* Every step of the hub and of the wheel keeps the invariant.
LEMMA HubStepKeeps == ASSUME IInv, HubStep, UNCHANGED verifier PROVE IInv'
BY PublishKeeps, BroadcastKeeps, BroadcastRoleKeeps, BroadcastEndKeeps, TickKeeps, PruneHookKeeps, KeepaliveHookKeeps,
   ShutdownKeeps, SendPutKeeps, SendNextKeeps DEF HubStep

\* Every step keeps the invariant.
LEMMA NextKeeps == IInv /\ [Next]_vars => IInv'
<1> SUFFICES ASSUME IInv, [Next]_vars PROVE IInv'
  OBVIOUS
<1>1. CASE \E c \in Conns : RequestStep(c)
  BY <1>1, RequestKeeps
<1>2. CASE (\E c \in Conns : StreamStep(c)) /\ UNCHANGED <<verifier, cache>>
  BY <1>2, StreamStepKeeps
<1>3. CASE HubStep /\ UNCHANGED <<verifier, cache>>
  BY <1>3, HubStepKeeps
<1>4. CASE AuthHook
  BY <1>4, AuthHookKeeps
<1>5. CASE FetchKeys
  BY <1>5, FetchKeysKeeps
<1>6. CASE Reload
  BY <1>6, ReloadKeeps
<1>7. CASE UNCHANGED vars
  BY <1>7, StillKeeps
<1> QED BY <1>1, <1>2, <1>3, <1>4, <1>5, <1>6, <1>7 DEF Next

\* The invariant of every behaviour.
LEMMA Invariant == Spec => []IInv
<1>1. Init => IInv
  BY InitHolds
<1>2. IInv /\ [Next]_vars => IInv'
  BY NextKeeps
<1> QED BY <1>1, <1>2, PTL DEF Spec

-----------------------------------------------------------------------------
(* What follows from it.                                                   *)

\* Hub.Prune and Hub.Served: when the hooks of a reload that dropped a tenant
\* have run, none of its streams goes on without having been told to end, in
\* whatever order a stream's registration and the reload came.
THEOREM EndsUnserved == Spec => []UnservedEnds
<1>1. IInv => UnservedEnds
  <2> SUFFICES ASSUME IInv, conf.serving # "served", hooks = <<>>,
                      NEW c \in Conns, conn[c].pc \in {"replay", "wheel", "loop"}
               PROVE  sub[c].evicted
    BY DEF UnservedEnds
  <2>1. Len(hooks) = 0
    OBVIOUS
  <2>2. Goes(c)
    BY DEF IInv, Streams
  <2> QED BY <2>1, <2>2 DEF Goes
<1> QED BY <1>1, Invariant, PTL

\* The wheel: a stream is held in the one bucket it will be removed from, whatever
\* wheels were made, reshaped and stopped since it joined, and waits no more
\* than a turn for its keepalive.
THEOREM TurnsWheel == Spec => []WheelTurns
<1>1. IInv => WheelTurns
  <2> SUFFICES ASSUME IInv PROVE WheelTurns
    OBVIOUS
  <2>1. Shape /\ DOMAIN wheel.ring = 1..Len(wheel.ring) /\ Len(wheel.ring) \in Nat /\ wheel.hand \in 1..Len(wheel.ring)
    BY SeqIs DEF IInv, Shape, WheelShape, WheelRec
  <2>2. ASSUME NEW c \in Conns
        PROVE  LET held == {i \in DOMAIN wheel.ring : c \in wheel.ring[i]}
                   joined == conn[c].pc \in {"loop", "leaveWheel"} /\ sub[c].wheel = wheel.id
               IN  /\ held = IF joined THEN {sub[c].bucket} ELSE {}
                   /\ held # {} => sub[c].quiet < Len(wheel.ring)
                   /\ conn[c].pc = "loop" /\ held = {} => sub[c].evicted
    <3> DEFINE held == {i \in DOMAIN wheel.ring : c \in wheel.ring[i]}
               n == Len(wheel.ring)
               b == sub[c].bucket
               h == wheel.hand
    <3>1. InWheel(c) /\ sub[c].quiet \in Nat
      BY <2>1 DEF IInv, Streams, Shape, SubShape, SubRec
    <3>2. held = IF Joined(c) THEN {b} ELSE {}
      <4>1. \A i \in 1..n : c \in wheel.ring[i] <=> Joined(c) /\ i = b
        BY <3>1 DEF InWheel
      <4>2. Joined(c) => b \in 1..n
        BY <3>1 DEF InWheel
      <4> HIDE DEF Joined, b
      <4> QED BY <2>1, <4>1, <4>2
    <3>3. Joined(c) => sub[c].quiet < n
      <4>1. Joined(c) => b \in 1..n /\ sub[c].quiet + Dist(h, b, n) < n
        BY <3>1 DEF InWheel
      <4>2. h \in 1..n /\ n \in Nat
        BY <2>1
      <4> HIDE DEF b, h, n, Joined
      <4>3. Joined(c) => Dist(h, b, n) \in Nat
        BY <4>1, <4>2 DEF Dist
      <4> QED BY <3>1, <4>1, <4>2, <4>3
    <3>4. conn[c].pc = "loop" /\ ~Joined(c) => sub[c].evicted
      BY <3>1 DEF InWheel
    <3> QED BY <3>2, <3>3, <3>4 DEF Joined
  <2> QED BY <2>2 DEF WheelTurns
<1> QED BY <1>1, Invariant, PTL

\* StreamHandler.Handle, replay, Hub.Add, Subscriber.Close: of the rows a stream
\* asked for and of those since its registration, none falls between the replay,
\* the queue and the counters of what was dropped or withheld, except that a
\* replay that fails leaves out the rows before the registration it had not come
\* to; the queue of a stream that is done is let go of.
THEOREM GapNotSilent == Spec => []NoSilentGap
<1>1. IInv => NoSilentGap
  <2> SUFFICES ASSUME IInv PROVE NoSilentGap
    OBVIOUS
  <2>1. ASSUME NEW c \in Conns
        PROVE  LET seen == {wire[c][i].ev : i \in DOMAIN wire[c]} \cup fate[c]
                   waiting == {sub[c].queue[i].ev : i \in DOMAIN sub[c].queue}
                   since == world.req[c].since
               IN  /\ conn[c].pc = "loop" /\ ~Cancelled(c) =>
                          \A n \in (IF since > 0 THEN since ELSE sub[c].from)..bpos :
                              n \in seen \cup waiting \cup sub[c].missed \/ bc.ev = n
                   /\ conn[c].pc = "done" /\ out["hub"].c # c /\ out["wheel"].c # c => sub[c].queue = <<>>
    <3> DEFINE since == world.req[c].since
               first == IF since > 0 THEN since ELSE sub[c].from
               seen == {wire[c][i].ev : i \in DOMAIN wire[c]} \cup fate[c]
               waiting == {sub[c].queue[i].ev : i \in DOMAIN sub[c].queue}
    <3>1. DOMAIN wire[c] = 1..Len(wire[c]) /\ DOMAIN sub[c].queue = 1..Len(sub[c].queue)
      BY SeqIs DEF IInv, Shape, WireShape, SubShape, SubRec
    <3>2. NoGap(c) /\ Shut(c) /\ since \in Nat /\ sub[c].from \in Nat /\ bpos \in Nat
      BY SeqIs DEF IInv, Streams, Shape, SubShape, SubRec, LogShape, CaseShape, Case
    <3>3. ASSUME conn[c].pc = "loop", ~Cancelled(c), NEW n \in first..bpos
          PROVE  n \in seen \cup waiting \cup sub[c].missed \/ bc.ev = n
      <4>1. Had(c, n) \/ Coming(c, n) \/ n \in sub[c].missed
        <5>1. CASE n >= sub[c].from
          BY <3>2, <3>3, <5>1 DEF NoGap, Live
        <5>2. CASE n < sub[c].from
          BY <3>2, <3>3, <5>2 DEF NoGap
        <5> QED BY <3>2, <3>3, <5>1, <5>2
      <4> QED BY <3>1, <4>1 DEF Had, Coming
    <3>4. conn[c].pc = "done" => sub[c].queue = <<>>
      BY <3>2 DEF Shut
    <3> HIDE DEF Cancelled
    <3> QED BY <3>3, <3>4
  <2> QED BY <2>1 DEF NoSilentGap
<1> QED BY <1>1, Invariant, PTL

\* deliver: a client without a replay reads each row under the columns of the
\* last announcement it was written, whatever its queue dropped.
THEOREM LabelsRight == Spec => []Labelled
<1>1. IInv => Labelled
  <2> SUFFICES ASSUME IInv, NEW c \in Conns, world.req[c].since = 0, NEW i \in DOMAIN wire[c], wire[c][i].ev > 0
               PROVE  LET told == {k \in 1..(i - 1) : wire[c][k].kind = "schema"}
                      IN  told # {} /\ wire[c][MaxOf(told)].cols = wire[c][i].cols
    BY DEF Labelled
  <2> DEFINE told == {k \in 1..(i - 1) : wire[c][k].kind = "schema"}
             T == <<wire[c][i].cols>>
  <2>1. i \in 1..Len(wire[c]) /\ Len(wire[c]) \in Nat
    BY SeqIs DEF IInv, Shape, WireShape
  <2>2. UnderOwn(wire[c], <<>>)
    BY DEF IInv, Streams, Tells
  <2>3. Announced(wire[c], i - 1, <<>>, <<wire[c][i].cols>>)
    BY <2>1, <2>2 DEF UnderOwn
  <2>4. T # <<>>
    OBVIOUS
  <2>5. PICK k \in 1..(i - 1) : /\ wire[c][k].kind = "schema" /\ <<wire[c][i].cols>> = <<wire[c][k].cols>>
                                /\ \A m \in (k + 1)..(i - 1) : wire[c][m].kind # "schema"
    BY <2>3, <2>4 DEF Announced
  <2>6. k \in told /\ \A m \in told : m <= k
    BY <2>1, <2>5
  <2>7. told \subseteq Nat
    BY <2>1
  <2> HIDE DEF told
  <2>8. MaxOf(told) = k
    <3>1. k \in told /\ (\A o \in told : k >= o) /\ \A n \in told : (\A o \in told : n >= o) => n = k
      BY <2>6, <2>7
    <3>2. MaxOf(told) \in told /\ \A o \in told : MaxOf(told) >= o
      BY <3>1 DEF MaxOf
    <3> QED BY <3>1, <3>2
  <2>9. wire[c][k].cols = wire[c][i].cols
    BY <2>5
  <2>10. told # {} /\ wire[c][MaxOf(told)].cols = wire[c][i].cols
    BY <2>6, <2>8, <2>9
  <2> QED BY <2>10 DEF told
<1> QED BY <1>1, Invariant, PTL
==============================================================================
