------------------------------- MODULE Gateway ------------------------------
(***************************************************************************)
(* The API of one tenant: a request goes through the tenant middleware,    *)
(* authentication and the gates of internal/api, and is a stream (module   *)
(* StreamHub), a structured query, a pipe, an insert or an operations      *)
(* request.  Settings reloads, key-set fetches and other requests happen   *)
(* between any two steps.                                                  *)
(***************************************************************************)
EXTENDS StreamHub

VARIABLES
    verifier,  \* the tenant's token verifier: [wiring, ready]; NoVerifier
    cache      \* cached answers, by key

vars == <<world, at, hooks, closing, conn, streamVars, verifier, cache>>
restVars == <<world, at, hooks, closing, streamVars, verifier>>

-----------------------------------------------------------------------------
(* Tokens.  A wiring is a key set's URL, a shared secret, or neither, and  *)
(* the claim that names the role.  A token says which key signed it.       *)

NoWiring == [mode |-> "none", key |-> "", roleClaim |-> "role"]
Wiring(mode, key, roleClaim) == [mode |-> mode, key |-> key, roleClaim |-> roleClaim]

NoVerifier == [none |-> TRUE, wiring |-> NoWiring, ready |-> FALSE]
newVerifier(w) == [none |-> FALSE, wiring |-> w, ready |-> FALSE]

NoToken == [present |-> FALSE, alg |-> "", key |-> "", expired |-> FALSE, claims |-> <<>>]
Token(alg, key, expired, claims) ==
    [present |-> TRUE, alg |-> alg, key |-> key, expired |-> expired, claims |-> claims]

extractClaim(claims, path) ==
    LET v == navigateClaims(claims, path) IN IF v.t = "string" THEN v.s.s ELSE ""

\* Why a token of an accepted method is not taken; "" when it is.
tokenError(v, tok) ==
    CASE v.wiring.mode = "jwks" /\ ~v.ready -> "pending"
      [] v.wiring.mode = "none" \/ tok.key # v.wiring.key -> "invalid token"
      [] tok.expired -> "token expired"
      [] OTHER -> ""

\* A key set takes asymmetric methods only, a secret the HMAC ones.
ValidMethod(w, tok) == tok.alg = IF w.mode = "jwks" THEN "asymmetric" ELSE "hmac"

Anonymous(err) == [role |-> "", claims |-> <<>>, err |-> err, operator |-> FALSE]

middleware(req, v, policy) ==
    CASE req.operatorKey -> [Anonymous("") EXCEPT !.role = AdminRole(policy), !.operator = TRUE]
      [] ~req.token.present -> Anonymous("")
      [] v.none \/ ~ValidMethod(v.wiring, req.token) -> Anonymous("invalid token")
      [] tokenError(v, req.token) # "" -> Anonymous(tokenError(v, req.token))
      [] OTHER -> [role |-> extractClaim(req.token.claims, v.wiring.roleClaim),
                   claims |-> req.token.claims, err |-> "", operator |-> FALSE]

Reconfigured(v, w) == IF ~v.none /\ v.wiring = w THEN v ELSE newVerifier(w)

\* Hooks run after the stream's: the wiring is adopted, or its tenant's dropped.
AuthHook ==
    /\ hooks # <<>> /\ Head(hooks) = "auth"
    /\ verifier' = IF conf.serving = "served" THEN Reconfigured(verifier, conf.wiring) ELSE NoVerifier
    /\ hooks' = Tail(hooks)
    /\ UNCHANGED <<world, at, closing, conn, streamVars, cache>>

FetchKeys ==
    /\ ~verifier.none /\ verifier.wiring.mode = "jwks" /\ ~verifier.ready
    /\ verifier' = [verifier EXCEPT !.ready = TRUE]
    /\ UNCHANGED <<world, at, hooks, closing, conn, streamVars, cache>>

\* A reload: the settings are in force before the first hook runs, and the
\* next reload waits for the last.
Reload ==
    /\ at < Len(world.confs) /\ hooks = <<>>
    /\ at' = at + 1
    /\ hooks' = <<"prune", "wheel", "auth">>
    /\ UNCHANGED <<world, closing, conn, streamVars, verifier, cache>>

-----------------------------------------------------------------------------
(* The cases: a request of a kind, roles that are the hub's, settings in   *)
(* an order.                                                               *)

RequestKinds == {"idle", "stream", "query", "pipe", "insert", "ops"}

\* The roles a request may be given under some settings.
RolesOf(req, cf) == {"", AdminRole(cf.policy), extractClaim(req.token.claims, cf.wiring.roleClaim)}

Case(w) ==
    /\ w.confs \in Seq({w.confs[i] : i \in DOMAIN w.confs}) \ {<<>>}
    /\ \A i \in DOMAIN w.confs : w.confs[i].buckets \in Int
    /\ \A c \in Conns : w.req[c].kind \in RequestKinds /\ w.req[c].since \in Nat
    /\ \A c \in Conns : \A i \in DOMAIN w.confs : RolesOf(w.req[c], w.confs[i]) \subseteq Roles

ASSUME ConnsAssumption == IsFiniteSet(Conns) /\ None \notin Conns

ASSUME WorldsAssumption == \A k \in Kinds : \A w \in Worlds(k) : Case(w)

-----------------------------------------------------------------------------
(* The middlewares.                                                        *)

NoAnswer == [status |-> 0, kind |-> "none", rows |-> <<>>, retry |-> FALSE]
Reply(status, kind, rows) == [status |-> status, kind |-> kind, rows |-> rows, retry |-> FALSE]
Refuse(status) == Reply(status, "error", <<>>)

NewConn == [pc |-> "tenant", role |-> "", claims |-> <<>>, err |-> "", operator |-> FALSE, gone |-> FALSE,
            wiring |-> NoWiring, pol |-> 0, stmt |-> Failed("none"), answer |-> NoAnswer]

Answer(c, a) == conn' = [conn EXCEPT ![c].pc = "answered", ![c].answer = a]

TenantMW(c) ==
    /\ conn[c].pc = "tenant"
    /\ CASE world.req[c].tenant = "malformed" -> Answer(c, Refuse(400))
         [] world.req[c].tenant = "unknown" \/ conf.serving = "unknown" -> Answer(c, Refuse(404))
         [] conf.serving = "invalid" -> Answer(c, Refuse(503))
         [] OTHER -> Goto(c, "auth")
    /\ UNCHANGED <<restVars, cache>>

\* Authentication, and the refusal of a token that cannot be judged yet.
AuthMW(c) ==
    LET id == middleware(world.req[c], verifier, conf.policy)
    IN  /\ conn[c].pc = "auth"
        /\ IF id.err = "pending" THEN Answer(c, [Refuse(503) EXCEPT !.retry = TRUE])
           ELSE conn' = [conn EXCEPT ![c].pc = IF world.req[c].kind = "stream" THEN "subscribe" ELSE world.req[c].kind,
                                     ![c].role = id.role, ![c].claims = id.claims, ![c].err = id.err,
                                     ![c].operator = id.operator, ![c].wiring = verifier.wiring]
        /\ UNCHANGED <<restVars, cache>>

\* A denial is a 401 for a caller whose token was bad.
writeAuthzDenied(c) == Refuse(IF conn[c].err # "" THEN 401 ELSE 403)

RequireAdmin(c) ==
    /\ conn[c].pc = "ops"
    /\ Answer(c, IF conn[c].operator \/ IsAdmin(conf.policy, ResolveRole(conf.policy, conn[c].role))
                 THEN Reply(200, "ops", <<>>) ELSE writeAuthzDenied(c))
    /\ UNCHANGED <<restVars, cache>>

-----------------------------------------------------------------------------
(* Queries and pipes.                                                      *)

StructuredQuery(c) ==
    LET req == world.req[c]
        rp == Evaluate(conf.policy, ResolveRole(conf.policy, conn[c].role), "t", "select", conn[c].claims)
        columns == DecodeColumns(req.columns)
        built(stmt) ==
            CASE stmt.err = "empty" -> Answer(c, Reply(200, "none", <<>>))
              [] stmt.err = "forbidden" -> Answer(c, Refuse(403))
              [] stmt.err # "ok" -> Answer(c, Refuse(400))
              [] OTHER -> conn' = [conn EXCEPT ![c].pc = "lookup", ![c].stmt = stmt, ![c].pol = at]
    IN  /\ conn[c].pc = "query"
        /\ CASE conf.schema = <<>> -> Answer(c, [Refuse(503) EXCEPT !.retry = TRUE])
             [] ~columns.ok -> Answer(c, Refuse(400))
             [] ~rp.allowed -> Answer(c, writeAuthzDenied(c))
             [] OTHER -> built(Build([req.query EXCEPT !.columns = columns.cols], conf.schema, rp, conf.bucket, conf.maxRows))
        /\ UNCHANGED <<restVars, cache>>

\* An unresolvable claim: no rows for a read, a refusal for a write.
writeClaimUnresolved(c) ==
    CASE conn[c].err # "" -> Refuse(401)
      [] conf.pipe.write -> Refuse(403)
      [] OTHER -> Reply(200, "none", <<>>)

ExecutePipe(c) ==
    LET role == ResolveRole(conf.policy, conn[c].role)
        bound(stmt) ==
            CASE stmt.err = "unresolved" -> Answer(c, writeClaimUnresolved(c))
              [] stmt.err # "ok" -> Answer(c, Refuse(400))
              [] OTHER -> conn' = [conn EXCEPT ![c].pc = IF conf.pipe.write THEN "write" ELSE "lookup",
                                               ![c].stmt = stmt, ![c].pol = at]
    IN  /\ conn[c].pc = "pipe"
        /\ IF ~RoleAllowed(conf.policy, role, conf.pipe.roles) THEN Answer(c, writeAuthzDenied(c))
           ELSE bound(BindParams(conf.pipe, world.req[c].supplied, conn[c].claims))
        /\ UNCHANGED <<restVars, cache>>

\* Bug: the key is the statement's text, without the values bound to it.
queryCacheKeyBug(stmt) == [stmt EXCEPT !.rls = {[w EXCEPT !.values = <<>>] : w \in @}]

\* The statement and its parameters.
queryCacheKey(stmt) == stmt

Hits(c) == {e \in cache : e.key = queryCacheKey(conn[c].stmt)}

\* The cached answer, unless the tenant has no pool; else one flight per key.
CacheLookup(c) ==
    /\ conn[c].pc = "lookup"
    /\ CASE ~conf.pool -> Answer(c, [Refuse(503) EXCEPT !.retry = TRUE])
         [] Hits(c) # {} -> Answer(c, Reply(200, "rows", (CHOOSE e \in Hits(c) : TRUE).rows))
         [] OTHER -> Goto(c, IF \E d \in Conns : conn[d].pc = "leading"
                                     /\ queryCacheKey(conn[d].stmt) = queryCacheKey(conn[c].stmt)
                             THEN "following" ELSE "leading")
    /\ UNCHANGED <<restVars, cache>>

\* What a failure of ClickHouse is answered with.
chFailureOf(class, capped) ==
    CASE class = "limit" \/ (class = "overrun" /\ capped) -> Refuse(400)
      [] class = "rejected" -> Refuse(400)
      [] class = "denied" -> Refuse(403)
      [] class = "misconfigured" -> Refuse(502)
      [] class = "unavailable" -> [Refuse(503) EXCEPT !.retry = TRUE]
      [] OTHER -> [Refuse(500) EXCEPT !.retry = TRUE]

\* The answer a flight lands with.
Landing(outcome, result, capped) ==
    IF outcome # "ok" THEN chFailureOf(outcome, capped)
    ELSE IF result.error THEN chFailureOf("rejected", FALSE)
    ELSE Reply(200, "rows", result.rows)

\* The columns the table stores.
Stored == {d \in ColumnSet(world.table) : Lookup(world.table, d).kind # "EPHEMERAL"}

\* The flight lands: the leader and all who follow it are answered alike.
Land(c) ==
    LET crew == {d \in Conns : /\ conn[d].pc \in {"leading", "following"}
                               /\ queryCacheKey(conn[d].stmt) = queryCacheKey(conn[c].stmt)}
        key == queryCacheKey(conn[c].stmt)
    IN  /\ conn[c].pc = "leading"
        /\ \E outcome \in {"ok"} \cup world.failures, result \in {Exec(conn[c].stmt, world.rows, Stored)},
              capped \in IF world.req[c].kind = "pipe" THEN {FALSE} ELSE BOOLEAN :
           \E a \in {Landing(outcome, result, capped)} :
               /\ conn' = [d \in Conns |-> IF d \in crew THEN [conn[d] EXCEPT !.pc = "answered", !.answer = a] ELSE conn[d]]
               /\ cache' = IF a.kind = "rows" THEN cache \cup {[key |-> key, rows |-> a.rows]} ELSE cache
        /\ UNCHANGED restVars

\* A pipe that writes: never cached, never answered as retryable.
ExecuteWrite(c) ==
    /\ conn[c].pc = "write"
    /\ \E outcome \in {"ok"} \cup world.failures :
         Answer(c, CASE ~conf.pool -> [Refuse(503) EXCEPT !.retry = TRUE]
                     [] outcome = "ok" -> Reply(200, "written", <<>>)
                     [] OTHER -> [chFailureOf(outcome, FALSE) EXCEPT !.retry = FALSE])
    /\ UNCHANGED <<restVars, cache>>

\* An insert of one record: what is accepted is published.
Ingest(c) ==
    /\ conn[c].pc = "insert"
    /\ \E rp \in {Evaluate(conf.policy, ResolveRole(conf.policy, conn[c].role), "t", "insert", conn[c].claims)} :
       \E rec \in {prepareRecord(conf.schema, rp, world.req[c].data)} :
           IF conf.schema # <<>> /\ rp.allowed /\ rec.status = 200
           THEN /\ log' = Append(log, [cols |-> rec.cols, row |-> rec.row, usable |-> TRUE])
                /\ conn' = [conn EXCEPT ![c].pc = "answered", ![c].answer = Reply(200, "accepted", <<RowOf(rec)>>),
                                        ![c].pol = at]
           ELSE /\ Answer(c, IF conf.schema = <<>> THEN [Refuse(503) EXCEPT !.retry = TRUE]
                             ELSE IF ~rp.allowed THEN writeAuthzDenied(c) ELSE Refuse(rec.status))
                /\ UNCHANGED log
    /\ UNCHANGED <<world, at, hooks, closing, sub, hub, bpos, bc, out, wheel, wire, fate, verifier, cache>>

-----------------------------------------------------------------------------

RequestStep(c) ==
    \/ TenantMW(c) \/ AuthMW(c) \/ RequireAdmin(c) \/ StructuredQuery(c) \/ ExecutePipe(c)
    \/ CacheLookup(c) \/ Land(c) \/ ExecuteWrite(c) \/ Ingest(c)

Init ==
    /\ \E k \in Kinds : world \in Worlds(k)
    /\ StreamInit
    /\ conn = [c \in Conns |-> [NewConn EXCEPT !.pc = IF world.req[c].kind = "idle" THEN "answered" ELSE "tenant"]]
    /\ verifier = newVerifier(world.confs[1].wiring)
    /\ cache = {}

Next ==
    \/ \E c \in Conns : RequestStep(c)
    \/ (\E c \in Conns : StreamStep(c)) /\ UNCHANGED <<verifier, cache>>
    \/ HubStep /\ UNCHANGED <<verifier, cache>>
    \/ AuthHook \/ FetchKeys \/ Reload

Spec == Init /\ [][Next]_vars

-----------------------------------------------------------------------------

(* Who the caller is by its token, whatever the server knew of its keys.   *)
TrueIdentity(c) ==
    LET req == world.req[c]
        tok == req.token
        w == conn[c].wiring
        good == tok.present /\ ValidMethod(w, tok) /\ w.mode # "none" /\ tok.key = w.key /\ ~tok.expired
    IN  IF req.operatorKey THEN [role |-> AdminRole(world.confs[conn[c].pol].policy), claims |-> <<>>]
        ELSE IF good THEN [role |-> extractClaim(tok.claims, w.roleClaim), claims |-> tok.claims]
        ELSE [role |-> "", claims |-> <<>>]

\* The values a template stands for, for a caller; {} when it has none.
ValuesOf(tmpl, claims) ==
    LET v == navigateClaims(claims, tmpl.path)
    IN  IF tmpl.form = "literal" THEN {tmpl.lit}
        ELSE IF v.t \in {"string", "number"} THEN {IF tmpl.form = "within" THEN Around(v.s) ELSE v.s}
        ELSE IF tmpl.form = "claim" /\ v.t = "array" /\ \A i \in DOMAIN v.e : v.e[i].t \in {"string", "number"}
        THEN {v.e[i].s : i \in DOMAIN v.e} ELSE {}

MayReadRow(row, filter, claims) ==
    \A d \in DOMAIN filter : \A o \in DOMAIN filter[d] :
        \E x \in ValuesOf(filter[d][o], claims) :
            Holds(o, Sign(Quantity(row[d]) - (IF x.k = "num" THEN Hundredths(x) ELSE Rank(x))))

MayReadColumn(d, g) == d \notin g.deny /\ (g.allow = {} \/ d \in g.allow \/ "*" \in g.allow)

\* A query answers only from what its caller may read: the answer is the one
\* the same statement, without the row filter, gives on a table from which
\* the rows the caller may not see are gone and the columns it may not read
\* are blank; so no filter, grouping, ordering, alias, cached answer or shared
\* flight lets it learn more.  A pipe's rows carry the caller's own claims.
\* (query.Build, IsColumnAllowed, BindParams, queryCacheKey, tokenError.)
Confined ==
    \A c \in Conns : conn[c].answer.kind = "rows" =>
        LET a == conn[c].answer
            kind == world.req[c].kind
            cf == world.confs[conn[c].pol]
            id == TrueIdentity(c)
            role == ResolveRole(cf.policy, id.role)
            grant == cf.policy.grants[<<"t", role>>].select
            visible == SelectSeq(world.rows, LAMBDA r : MayReadRow(r, grant.filter, id.claims))
            blank == [i \in DOMAIN visible |-> [d \in DOMAIN visible[i] |->
                         IF MayReadColumn(d, grant) THEN visible[i][d] ELSE Str(Empty)]]
        IN  IF kind = "pipe"
            THEN /\ RoleAllowed(cf.policy, role, cf.pipe.roles)
                 /\ \A w \in cf.pipe.where : w.from.k = "claim" =>
                        \A i \in DOMAIN a.rows : \E x \in ValuesOf(Claim(w.from.name), id.claims) :
                            a.rows[i].cols[w.col].s = x
            ELSE \/ IsAdmin(cf.policy, role)
                 \/ /\ role # "" /\ <<"t", role>> \in DOMAIN cf.policy.grants
                    /\ a.rows = Exec([conn[c].stmt EXCEPT !.rls = {}], blank, Stored).rows
                    /\ grant.maxRows > 0 => Len(a.rows) <= grant.maxRows

\* A row that is accepted carries, in a column the table stores, the value its
\* writer's check requires: the claim of its own token, whether the record
\* gave it or the server filled it in (prepareRecord, policyCheckGuard).
WriteConfined ==
    \A c \in Conns : conn[c].answer.kind = "accepted" =>
        LET cf == world.confs[conn[c].pol]
            id == TrueIdentity(c)
            role == ResolveRole(cf.policy, id.role)
            check == cf.policy.grants[<<"t", role>>].insert.check
            row == conn[c].answer.rows[1]
        IN  IsAdmin(cf.policy, role) \/
            \A d \in DOMAIN check :
                /\ d \in DOMAIN row /\ Lookup(world.table, d).kind \notin {"MATERIALIZED", "ALIAS", "EPHEMERAL"}
                /\ LET allowed == ValuesOf(check[d][CHOOSE o \in DOMAIN check[d] : TRUE], id.claims)
                   IN  \/ \E x \in allowed :
                              \/ x = row[d].s
                              \/ x.k = "num" /\ CanonicalNumericLiteral(x) = CanonicalNumericLiteral(row[d].s)
                       \/ allowed = {} /\ row[d] = Str(Empty)
=============================================================================
