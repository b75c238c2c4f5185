------------------------------ MODULE MCGateway -----------------------------
(* The cases Gateway is checked on. *)
EXTENDS Gateway

-----------------------------------------------------------------------------
(* Spellings. *)

A == Text("a")  B == Text("b")  Up == Text("A")  T1 == Text("t1")  T2 == Text("t2")
One == Num(1, 0, 0)  OneDotZero == Num(10, 1, 0)  Ten == Num(1, 0, 1)  Five == Num(5, 0, 0)
Half == Num(15, 1, 0)  Fine == Num(151, 2, 0)  Neg == Num(-1, 0, 0)  Long == Num(12345, 0, 0)

MCRank(s) ==
    CASE s.k = "num" -> IF s.m < 0 THEN -100000 - s.m
                        ELSE Abs(s.m) * Pow10[5 - DigitsOf(s.m)] + 10 * s.f + s.x
      [] s.k = "around" -> 200000
      [] OTHER -> 300000 + (CASE s = Up -> 1 [] s = A -> 2 [] s = B -> 3 [] s = T1 -> 4 [] s = T2 -> 5 [] OTHER -> 0)
MCMeaning(s) == IF s = Up THEN MCRank(A) ELSE MCRank(s)
MCInstant(s) == CASE s = T1 -> 1 [] s = T2 -> 2 [] s = One -> 1 [] s = Five -> 5 [] OTHER -> -1
MCFoldCase(f) == IF f = "COUNT" THEN "count" ELSE f

-----------------------------------------------------------------------------
(* The table: org and n are filtered on, secret is not everyone's. *)

Schema == <<Column("org", TextT, "", FALSE), Column("n", IntT(0, 9), "", TRUE), Column("secret", TextT, "", TRUE),
            Column("at", TimeT, "", TRUE), Column("made", TextT, "MATERIALIZED", FALSE)>>
WithEphemeral == Append(Schema, Column("eph", TextT, "EPHEMERAL", TRUE))
Names == {"org", "n", "secret", "at", "made"}
TableRow(org, n, secret, at_) ==
    [c \in Names |-> CASE c = "org" -> Str(org) [] c = "n" -> Number(n) [] c = "secret" -> Str(secret) [] c = "at" -> Str(at_) [] OTHER -> Str(org)]
Rows == <<TableRow(A, One, Text("x"), T1), TableRow(A, Five, Text("y"), T2), TableRow(B, One, Text("y"), T1),
          TableRow(B, Five, Text("x"), T2)>>

\* Policies.
ForRoles(roles, select, insert) == [q \in {<<"t", r>> : r \in roles} |-> [select |-> select, insert |-> insert]]
Plain == SelectGrant({}, {}, <<>>, {}, {}, 0)
Mine == SelectGrant({"org", "n", "at"}, {}, "org" :> ("=" :> Claim("org")), {}, {"max"}, 1)
Team == SelectGrant({"*"}, {"secret"}, "org" :> ("in" :> Claim("orgs")) @@ "n" :> (">" :> Literal(Num(0, 0, 0))), {"COUNT"}, {}, 0)
Inside == SelectGrant({}, {"secret"}, "org" :> ("=" :> Within("org")), {}, {}, 0)
Unfinished == SelectGrant({}, {}, "org" :> <<>>, {}, {}, 0)
WriteMine == InsertGrant({}, {"secret"}, "org" :> ("=" :> Claim("org")))
WriteTeam == InsertGrant({"*"}, {}, "org" :> ("in" :> Claim("orgs")))
WriteOne == InsertGrant({}, {}, "n" :> ("=" :> Literal(OneDotZero)))
WriteMade == InsertGrant({}, {}, "made" :> ("=" :> Claim("org")))
WriteEph == InsertGrant({}, {}, "eph" :> ("=" :> Literal(A)))
P(select, insert) == Policy("viewer", "admin", ForRoles({"viewer", "member"}, select, insert))
Closed(select, insert) == Policy("", "admin", ForRoles({"member"}, select, insert))

\* Tokens and their keys.
Jwks == Wiring("jwks", "k", "role")
Secret == Wiring("secret", "k", "role")
ClaimsOf(role, org, orgs) == "role" :> Str(Text(role)) @@ "org" :> org @@ "orgs" :> orgs
OfA == Token("hmac", "k", FALSE, ClaimsOf("member", Str(A), Arr(<<Str(A)>>)))
OfB == Token("hmac", "k", FALSE, ClaimsOf("member", Str(B), Arr(<<Str(A), Str(B)>>)))
NoOrg == Token("hmac", "k", FALSE, ClaimsOf("member", Obj, Arr(<<Str(A), Obj>>)))
NoRole == Token("hmac", "k", FALSE, "org" :> Str(B) @@ "orgs" :> Arr(<<>>))
Admin == Token("hmac", "k", FALSE, ClaimsOf("admin", Str(A), Null))
Late == [OfA EXCEPT !.expired = TRUE]
Forged == [OfB EXCEPT !.key = "other"]
Signed == [OfA EXCEPT !.alg = "asymmetric"]

-----------------------------------------------------------------------------
(* Cases. *)

NoQuery == Query(<<>>, FALSE, <<>>, <<>>, <<>>, <<>>, 0, NoRange)
BareRequest == [kind |-> "idle", tenant |-> "known", token |-> NoToken, operatorKey |-> FALSE, since |-> 0,
                columns |-> Null, query |-> NoQuery, supplied |-> <<>>, data |-> <<>>]
NoPipe == Pipe({}, <<>>, {}, FALSE, "clean")
Conf(policy, wiring) ==
    [serving |-> "served", policy |-> policy, wiring |-> wiring, schema |-> Schema, queue |-> 1, buckets |-> 1,
     bucket |-> 0, maxRows |-> 3, pipe |-> NoPipe, pool |-> TRUE]
World(r1, r2, confs) ==
    [req |-> "c1" :> r1 @@ "c2" :> r2, confs |-> confs, feed |-> <<>>, table |-> Schema, rows |-> Rows,
     leaves |-> FALSE, closes |-> FALSE, ticks |-> FALSE, failures |-> {}]

ColumnsAs(names) == Arr([i \in DOMAIN names |-> Str(Text(names[i]))])
AsQuery(tok, cols, q) == [BareRequest EXCEPT !.kind = "query", !.token = tok, !.columns = cols, !.query = q]
Filter(col, op, v) == [col |-> col, op |-> op, value |-> v]
Agg(fn, col, alias) == [fn |-> fn, col |-> col, alias |-> alias]
Order(col, desc) == [col |-> col, desc |-> desc]

\* Each says what is selected and how.
Asked == {
    <<ColumnsAs(<<"org", "n">>), NoQuery>>,
    <<Null, [NoQuery EXCEPT !.all = TRUE]>>,
    <<Null, NoQuery>>,
    <<Obj, NoQuery>>,
    <<Str(Text("n")), [NoQuery EXCEPT !.limit = 2, !.order = <<Order("n", TRUE)>>]>>,
    <<Str(Text("n")), [NoQuery EXCEPT !.limit = 9, !.order = <<Order("secret", FALSE)>>]>>,
    <<Str(Text("n")), [NoQuery EXCEPT !.order = <<Order("nothing", FALSE)>>]>>,
    <<Str(Text("n")), [NoQuery EXCEPT !.filters = <<Filter("secret", "eq", Str(Text("x")))>>]>>,
    <<Str(Text("n")), [NoQuery EXCEPT !.filters = <<Filter("org", "in", Arr(<<Str(A), Str(B)>>))>>]>>,
    <<Str(Text("n")), [NoQuery EXCEPT !.filters = <<Filter("n", "in", Null)>>]>>,
    <<Str(Text("n")), [NoQuery EXCEPT !.filters = <<Filter("n", "gte", Number(Five))>>,
                                      !.range = TimeRange("at", "ago", 4, "at", 9)]>>,
    <<Str(Text("n")), [NoQuery EXCEPT !.range = TimeRange("at", "bad", 0, "", 0)]>>,
    <<Str(Text("secret")), NoQuery>>,
    <<Str(Text("missing")), NoQuery>>,
    <<Null, [NoQuery EXCEPT !.aggs = <<Agg("COUNT", "*", "c")>>]>>,
    <<Str(Text("org")), [NoQuery EXCEPT !.aggs = <<Agg("max", "n", "m")>>, !.group = <<"org">>, !.order = <<Order("m", TRUE)>>]>>,
    <<Null, [NoQuery EXCEPT !.aggs = <<Agg("min", "secret", "m")>>]>>,
    <<Null, [NoQuery EXCEPT !.aggs = <<Agg("median", "n", "m")>>]>>,
    <<Str(Text("secret")), [NoQuery EXCEPT !.aggs = <<Agg("count", "*", "c")>>, !.group = <<"secret">>]>> }

Tokens == {NoToken, OfA, OfB, NoOrg, NoRole, Admin, Late, Forged}
QueryWorlds ==
    {World(AsQuery(t, a[1], a[2]), BareRequest, <<Conf(p, Secret)>>) :
        t \in Tokens, a \in Asked,
        p \in {P(Mine, NoSide), P(Team, NoSide), Closed(Inside, NoSide), P(NoSide, NoSide), Closed(Plain, NoSide)}}

\* Two callers of one statement, a shared flight and a reload in between.
SharedWorlds ==
    {[World(AsQuery(OfA, a[1], a[2]), AsQuery(t, a[1], a[2]), confs) EXCEPT !.failures = {"unavailable", "overrun"}] :
        t \in {OfA, OfB, NoToken}, a \in {b \in Asked : b[1] \in {Null, Str(Text("n"))}},
        confs \in {<<Conf(P(Mine, NoSide), Secret), [Conf(P(Team, NoSide), Secret) EXCEPT !.maxRows = 1]>>,
                   <<Conf(P(Mine, NoSide), Secret), [Conf(P(Mine, NoSide), Secret) EXCEPT !.pool = FALSE]>>}}

AsPipe(tok, supplied) == [BareRequest EXCEPT !.kind = "pipe", !.token = tok, !.supplied = supplied]
ByOrg == [col |-> "org", op |-> "=", from |-> ClaimRef("org")]
ByN(default) == [col |-> "n", op |-> ">", from |-> Param("n", default)]
Pipes == {Pipe(roles, pars, where, write, "clean") :
            roles \in {{"member"}, {}}, write \in BOOLEAN,
            pars \in {<<>>, "n" :> [required |-> TRUE, default |-> Null], "n" :> [required |-> FALSE, default |-> Number(One)]},
            where \in {{ByOrg}, {ByOrg, ByN(Null)}, {ByN(Number(Five))}}}
PipeWorlds ==
    {[World(AsPipe(t, s), BareRequest, <<[Conf(P(Plain, NoSide), Secret) EXCEPT !.pipe = p]>>)
        EXCEPT !.failures = {"limit", "overrun", "denied", "misconfigured", "unavailable", "other"}] :
        p \in {q \in Pipes : CheckTemplate(q)}, t \in {NoToken, OfA, NoOrg, Admin, Forged},
        s \in {<<>>, "n" :> Number(Num(0, 0, 0)), "n" :> Obj, "org" :> Str(B)}}

AsInsert(tok, data) == [BareRequest EXCEPT !.kind = "insert", !.token = tok, !.data = data]
Records == {"org" :> Str(A), "org" :> Str(B) @@ "n" :> Number(One), "org" :> Null, "n" :> Number(OneDotZero) @@ "org" :> Str(A),
            "org" :> Str(A) @@ "secret" :> Str(A), "org" :> Str(A) @@ "made" :> Str(B), "org" :> Str(A) @@ "eph" :> Str(A),
            "n" :> Str(One) @@ "org" :> Str(B), "n" :> Obj @@ "org" :> Str(A), <<>>}
InsertWorlds ==
    {[World(AsInsert(t, d), BareRequest, <<[Conf(P(NoSide, g), Secret) EXCEPT !.schema = WithEphemeral]>>)
        EXCEPT !.table = WithEphemeral] :
        t \in {NoToken, OfA, OfB, NoOrg, Admin, Late}, d \in Records, g \in {WriteMine, WriteTeam, WriteOne, WriteMade, WriteEph, NoSide}}

\* The gates: the tenant, the operator's key, the key set that has not come yet.
Gated(confs) == {World(r, BareRequest, confs) : r \in
    {[BareRequest EXCEPT !.kind = k, !.token = t, !.tenant = n, !.operatorKey = o, !.data = "org" :> Str(A)] :
        k \in {"ops", "query", "stream", "insert"}, t \in {NoToken, Admin, Signed, [Admin EXCEPT !.alg = "asymmetric"]},
        n \in {"known", "unknown", "malformed"}, o \in BOOLEAN}}
GateWorlds ==
    LET c == Conf(P(Mine, WriteMine), Jwks)
    IN  Gated(<<c, [c EXCEPT !.wiring = Secret], [c EXCEPT !.serving = "unknown"]>>)
        \cup Gated(<<[c EXCEPT !.serving = "invalid"]>>) \cup Gated(<<[c EXCEPT !.schema = <<>>]>>)
        \cup {World(AsQuery(Signed, a[1], a[2]), BareRequest, <<c>>) : a \in Asked}

-----------------------------------------------------------------------------
(* Streams. *)

AsStream(tok, since) == [BareRequest EXCEPT !.kind = "stream", !.token = tok, !.since = since]
Event(cols, row) == [cols |-> cols, row |-> row, usable |-> TRUE]

\* One column of each type, one comparison of it, one value that arrives.
OneCol(type) == <<Column("v", type, "", FALSE)>>
Spelled == {A, Up, T1, T2, One, OneDotZero, Ten, Five, Half, Fine, Neg, Long}
Constants == {Literal(s) : s \in {A, T1, One, OneDotZero, Five, Half, Ten}} \cup {Claim("org"), Claim("orgs")}
Carried == {Str(s) : s \in Spelled} \cup {Number(s) : s \in {One, OneDotZero, Ten, Half, Fine, Long, Neg}} \cup {Null, Obj}
FilterWorlds(type) ==
    {[World(AsStream(OfA, 0), BareRequest,
            <<[Conf(P(SelectGrant({}, {}, "v" :> (o :> k), {}, {}, 0), NoSide), Secret) EXCEPT !.schema = known]>>)
        EXCEPT !.table = OneCol(type), !.rows = <<>>, !.feed = <<Event(<<"v">>, <<v>>)>>] :
        o \in Operators, k \in Constants, v \in Carried, known \in {<<>>, OneCol(type)}}

\* Two layouts of a row, one that cannot be read, and one that does not pair.
Wide(org, n) == Event(<<"org", "n", "secret">>, <<Str(org), Number(n), Str(A)>>)
Swapped(org) == Event(<<"n", "org">>, <<Number(One), Str(org)>>)
Narrow(org) == Event(<<"org", "n">>, <<Str(org), Number(One)>>)
Broken == [Wide(A, One) EXCEPT !.usable = FALSE]
Odd == Event(<<"org", "n">>, <<Str(A)>>)

StreamConf == Conf(P(Mine, NoSide), Secret)
Gone == [StreamConf EXCEPT !.serving = "unknown"]
Renamed == [StreamConf EXCEPT !.policy = P(Plain, NoSide)]

\* Announcements, drops and reloads under a full queue; two roles.
LayoutWorlds ==
    {[World(AsStream(OfA, 0), BareRequest, <<StreamConf, Renamed>>) EXCEPT !.feed = f] :
        f \in {<<Narrow(A), Swapped(A), Swapped(A)>>, <<Swapped(B), Wide(A, Five)>>}}
    \cup {[World(AsStream(OfA, 0), AsStream(Admin, 0), <<StreamConf>>) EXCEPT !.feed = <<Wide(A, One)>>]}
    \cup {[World(AsStream(OfA, 0), BareRequest, <<StreamConf, Renamed>>) EXCEPT !.feed = <<Narrow(A), Broken, Odd, Wide(A, One)>>]}

\* The gap-fill, the clients' leaving, the tenant's going, shutdown.
EndWorlds ==
    {[World(AsStream(OfA, n), BareRequest, confs) EXCEPT !.feed = <<Wide(A, One), Wide(B, One)>>, !.leaves = l, !.closes = ~l] :
        n \in {0, 1}, l \in BOOLEAN, confs \in {<<StreamConf>>, <<StreamConf, Gone>>, <<[StreamConf EXCEPT !.schema = <<>>], StreamConf>>}}
    \cup {[World(AsStream(OfA, 0), AsStream(OfB, 0), <<StreamConf, Gone, StreamConf>>) EXCEPT !.leaves = l] : l \in BOOLEAN}

\* The wheel, widened and narrowed under two streams.
WheelWorlds ==
    {[World(AsStream(OfA, 0), AsStream(OfB, 0),
            <<[StreamConf EXCEPT !.buckets = b[1]], [StreamConf EXCEPT !.buckets = b[2]]>>)
        EXCEPT !.ticks = TRUE, !.leaves = TRUE, !.feed = f] : b \in {<<1, 2>>, <<3, 1>>, <<0, 2>>}, f \in {<<>>}}
    \cup {[World(AsStream(OfA, 0), BareRequest, <<[StreamConf EXCEPT !.buckets = 2]>>)
        EXCEPT !.ticks = TRUE, !.leaves = TRUE, !.feed = <<Wide(A, One)>>]}

Types == <<IntT(0, 9), FloatT(50, 9), DecimalT(2, 1), TextT, TimeT, Opaque>>
MCKinds == ({0} \X {"query", "shared", "pipe", "insert", "gate", "layout", "end", "wheel"}) \cup ((1..6) \X {"filter"})
MCWorlds(k) ==
    CASE k[2] = "query" -> QueryWorlds [] k[2] = "shared" -> SharedWorlds [] k[2] = "pipe" -> PipeWorlds
      [] k[2] = "insert" -> InsertWorlds [] k[2] = "gate" -> GateWorlds [] k[2] = "layout" -> LayoutWorlds
      [] k[2] = "end" -> EndWorlds [] k[2] = "wheel" -> WheelWorlds [] OTHER -> FilterWorlds(Types[k[1]])
=============================================================================
