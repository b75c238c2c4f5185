------------------------------ MODULE Requests ------------------------------
(***************************************************************************)
(* What a request becomes: the SELECT a structured query is built into     *)
(* (internal/query), the statement a pipe's template is bound to           *)
(* (pkg/pipes), the row an ingested record is published as                 *)
(* (prepareRecord), and ClickHouse's reading of the statement.             *)
(* Operators only.  A statement is a record; its clauses are comparisons   *)
(* of a column with literals.                                              *)
(***************************************************************************)
EXTENDS Access, SequencesExt

CONSTANTS
    AggFns,          \* the aggregation functions isValidAggFn takes, in lower case
    DefaultMaxRows,  \* query.DefaultMaxRows
    Now              \* the wall clock of a query, in the unit of Instant

-----------------------------------------------------------------------------
(* A table's schema, as discovered: a sequence of columns.                 *)

Column(name, type, kind, nullable) == [name |-> name, type |-> type, kind |-> kind, nullable |-> nullable]

ColumnNames(schema) == [i \in DOMAIN schema |-> schema[i].name]
ColumnSet(schema) == {schema[i].name : i \in DOMAIN schema}
Lookup(schema, name) == schema[CHOOSE i \in DOMAIN schema : schema[i].name = name]

IsInsertable(col) == col.kind \notin {"MATERIALIZED", "ALIAS"}

InsertableColumnNames(schema) == ColumnNames(SelectSeq(schema, IsInsertable))

\* The comparison specs of the columns that have one.
columnSpecs(schema) ==
    [c \in {d \in ColumnSet(schema) : Lookup(schema, d).type.kind # "opaque"} |-> Lookup(schema, c).type]

-----------------------------------------------------------------------------
(* Structured queries.                                                     *)

\* The "columns" field: null or "", one name, or an array of names; else 400.
DecodeColumns(v) ==
    CASE v.t = "null" \/ (v.t = "string" /\ v.s = Empty) -> [ok |-> TRUE, cols |-> <<>>]
      [] v.t = "string" -> [ok |-> TRUE, cols |-> <<v.s.s>>]
      [] v.t = "array" /\ \A i \in DOMAIN v.e : v.e[i].t = "string" /\ v.e[i].s # Empty ->
             [ok |-> TRUE, cols |-> [i \in DOMAIN v.e |-> v.e[i].s.s]]
      [] OTHER -> [ok |-> FALSE, cols |-> <<>>]

NoRange == [col |-> "", since |-> "", until |-> "", from |-> 0, to |-> 0]
\* since and until are "", "ago" (a relative duration), "at" (an instant) or "bad".
TimeRange(col, since, from, until, to) == [col |-> col, since |-> since, until |-> until, from |-> from, to |-> to]

Query(columns, all, aggs, filters, group, order, limit, range) ==
    [columns |-> columns, all |-> all, aggs |-> aggs, filters |-> filters, group |-> group,
     order |-> order, limit |-> limit, range |-> range]

\* Rounded down to the tenant's bucket, so that near queries share a key.
bucketTime(t, bucket) == IF bucket <= 0 THEN t ELSE t - (t % bucket)

resolveTimeValue(how, n, bucket) ==
    CASE how = "ago" -> <<bucketTime(Now - n, bucket)>>
      [] how = "at" -> <<bucketTime(n, bucket)>>
      [] OTHER -> <<>>

FirstError(checks) ==
    LET bad == {i \in DOMAIN checks : checks[i] # "ok"} IN IF bad = {} THEN "ok" ELSE checks[MinOf(bad)]

\* The first clause that names no column of the table, or one the role may
\* not read.  An ORDER BY name that is no column is taken for an alias.
validateAndAuthorizeColumns(q, schema, rp) ==
    LET known(c) == IF c \in ColumnSet(schema) /\ c \notin BindUnsafe THEN "ok" ELSE "malformed"
        check(c) == IF known(c) # "ok" THEN "malformed"
                    ELSE IF IsColumnAllowed(rp, c, FALSE) THEN "ok" ELSE "forbidden"
        agg(a) == IF a.col # "*" /\ check(a.col) # "ok" THEN check(a.col)
                  ELSE IF FoldCase(a.fn) \notin AggFns THEN "malformed"
                  ELSE IF ~IsAggregationAllowed(rp, a.fn) THEN "forbidden"
                  ELSE IF a.alias \in BindUnsafe THEN "malformed" ELSE "ok"
        order(o) == IF o.col \in BindUnsafe THEN "malformed"
                    ELSE IF known(o.col) # "ok" THEN "ok" ELSE check(o.col)
    IN  FirstError([i \in DOMAIN q.columns |-> check(q.columns[i])]
                   \o [i \in DOMAIN q.aggs |-> agg(q.aggs[i])]
                   \o [i \in DOMAIN q.filters |-> check(q.filters[i].col)]
                   \o [i \in DOMAIN q.group |-> check(q.group[i])]
                   \o [i \in DOMAIN q.order |-> order(q.order[i])]
                   \o (IF q.range.col = "" THEN <<>> ELSE <<check(q.range.col)>>))

\* The columns to select; all of them as a wildcard for a role without limits.
resolveProjection(q, schema, rp) ==
    LET readable == AllowedProjection(rp, ColumnNames(schema))
    IN  CASE q.all /\ ~RestrictsColumns(rp) -> [err |-> "ok", cols |-> <<>>, star |-> TRUE]
          [] q.all -> [err |-> IF readable = <<>> THEN "forbidden" ELSE "ok", cols |-> readable, star |-> FALSE]
          [] q.columns # <<>> \/ q.aggs # <<>> -> [err |-> "ok", cols |-> q.columns, star |-> FALSE]
          [] OTHER -> [err |-> "empty", cols |-> <<>>, star |-> FALSE]

Clause(col, op, values) == [false |-> FALSE, col |-> col, op |-> op, values |-> values]

\* A caller's comparison; <<>> when its operator or its value is not one.
filterToSQL(f) ==
    CASE f.op = "in" -> IF f.value.t = "array" /\ f.value.e # <<>>
                        THEN <<Clause(f.col, "in", [i \in DOMAIN f.value.e |-> f.value.e[i].s])>> ELSE <<>>
      [] f.op \in DOMAIN ("eq" :> 1 @@ "neq" :> 1 @@ "gt" :> 1 @@ "gte" :> 1 @@ "lt" :> 1 @@ "lte" :> 1 @@ "like" :> 1) ->
             <<Clause(f.col, CASE f.op = "eq" -> "=" [] f.op = "neq" -> "!=" [] f.op = "gt" -> ">"
                               [] f.op = "gte" -> ">=" [] f.op = "lt" -> "<" [] f.op = "lte" -> "<="
                               [] OTHER -> "like", <<f.value.s>>)>>
      [] OTHER -> <<>>

buildWhere(q, bucket) ==
    LET filters == [i \in DOMAIN q.filters |-> filterToSQL(q.filters[i])]
        since == resolveTimeValue(q.range.since, q.range.from, bucket)
        until == resolveTimeValue(q.range.until, q.range.to, bucket)
        ranged == q.range.col # "" /\ q.range.since # ""
    IN  IF \/ \E i \in DOMAIN filters : filters[i] = <<>>
           \/ ranged /\ (since = <<>> \/ (q.range.until # "" /\ until = <<>>))
        THEN [err |-> "malformed", clauses |-> {}]
        ELSE [err |-> "ok",
              clauses |-> {filters[i][1] : i \in DOMAIN filters}
                          \cup (IF ranged THEN {Clause(q.range.col, "since", since)} ELSE {})
                          \cup (IF ranged /\ q.range.until # "" THEN {Clause(q.range.col, "until", until)} ELSE {})]

Limit(limit, cap) == IF limit > 0 /\ limit <= cap THEN limit ELSE cap

Failed(err) == [err |-> err, star |-> FALSE, cols |-> <<>>, aggs |-> <<>>, rls |-> {}, where |-> {},
                group |-> <<>>, order |-> <<>>, limit |-> 0]

Build(q, schema, rp, bucket, defaultMaxRows) ==
    LET max == IF defaultMaxRows <= 0 THEN DefaultMaxRows ELSE defaultMaxRows
        cap == IF rp.select.maxRows > 0 /\ rp.select.maxRows < max THEN rp.select.maxRows ELSE max
        of(columns, proj, where) ==
            IF q.all /\ (q.columns # <<>> \/ q.aggs # <<>>) THEN Failed("malformed")
            ELSE IF columns # "ok" THEN Failed(columns)
            ELSE IF proj.err # "ok" THEN Failed(proj.err)
            ELSE IF where.err # "ok" THEN Failed(where.err)
            ELSE [err |-> "ok", star |-> proj.star, cols |-> proj.cols, aggs |-> q.aggs,
                  rls |-> rp.select.where, where |-> where.clauses,
                  group |-> q.group, order |-> q.order, limit |-> Limit(q.limit, cap)]
    IN  of(validateAndAuthorizeColumns(q, schema, rp), resolveProjection(q, schema, rp), buildWhere(q, bucket))

-----------------------------------------------------------------------------
(* ClickHouse's reading of a statement over a table, a sequence of rows.   *)

Error == [rows |-> <<>>, error |-> TRUE]

Quantity(v) == IF v.s.k = "num" THEN Hundredths(v.s) ELSE Rank(v.s)

Satisfies(row, w) ==
    LET has(c) == CASE w.op \in {"since", "until"} -> (IF w.op = "since" THEN c >= 0 ELSE c <= 0)
                    [] w.op = ">=" -> c >= 0
                    [] w.op = "<=" -> c <= 0
                    [] w.op = "like" -> c = 0
                    [] OTHER -> Holds(w.op, c)
        against(x) == IF w.op \in {"since", "until"} THEN Instant(row[w.col].s) - x
                      ELSE Quantity(row[w.col]) - (IF x.k = "num" THEN Hundredths(x) ELSE Rank(x))
    IN  ~w.false /\ \E i \in DOMAIN w.values : has(Sign(against(w.values[i])))

Aggregate(a, rows) ==
    LET vals == {Quantity(rows[i][a.col]) : i \in DOMAIN rows}
    IN  CASE FoldCase(a.fn) = "count" -> Len(rows)
          [] FoldCase(a.fn) = "max" -> IF vals = {} THEN 0 ELSE MaxOf(vals)
          [] OTHER -> IF vals = {} THEN 0 ELSE MinOf(vals)

\* Rows in groups, or each by itself.
Units(stmt, kept) ==
    LET key(r) == [i \in DOMAIN stmt.group |-> r[stmt.group[i]]]
        by(keys) == [g \in DOMAIN keys |-> SelectSeq(kept, LAMBDA r : key(r) = keys[g])]
    IN  CASE stmt.group # <<>> -> by(SetToSeq({key(kept[i]) : i \in DOMAIN kept}))
          [] stmt.aggs # <<>> -> <<kept>>
          [] OTHER -> [i \in DOMAIN kept |-> <<kept[i]>>]

\* ORDER BY: an alias of an aggregate before a column of that name.
Ordered(stmt, units) ==
    LET column(u, col) == LET aliased == {a \in DOMAIN stmt.aggs : stmt.aggs[a].alias = col}
                          IN  IF aliased # {} THEN Aggregate(stmt.aggs[MinOf(aliased)], u) ELSE Quantity(u[1][col])
        sortKey(u) == [i \in DOMAIN stmt.order |->
                          IF stmt.order[i].desc THEN -column(u, stmt.order[i].col) ELSE column(u, stmt.order[i].col)]
        before(k, l) == \E i \in DOMAIN k : k[i] < l[i] /\ \A h \in 1..(i - 1) : k[h] = l[h]
    IN  SortSeq(units, LAMBDA u, v : before(sortKey(u), sortKey(v)))

\* The answer: filtered, grouped, sorted and cut; each row is its columns'
\* values and its aggregates.  columns are the ones the table stores.
Exec(stmt, table, columns) ==
    LET kept == SelectSeq(table, LAMBDA r : \A w \in stmt.rls \cup stmt.where : Satisfies(r, w))
        grouped == stmt.aggs # <<>> \/ stmt.group # <<>>
        names == IF stmt.star THEN columns ELSE {stmt.cols[i] : i \in DOMAIN stmt.cols}
        keys == {stmt.group[i] : i \in DOMAIN stmt.group}
        sortable == {stmt.aggs[i].alias : i \in DOMAIN stmt.aggs} \cup (IF grouped THEN keys ELSE columns)
        out(u) == [cols |-> [c \in names |-> u[1][c]], aggs |-> [i \in DOMAIN stmt.aggs |-> Aggregate(stmt.aggs[i], u)]]
        answer(sorted) == [i \in 1..MinOf({stmt.limit, Len(sorted)}) |-> out(sorted[i])]
    IN  IF \/ \E i \in DOMAIN stmt.order : stmt.order[i].col \notin sortable
           \/ grouped /\ ~(names \subseteq keys)
           \/ ~(names \subseteq columns)
           \/ \E w \in stmt.where : w.col \notin columns
        THEN Error
        ELSE [rows |-> answer(Ordered(stmt, Units(stmt, kept))), error |-> FALSE]

-----------------------------------------------------------------------------
(* Pipes.  A template is a statement whose comparisons take their value    *)
(* from a placeholder: a parameter, with an inline default or none, or a   *)
(* claim of the caller's token.                                            *)

Param(name, default) == [k |-> "param", name |-> name, default |-> default]
ClaimRef(path) == [k |-> "claim", name |-> path, default |-> Null]

\* parameters maps a declared name to [required, default].
Pipe(roles, parameters, where, write, template) ==
    [roles |-> roles, parameters |-> parameters, where |-> where, write |-> write, template |-> template]

\* Why a settings document with this pipe is refused: a placeholder named as
\* the claims are, inside quotes or a comment, or none the grammar knows.
CheckTemplate(pipe) == pipe.template = "clean" /\ \A w \in pipe.where : w.from.k = "param" => w.from.name # "jwt"

\* A bound value: what was given, quoted or as a bare number; <<>> refused.
formatParamValue(v) ==
    CASE v.t = "null" -> <<Text("NULL")>>
      [] v.t = "array" -> IF v.e = <<>> \/ \E i \in DOMAIN v.e : v.e[i].t \in {"object", "array"} THEN <<>>
                          ELSE [i \in DOMAIN v.e |-> v.e[i].s]
      [] v.t = "object" -> <<>>
      [] OTHER -> <<v.s>>

Claims(pipe) == {w.from.name : w \in {x \in pipe.where : x.from.k = "claim"}}

BindParams(pipe, supplied, claims) ==
    LET given(from) ==
            IF from.name \in DOMAIN supplied THEN <<supplied[from.name]>>
            ELSE IF from.name \in DOMAIN pipe.parameters THEN <<pipe.parameters[from.name].default>>
            ELSE IF from.default # Null THEN <<from.default>> ELSE <<>>
        literal(from) == IF from.k = "claim" THEN ResolveClaim(claims, from.name).values
                         ELSE IF given(from) = <<>> THEN <<>> ELSE formatParamValue(given(from)[1])
    IN  IF \E path \in Claims(pipe) : ~ResolveClaim(claims, path).ok THEN Failed("unresolved")
        ELSE IF \/ \E n \in DOMAIN pipe.parameters : pipe.parameters[n].required /\ n \notin DOMAIN supplied
                \/ \E w \in pipe.where : literal(w.from) = <<>>
        THEN Failed("malformed")
        ELSE [Failed("ok") EXCEPT !.star = TRUE, !.limit = DefaultMaxRows,
                                  !.where = {Clause(w.col, w.op, literal(w.from)) : w \in pipe.where}]

-----------------------------------------------------------------------------
(* Ingested records.                                                       *)

isTypeCompatible(type, v) ==
    CASE type.kind = "text" -> v.t \in {"string", "number", "bool"}
      [] type.kind \in {"time", "numeric"} -> v.t \in {"string", "number"}
      [] OTHER -> TRUE

\* discovery.Validate
ValidRecord(schema, data) ==
    /\ \A c \in DOMAIN data : c \in ColumnSet(schema) /\ IsInsertable(Lookup(schema, c))
    /\ \A i \in DOMAIN schema :
           LET col == schema[i]
           IN  IF col.name \notin DOMAIN data \/ data[col.name].t = "null"
               THEN col.nullable \/ col.kind # ""
               ELSE isTypeCompatible(col.type, data[col.name])

\* Bug: a check is not held against the columns a row can carry.
policyCheckGuardBug(schema, checks) == TRUE

\* Every checked column is one a published row carries and ClickHouse stores.
policyCheckGuard(schema, checks) ==
    \A c \in DOMAIN checks :
        c \in ColumnSet(schema) /\ IsInsertable(Lookup(schema, c)) /\ Lookup(schema, c).kind # "EPHEMERAL"

checkValueMatches(actual, check) ==
    LET a == CanonicalScalar(actual)
    IN  /\ a # <<>>
        /\ \/ a[1] = check.values[1]
           \/ check.kind = "literal" /\ a = CanonicalNumericLiteral(check.values[1])

valueInSet(actual, values) == CanonicalScalar(actual) # <<>> /\ \E i \in DOMAIN values : CanonicalScalar(actual) = <<values[i]>>

\* What is published for a record, or the status it is refused with.
prepareRecord(schema, rp, data) ==
    LET checks == CheckClauses(rp).checks
        passes(c) == CASE checks[c].kind = "set" -> c \in DOMAIN data /\ valueInSet(data[c], checks[c].values)
                       [] OTHER -> c \in DOMAIN data => checkValueMatches(data[c], checks[c])
        full == [c \in DOMAIN data \cup DOMAIN checks |->
                    IF c \in DOMAIN data THEN data[c] ELSE Str(checks[c].values[1])]
        cols == InsertableColumnNames(schema)
    IN  IF ~ValidRecord(schema, data) THEN [status |-> 400, cols |-> <<>>, row |-> <<>>]
        ELSE IF \/ \E c \in DOMAIN data : ~IsColumnAllowed(rp, c, TRUE)
                \/ checks # <<>> /\ ~policyCheckGuard(schema, checks)
                \/ \E c \in DOMAIN checks : ~passes(c)
        THEN [status |-> 403, cols |-> <<>>, row |-> <<>>]
        ELSE [status |-> 200, cols |-> cols,
              row |-> [i \in DOMAIN cols |-> IF cols[i] \in DOMAIN full THEN full[cols[i]] ELSE Null]]
=============================================================================
