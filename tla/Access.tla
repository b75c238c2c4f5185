------------------------------- MODULE Access -------------------------------
(***************************************************************************)
(* Access control (pkg/policy): roles, grants, claim templates, and the    *)
(* one row filter with two readings: the SQL WHERE clause of a query, and  *)
(* RowVisible, which the stream evaluates in memory.  Operators only.      *)
(*                                                                         *)
(* A policy is a record; NoPolicy is the nil one.  Columns, roles, tables  *)
(* and claim paths are names.  A spelling is what a scalar looks like on   *)
(* the wire: a JSON number m * 10^(x-f) written with f fraction digits and *)
(* exponent x, or some other text.  Numbers are compared in hundredths.    *)
(***************************************************************************)
EXTENDS Integers, Sequences, FiniteSets

CONSTANTS
    Rank(_),      \* the byte order of spellings, as a number
    Meaning(_),   \* the value ClickHouse parses a spelling to in an opaque-typed column
    Instant(_),   \* the instant a timestamp column reads a spelling as; -1: none
    MaxDigits,    \* maxCanonicalDigits
    BindUnsafe,   \* names with a '?' in them
    FoldCase(_)   \* strings.ToLower, on aggregation names

-----------------------------------------------------------------------------
(* Values.                                                                 *)

Num(m, f, x) == [k |-> "num", m |-> m, f |-> f, x |-> x]
Text(s) == [k |-> "text", s |-> s]
Around(s) == [k |-> "around", s |-> s]   \* the text of a template around a value
Empty == Text("")

\* A decoded JSON value: a scalar of spelling s, or something that is not one.
Str(s) == [t |-> "string", s |-> s, e |-> <<>>]
Number(s) == [t |-> "number", s |-> s, e |-> <<>>]
Arr(e) == [t |-> "array", s |-> Empty, e |-> e]
Obj == [t |-> "object", s |-> Empty, e |-> <<>>]
Null == [t |-> "null", s |-> Empty, e |-> <<>>]

Pow10 == [n \in 0..8 |-> CASE n = 0 -> 1 [] n = 1 -> 10 [] n = 2 -> 100 [] n = 3 -> 1000
                           [] n = 4 -> 10000 [] n = 5 -> 100000 [] n = 6 -> 1000000
                           [] n = 7 -> 10000000 [] OTHER -> 100000000]

Abs(n) == IF n < 0 THEN -n ELSE n
MinOf(S) == CHOOSE n \in S : \A o \in S : n <= o
MaxOf(S) == CHOOSE n \in S : \A o \in S : n >= o
Sign(n) == IF n < 0 THEN -1 ELSE IF n > 0 THEN 1 ELSE 0
DigitsOf(n) == MinOf({d \in 1..8 : Abs(n) < Pow10[d]})

\* The exact decimal form of a JSON number: no exponent, no trailing zero.
\* <<>>: the literal, or its form, has too many digits.
canonicalDecimal(n) ==
    LET shift(e, z) == IF e >= 0 THEN Num(n.m * Pow10[e], 0, 0)
                       ELSE Num((Sign(n.m) * (Abs(n.m) \div Pow10[z])), -e - z, 0)
        short(c) == IF DigitsOf(n.m) > MaxDigits \/ DigitsOf(c.m) > MaxDigits + 2 THEN <<>> ELSE <<c>>
        zeros == {i \in 0..(IF n.x < n.f THEN n.f - n.x ELSE 0) : n.m % Pow10[i] = 0}
    IN  IF n.m = 0 THEN <<Num(0, 0, 0)>> ELSE short(shift(n.x - n.f, MaxOf(zeros)))

\* The spelling the policy layer binds and compares; <<>> for what is no scalar.
CanonicalScalar(v) ==
    CASE v.t \in {"null", "object", "array"} -> <<>>
      [] v.t = "number" -> canonicalDecimal(v.s)
      [] OTHER -> <<v.s>>

\* The canonical form of a spelling that is a JSON number.
CanonicalNumericLiteral(s) == IF s.k = "num" THEN canonicalDecimal(s) ELSE <<>>

\* The number a payload value is: a string that spells one counts.
numericCanonical(v) == IF v.t \in {"string", "number"} THEN CanonicalNumericLiteral(v.s) ELSE <<>>

\* The bytes of a payload scalar, as written.
scalarString(v) == IF v.t \in {"string", "number", "bool"} THEN <<v.s>> ELSE <<>>

\* A canonical number in hundredths.
Hundredths(c) == c.m * Pow10[2 - c.f]

-----------------------------------------------------------------------------
(* Roles.                                                                  *)

NoPolicy == [nil |-> TRUE, default |-> "", admin |-> "", grants |-> <<>>]

Policy(default, admin, grants) == [nil |-> FALSE, default |-> default, admin |-> admin, grants |-> grants]

ResolveRole(p, role) == IF role # "" \/ p.nil THEN role ELSE p.default

AdminRole(p) == IF p.nil THEN "" ELSE IF p.admin # "" THEN p.admin ELSE "admin"

IsAdmin(p, role) == ~p.nil /\ role # "" /\ role = AdminRole(p)

DefaultRoleGrantsAdmin(p) == ~p.nil /\ p.default # "" /\ p.default = AdminRole(p)

RoleAllowed(p, role, allowed) == IsAdmin(p, role) \/ (role # "" /\ role \in allowed)

-----------------------------------------------------------------------------
(* Claim templates.  A template is a literal, one claim reference, a claim *)
(* reference inside other text, or a fragment the grammar does not take.   *)

Literal(s) == [form |-> "literal", path |-> "", lit |-> s]
Claim(path) == [form |-> "claim", path |-> path, lit |-> Empty]
Within(path) == [form |-> "within", path |-> path, lit |-> Empty]
Malformed(s) == [form |-> "malformed", path |-> "", lit |-> s]

navigateClaims(claims, path) == IF path \in DOMAIN claims THEN claims[path] ELSE Null

\* What a template binds, and whether every claim in it could be read.
resolveTemplate(tmpl, claims) ==
    LET of(c) == CASE tmpl.form \in {"literal", "malformed"} -> [s |-> tmpl.lit, ok |-> TRUE]
                   [] tmpl.form = "claim" -> [s |-> IF c = <<>> THEN Empty ELSE c[1], ok |-> c # <<>>]
                   [] OTHER -> [s |-> Around(IF c = <<>> THEN Empty ELSE c[1]), ok |-> c # <<>>]
    IN  of(CanonicalScalar(navigateClaims(claims, tmpl.path)))

\* One claim as values to bind: an array is a set of its elements, and one
\* element that is no scalar fails all of it.
ResolveClaim(claims, path) ==
    LET v == navigateClaims(claims, path)
        of(elems) == IF elems = <<>> \/ \E i \in DOMAIN elems : elems[i] = <<>>
                     THEN [ok |-> FALSE, values |-> <<>>]
                     ELSE [ok |-> TRUE, values |-> [i \in DOMAIN elems |-> elems[i][1]]]
    IN  of(IF v.t = "array" THEN [i \in DOMAIN v.e |-> CanonicalScalar(v.e[i])] ELSE <<CanonicalScalar(v)>>)

scalarValues(r) == IF r.ok THEN <<r.s>> ELSE <<>>

resolveInValues(tmpl, claims) ==
    IF tmpl.form = "claim" THEN ResolveClaim(claims, tmpl.path).values
    ELSE scalarValues(resolveTemplate(tmpl, claims))

-----------------------------------------------------------------------------
(* Row filters.  A filter maps an operator to a template; a predicate is   *)
(* one comparison with its values resolved, and no values match no row.    *)

Operators == {"=", "!=", ">", "<", "in"}

resolvePredicates(filters, claims) ==
    UNION {{[col |-> c, op |-> o, values |-> IF o = "in" THEN resolveInValues(filters[c][o], claims)
                                             ELSE scalarValues(resolveTemplate(filters[c][o], claims))] :
               o \in Operators \cap DOMAIN filters[c]} : c \in DOMAIN filters}

\* The WHERE clauses: a bound comparison for each predicate, or 1 = 0.
predicatesToSQL(preds) ==
    {IF p.values = <<>> THEN [false |-> TRUE, col |-> "", op |-> "", values |-> <<>>]
     ELSE [false |-> FALSE, col |-> p.col, op |-> p.op, values |-> p.values] : p \in preds}

-----------------------------------------------------------------------------
(* Grants.  A side that is not granted, or was not asked for, is NoSide.   *)

NoSide == [none |-> TRUE]

SelectGrant(allow, deny, filter, aggs, noaggs, maxRows) ==
    [none |-> FALSE, allow |-> allow, deny |-> deny, filter |-> filter,
     aggs |-> aggs, noaggs |-> noaggs, maxRows |-> maxRows]

InsertGrant(allow, deny, check) == [none |-> FALSE, allow |-> allow, deny |-> deny, check |-> check]

Denied == [allowed |-> FALSE, select |-> NoSide, insert |-> NoSide]

evaluateSelect(g, claims) ==
    IF g.none \/ \E c \in DOMAIN g.filter : c \in BindUnsafe \/ DOMAIN g.filter[c] = {}
    THEN Denied
    ELSE LET with(preds) == [allowed |-> TRUE, insert |-> NoSide,
                             select |-> [none |-> FALSE, allow |-> g.allow, deny |-> g.deny, aggs |-> g.aggs,
                                         noaggs |-> g.noaggs, maxRows |-> g.maxRows, rowFilter |-> preds,
                                         where |-> predicatesToSQL(preds)]]
         IN  with(resolvePredicates(g.filter, claims))

\* A check's required value: one spelling, with the number it spells when it
\* is a literal, or one of a set.
evaluateInsert(g, claims) ==
    IF g.none \/ \E c \in DOMAIN g.check :
           c \in BindUnsafe \/ DOMAIN g.check[c] \notin {{"="}, {"in"}}
    THEN Denied
    ELSE [allowed |-> TRUE, select |-> NoSide,
          insert |-> [none |-> FALSE, allow |-> g.allow, deny |-> g.deny,
                      checks |-> [c \in DOMAIN g.check |->
                          IF "=" \in DOMAIN g.check[c]
                          THEN [kind |-> IF g.check[c]["="].form \in {"literal", "malformed"} THEN "literal" ELSE "scalar",
                                values |-> <<resolveTemplate(g.check[c]["="], claims).s>>]
                          ELSE [kind |-> "set", values |-> resolveInValues(g.check[c]["in"], claims)]]]]

Unrestricted ==
    [allowed |-> TRUE,
     select |-> [none |-> FALSE, allow |-> {}, deny |-> {}, aggs |-> {}, noaggs |-> {},
                 maxRows |-> 0, rowFilter |-> {}, where |-> {}],
     insert |-> [none |-> FALSE, allow |-> {}, deny |-> {}, checks |-> <<>>]]

Evaluate(p, given, table, operation, claims) ==
    LET role == ResolveRole(p, given)
    IN  IF IsAdmin(p, role) THEN Unrestricted
        ELSE IF p.nil \/ role = "" \/ <<table, role>> \notin DOMAIN p.grants THEN Denied
        ELSE LET g == p.grants[<<table, role>>]
             IN  CASE operation = "select" -> evaluateSelect(g.select, claims)
                   [] operation = "insert" -> evaluateInsert(g.insert, claims)
                   [] OTHER -> Denied

IsColumnAllowed(rp, col, insert) ==
    LET side == IF insert THEN rp.insert ELSE rp.select
    IN  /\ rp.allowed /\ ~side.none
        /\ col \notin side.deny
        /\ side.allow = {} \/ "*" \in side.allow \/ col \in side.allow

AllowedProjection(rp, cols) == SelectSeq(cols, LAMBDA c : IsColumnAllowed(rp, c, FALSE))

RestrictsColumns(rp) ==
    \/ ~rp.allowed \/ rp.select.none
    \/ rp.select.deny # {}
    \/ rp.select.allow # {} /\ "*" \notin rp.select.allow

IsAggregationAllowed(rp, fn) ==
    /\ rp.allowed /\ ~rp.select.none
    /\ \A d \in rp.select.noaggs : FoldCase(d) # FoldCase(fn)
    /\ rp.select.aggs = {} \/ \E a \in rp.select.aggs : FoldCase(a) = FoldCase(fn)

CheckClauses(rp) ==
    IF ~rp.allowed \/ rp.insert.none THEN [ok |-> FALSE, checks |-> <<>>]
    ELSE [ok |-> TRUE, checks |-> rp.insert.checks]

HasRowFilter(rp) == ~rp.allowed \/ rp.select.none \/ rp.select.rowFilter # {}

-----------------------------------------------------------------------------
(* What a settings document may contain.                                   *)

malformedTemplate(tmpl) == tmpl.form = "malformed"

rejectMalformedTemplates(f) == \E o \in DOMAIN f : malformedTemplate(f[o])

validateSelectPerms(g) ==
    g.none \/ ( /\ g.maxRows >= 0
                /\ \A c \in DOMAIN g.filter :
                       c \notin BindUnsafe /\ DOMAIN g.filter[c] # {}
                       /\ ~rejectMalformedTemplates(g.filter[c]) )

validateInsertPerms(g) ==
    g.none \/ \A c \in DOMAIN g.check :
                  /\ c \notin BindUnsafe
                  /\ DOMAIN g.check[c] # {}
                  /\ DOMAIN g.check[c] \cap {"!=", ">", "<"} = {}
                  /\ DOMAIN g.check[c] # {"=", "in"}
                  /\ ~rejectMalformedTemplates(g.check[c])

Validate(p) ==
    /\ ~p.nil
    /\ \A q \in DOMAIN p.grants :
           q[2] # "" /\ validateSelectPerms(p.grants[q].select) /\ validateInsertPerms(p.grants[q].insert)

-----------------------------------------------------------------------------
(* The stream's reading of a filter.  A column's type says how its values  *)
(* compare; Opaque is no type knowledge.  A comparison is <<-1>>, <<0>>,   *)
(* <<1>>, or <<>> where it is refused.                                     *)

Type(kind, family, lo, hi, grain, precision, scale) ==
    [kind |-> kind, family |-> family, lo |-> lo, hi |-> hi, grain |-> grain,
     precision |-> precision, scale |-> scale]
Opaque == Type("opaque", "none", 0, 0, 1, 0, 0)
TextT == Type("text", "none", 0, 0, 1, 0, 0)
TimeT == Type("time", "none", 0, 0, 1, 0, 0)
IntT(lo, hi) == Type("numeric", "integer", lo, hi, 1, 0, 0)
FloatT(grain, hi) == Type("numeric", "float", -hi, hi, grain, 0, 0)
DecimalT(p, s) == Type("numeric", "decimal", 0, 0, 1, p, s)

integerInRange(type, c) == type.lo * 100 <= Hundredths(c) /\ Hundredths(c) <= type.hi * 100

decimalInPrecision(type, c) ==
    LET n == Abs(Hundredths(c)) \div 100
    IN  (IF n = 0 THEN 0 ELSE DigitsOf(n)) <= type.precision - type.scale

\* Round half to even, to the column's grain (in hundredths).
RoundTo(n, grain) ==
    LET q == n \div grain  r == n % grain
    IN  (IF 2 * r > grain \/ (2 * r = grain /\ q % 2 = 1) THEN q + 1 ELSE q) * grain

\* The value of the column's float domain, <<>> past its range.
narrowFloat(type, c) ==
    IF Abs(Hundredths(c)) > type.hi * 100 THEN <<>> ELSE <<RoundTo(Hundredths(c), type.grain)>>

\* Cut toward zero to the column's fraction digits.
truncateScale(type, c) ==
    LET n == Hundredths(c)  g == Pow10[2 - type.scale]
    IN  Sign(n) * (Abs(n) - (Abs(n) % g))

compareCanonicalDecimals(a, b) == Sign(Hundredths(a) - Hundredths(b))

\* Bug: the numbers are compared as written, not as the column stores them.
NumericCompareBug(type, a, b) ==
    CASE type.family = "none" -> <<>>
      [] OTHER -> <<compareCanonicalDecimals(a, b)>>

\* Both sides narrowed into the column's storage domain.
NumericCompare(type, a, b) ==
    CASE type.family = "integer" ->
             IF a.f > 0 \/ b.f > 0 \/ ~integerInRange(type, a) \/ ~integerInRange(type, b)
             THEN <<>> ELSE <<compareCanonicalDecimals(a, b)>>
      [] type.family = "float" ->
             LET of(fa, fb) == IF fa = <<>> \/ fb = <<>> THEN <<>> ELSE <<Sign(fa[1] - fb[1])>>
             IN  of(narrowFloat(type, a), narrowFloat(type, b))
      [] type.family = "decimal" ->
             IF ~decimalInPrecision(type, a) \/ ~decimalInPrecision(type, b) THEN <<>>
             ELSE <<Sign(truncateScale(type, a) - truncateScale(type, b))>>
      [] OTHER -> <<>>

compareScalar(v, s, type) ==
    CASE type.kind = "time" ->
             IF v.t \notin {"string", "number"} \/ Instant(v.s) < 0 \/ Instant(s) < 0 THEN <<>>
             ELSE <<Sign(Instant(v.s) - Instant(s))>>
      [] type.kind = "numeric" ->
             LET of(a, b) == IF a = <<>> \/ b = <<>> \/ (type.family = "integer" /\ b[1] # s) THEN <<>>
                             ELSE NumericCompare(type, a[1], b[1])
             IN  of(numericCanonical(v), CanonicalNumericLiteral(s))
      [] type.kind = "text" ->
             IF scalarString(v) = <<>> THEN <<>> ELSE <<Sign(Rank(v.s) - Rank(s))>>
      [] OTHER -> IF scalarString(v) = <<s>> THEN <<0>> ELSE <<>>

Holds(op, c) ==
    CASE op \in {"=", "in"} -> c = 0
      [] op = "!=" -> c # 0
      [] op = ">" -> c > 0
      [] OTHER -> c < 0

matches(pred, row, types) ==
    /\ pred.values # <<>> /\ pred.col \in DOMAIN row
    /\ LET type == IF pred.col \in DOMAIN types THEN types[pred.col] ELSE Opaque
           held(c) == c # <<>> /\ Holds(pred.op, c[1])
       IN  \E i \in (IF pred.op = "in" THEN DOMAIN pred.values ELSE {1}) :
               held(compareScalar(row[pred.col], pred.values[i], type))

RowVisible(rp, row, types) ==
    rp.allowed /\ ~rp.select.none /\ \A pred \in rp.select.rowFilter : matches(pred, row, types)

-----------------------------------------------------------------------------
(* ClickHouse, as the code relies on it: a row is stored in the columns'   *)
(* domains or not at all, and a WHERE clause compares the stored value     *)
(* with the constant cast from its spelling.                               *)

Storable(v, type) ==
    CASE type.kind = "numeric" ->
             LET c == numericCanonical(v)
             IN  /\ c # <<>>
                 /\ CASE type.family = "integer" -> c[1].f = 0 /\ integerInRange(type, c[1])
                      [] type.family = "float" -> narrowFloat(type, c[1]) # <<>>
                      [] OTHER -> decimalInPrecision(type, c[1])
      [] type.kind = "time" -> v.t \in {"string", "number"} /\ Instant(v.s) >= 0
      [] OTHER -> scalarString(v) # <<>>

CastError == 2

\* What the comparison may come to: an error answers no rows, and a constant
\* out of an integer column's range errs, is promoted, or wraps.
SQLCompare(v, s, type) ==
    CASE type.kind = "time" ->
             IF Instant(s) < 0 THEN {CastError} ELSE {Sign(Instant(v.s) - Instant(s))}
      [] type.kind = "text" -> {Sign(Rank(v.s) - Rank(s))}
      [] type.kind = "opaque" -> {Sign(Meaning(v.s) - Meaning(s))}
      [] s.k # "num" -> {CastError}
      [] type.family = "integer" ->
             LET a == Hundredths(numericCanonical(v)[1])
                 b == s.m * 100
                 span == (type.hi - type.lo + 1) * 100
             IN  IF s.f # 0 \/ s.x # 0 THEN {CastError}
                 ELSE IF integerInRange(type, s) THEN {Sign(a - b)}
                 ELSE {CastError, Sign(a - b), Sign(a - (((b - type.lo * 100) % span) + type.lo * 100))}
      [] canonicalDecimal(s) = <<>> -> {CastError, -1, 0, 1}
      [] type.family = "float" ->
             LET a == narrowFloat(type, numericCanonical(v)[1])[1]
                 b == narrowFloat(type, canonicalDecimal(s)[1])
             IN  IF b = <<>> THEN {-Sign(s.m)} ELSE {Sign(a - b[1])}
      [] OTHER ->
             LET a == truncateScale(type, numericCanonical(v)[1])
                 c == canonicalDecimal(s)[1]
             IN  IF decimalInPrecision(type, c) THEN {Sign(a - truncateScale(type, c))}
                 ELSE {Sign(a - Hundredths(c))}

\* The stored row is surely returned by a WHERE of these clauses; one that
\* errs returns none, which is not held against a caller without type knowledge.
WhereReturns(where, row, types, known) ==
    \A w \in where :
        /\ ~w.false /\ w.col \in DOMAIN row
        /\ LET outcomes(i) == SQLCompare(row[w.col], w.values[i], types[w.col])
           IN  /\ known => \A i \in DOMAIN w.values : CastError \notin outcomes(i)
               /\ \E i \in DOMAIN w.values : \A c \in outcomes(i) \ {CastError} : Holds(w.op, c)
=============================================================================
