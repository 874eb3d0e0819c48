--------------------------------- MODULE Sql ---------------------------------
(***************************************************************************)
(* What PostgreSQL computes for the statements that Compiler renders, over a *)
(* small database: a function of relation names to sets of rows, a row being *)
(* a function of column names to integers.  Instants are counted in hours of *)
(* which a day has Day, and a time zone is its offset in hours.              *)
(***************************************************************************)
EXTENDS Integers, FiniteSets, Sequences, FiniteSetsExt, Folds

CONSTANTS Day, SessionZone   \* SessionZone: the offset of the TimeZone setting

Null == -1

Value(row, column) == IF column \in DOMAIN row THEN row[column] ELSE Null

\* Midnight of a date in a time zone.
Midnight(date, zone) == date * Day - zone

\* A literal cast to the type of the column it is compared with.
OperandValue(o) ==
    IF o.type = "timestamp_tz" /\ o.literal.type = "date"
    THEN Midnight(o.literal.value,
                  IF o.zone = {} THEN SessionZone ELSE CHOOSE z \in o.zone : TRUE)
    ELSE o.literal.value

\* date_trunc to days or to months of two days, after the shift to a zone.
Truncated(x, grain, zone) ==
    LET local == x + (IF zone = {} THEN 0 ELSE CHOOSE z \in zone : TRUE)
        day == local \div Day
    IN  IF x = Null THEN Null
        ELSE IF "month" \in grain THEN (day \div 2) * 2 ELSE day

-----------------------------------------------------------------------------
(* FROM, joins and WHERE.                                                   *)

Matches(db, join, row) ==
    {r \in db[join.target] : /\ Value(row, join.from_column) # Null
                             /\ Value(row, join.from_column)
                                  = Value(r, join.to_column)}

\* A left join keeps a row without a match, beside a row of nulls.
Partners(db, join, row) ==
    IF join.join_type = "left" /\ Matches(db, join, row) = {} THEN {<<>>}
    ELSE Matches(db, join, row)

Joined(p, db) ==
    LET all == {<<>>} \cup UNION {db[p.joins[r].target] : r \in DOMAIN p.joins}
        beside(row) == {via \in [DOMAIN p.joins -> all] :
                          \A r \in DOMAIN p.joins :
                             via[r] \in Partners(db, p.joins[r], row)}
    IN  UNION {{[base |-> row, via |-> via] : via \in beside(row)} :
               row \in db[p.base]}

At(row, ref) ==
    IF ref.via = {} THEN Value(row.base, ref.column)
    ELSE Value(row.via[CHOOSE r \in ref.via : TRUE], ref.column)

\* Truth values: 0 false, 1 unknown, 2 true.
Comparison(op, x, y) ==
    IF x = Null \/ y = Null THEN 1
    ELSE IF CASE op = "eq" -> x = y   [] op = "not_eq" -> x # y
              [] op = "gt" -> x > y   [] op = "gte" -> x >= y
              [] op = "lt" -> x < y   [] op = "lte" -> x <= y
         THEN 2 ELSE 0

RECURSIVE Truth(_, _)
Truth(f, row) ==
    LET args == {Truth(f.args[i], row) : i \in DOMAIN f.args}
        x == At(row, CHOOSE a \in f.at : TRUE)
        y(i) == OperandValue(f.operands[i])
    IN  CASE f.op = "and" -> Min(args)
          [] f.op = "or" -> Max(args)
          [] f.op = "not" -> 2 - Min(args)
          [] f.op = "is_null" -> IF x = Null THEN 2 ELSE 0
          [] f.op = "is_not_null" -> IF x = Null THEN 0 ELSE 2
          [] f.op = "in" ->
               Max({Comparison("eq", x, y(i)) : i \in DOMAIN f.operands})
          [] OTHER -> Comparison(f.op, x, y(1))

Holds(filters, row) == \A f \in filters : Truth(f, row) = 2

Selected(p, db) == {row \in Joined(p, db) : Holds(p.where, row)}

-----------------------------------------------------------------------------
(* Groups and aggregates.                                                   *)

Key(p, row) ==
    [i \in DOMAIN p.dims |->
        LET d == p.dims[i] IN
        IF d.grain = {} THEN At(row, d.at) ELSE Truncated(At(row, d.at), d.grain, d.zone)]

\* Without GROUP BY there is one group, of no rows perhaps.
Groups(p, keys) == IF p.dims = <<>> THEN {<<>>} ELSE keys

\* An aggregate of the inputs of a set of rows, a function of the rows, nulls
\* left out; an average is the pair of its sum and its count.
Aggregate(aggregation, input) ==
    LET known == {r \in DOMAIN input : input[r] # Null}
        values == {input[r] : r \in known}
        total == MapThenSumSet(LAMBDA r : input[r], known)
    IN  CASE aggregation = "count" -> <<Cardinality(known)>>
          [] aggregation = "count_distinct" -> <<Cardinality(values)>>
          [] values = {} -> <<Null>>
          [] aggregation = "sum" -> <<total>>
          [] aggregation = "min" -> <<Min(values)>>
          [] aggregation = "max" -> <<Max(values)>>
          [] aggregation = "avg" -> <<total, Cardinality(known)>>

\* One SELECT with FILTER clauses, as render_flat_sql writes it.
FlatResult(p, rows) ==
    [g \in Groups(p, {Key(p, r) : r \in rows}) |->
        [i \in DOMAIN p.metrics |->
            LET x == p.metrics[i]
                counted == {r \in rows : Key(p, r) = g /\ Holds(x.filter, r)}
            IN  Aggregate(x.aggregation, [r \in counted |-> At(r, x.at)])]]

\* The two stages of render_anchored_sql: the inner one groups by the dimensions
\* and the anchor and keeps the greatest input, the outer one aggregates.
AnchoredResult(p, rows) ==
    LET anchor == CHOOSE a \in p.anchor : TRUE
        cells == {<<Key(p, r), At(r, anchor)>> : r \in rows}
        of(c) == {r \in rows : Key(p, r) = c[1] /\ At(r, anchor) = c[2]}
        reduced(x, c) ==
            Max({Null} \cup {At(r, x.at) : r \in {s \in of(c) : Holds(x.filter, s)}})
    IN  [g \in Groups(p, {c[1] : c \in cells}) |->
            [i \in DOMAIN p.metrics |->
                LET x == p.metrics[i]
                    counted == {c \in cells : c[1] = g}
                IN  Aggregate(x.aggregation, [c \in counted |-> reduced(x, c)])]]

Result(p, db) ==
    IF p.anchor = {} THEN FlatResult(p, Selected(p, db))
    ELSE AnchoredResult(p, Selected(p, db))
=============================================================================
