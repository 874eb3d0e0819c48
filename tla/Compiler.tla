------------------------------ MODULE Compiler -------------------------------
(***************************************************************************)
(* Logical semantic queries (lsq.rs) and their compiler (compiler.rs) as     *)
(* operators: what a document must satisfy, what the compiler refuses, and   *)
(* the statement it renders.                                                *)
(*                                                                         *)
(* A snapshot's models, fields, metrics and relationships are functions of   *)
(* their names; an optional value is a set of at most one element.  A filter *)
(* is a node [op, field, values, args].  A rendered statement is the         *)
(* structure of the SQL text: quoting, aliases and layout are left out.      *)
(***************************************************************************)
EXTENDS Integers, Sequences, FiniteSets, SequencesExt, FiniteSetsExt, Checks

CONSTANTS
    MaxLimit, MaxFilterDepth, MaxFilterNodes, MaxInValues,   \* of a document
    DefaultLimit, HardLimit                                   \* CompilerOptions

Literal(type, value) == [type |-> type, value |-> value, wellFormed |-> TRUE]

Comparisons == {"eq", "not_eq", "gt", "gte", "lt", "lte"}
Logical == {"and", "or", "not"}
TimeTypes == {"date", "timestamp", "timestamp_tz"}

-----------------------------------------------------------------------------
(* Documents: validate_query of lsq.rs.                                     *)

\* The nodes of a filter in the order validate_filter visits them, with their
\* depths.
RECURSIVE Visited(_, _)
Visited(f, depth) ==
    <<[node |-> f, depth |-> depth]>>
        \o FlattenSeq([i \in DOMAIN f.args |-> Visited(f.args[i], depth + 1)])

\* The nodes of a query's filter, in that order.
Nodes(q) == FlattenSeq(SetToSeq({Visited(f, 1) : f \in q.filters}))

NodesOf(q) == {n.node : n \in ToSet(Nodes(q))}

\* validate_filter, at the node visited as the i-th one.
NodeError(visit, i) ==
    LET f == visit.node IN
    IF visit.depth > MaxFilterDepth THEN "LSQ_FILTER_TOO_DEEP"
    ELSE IF i > MaxFilterNodes THEN "LSQ_FILTER_TOO_LARGE"
    ELSE IF f.op \in {"and", "or"}
         THEN Check(f.args # <<>>, "LSQ_EMPTY_LOGICAL_FILTER")
    ELSE IF f.op = "not" THEN "none"
    ELSE IF f.field = "" THEN "LSQ_EMPTY_REFERENCE"
    ELSE IF f.op = "in" /\ Len(f.values) \notin 1..MaxInValues
         THEN "LSQ_INVALID_IN_FILTER_SIZE"
    ELSE Check(\A j \in DOMAIN f.values : f.values[j].wellFormed,
               "LSQ_INVALID_LITERAL_VALUE")

\* References that must not be empty and must differ from the earlier ones.
ReferencesError(names, duplicate) ==
    FirstOf([i \in DOMAIN names |->
        IF names[i] = "" THEN "LSQ_EMPTY_REFERENCE"
        ELSE Check(\A j \in 1..(i - 1) : names[j] # names[i], duplicate)])

Projected(q) ==
    [i \in DOMAIN q.dimensions |-> q.dimensions[i].field] \o q.metrics

QueryError(q) ==
    IF q.schema_version # "1" THEN "LSQ_UNSUPPORTED_SCHEMA_VERSION"
    ELSE IF q.model = "" THEN "LSQ_EMPTY_MODEL"
    ELSE IF Projected(q) = <<>> THEN "LSQ_EMPTY_PROJECTION"
    ELSE IF ~(q.limit \subseteq 1..MaxLimit) THEN "LSQ_INVALID_LIMIT"
    ELSE Then(ReferencesError(Projected(q), "LSQ_DUPLICATE_REFERENCE"),
         Then(ReferencesError(q.order_by, "LSQ_DUPLICATE_ORDER_REFERENCE"),
              FirstOf([i \in DOMAIN Nodes(q) |-> NodeError(Nodes(q)[i], i)])))

-----------------------------------------------------------------------------
(* Validation: validate of compiler.rs.                                     *)

\* validate_literal: the literals a field of each type is compared with.
Comparable ==
    [boolean |-> {"boolean"}, integer |-> {"integer"},
     numeric |-> {"integer", "numeric"}, text |-> {"text"}, date |-> {"date"},
     timestamp |-> {"timestamp"}, timestamp_tz |-> {"date", "timestamp"}]

LiteralError(field, literal) ==
    Check(literal.type \in Comparable[field.data_type],
          "SEMANTIC_LITERAL_TYPE_MISMATCH")

\* expected_metric_type.
ExpectedType(aggregation, type) ==
    IF aggregation \in {"count", "count_distinct"} THEN "integer"
    ELSE IF aggregation = "avg" \/ (aggregation = "sum" /\ type = "integer")
         THEN "numeric"
    ELSE type

\* visible_field.
FieldFault(m, name) ==
    Check(name \in DOMAIN m.fields /\ m.fields[name].visible,
          "SEMANTIC_FIELD_NOT_AVAILABLE")

DimensionFault(m, d) ==
    Then(FieldFault(m, d.field),
         Check(d.time_grain # {}
                 => /\ m.fields[d.field].time_dimension
                    /\ m.fields[d.field].data_type \in TimeTypes,
               "SEMANTIC_INVALID_TIME_GRAIN"))

DirectKey(m, name) ==
    /\ name \in DOMAIN m.fields
    /\ m.fields[name].relationship = {} /\ m.fields[name].entity_key

\* The checks of one metric, those of its source field, filter and anchor
\* included.
MetricFault(s, m, name) ==
    IF name \notin DOMAIN m.metrics \/ ~m.metrics[name].visible
    THEN "SEMANTIC_METRIC_NOT_AVAILABLE"
    ELSE LET x == m.metrics[name] IN
         IF x.field \notin DOMAIN m.fields THEN "SEMANTIC_INVALID_METRIC_FIELD"
         ELSE IF m.fields[x.field].relationship # {}
              THEN "SEMANTIC_JOINED_METRIC_FIELD"
         ELSE IF x.aggregation = "count" /\ ~m.fields[x.field].entity_key
              THEN "SEMANTIC_COUNT_REQUIRES_ENTITY_KEY"
         ELSE IF x.aggregation = "count_distinct" /\ ~m.fields[x.field].entity_key
              THEN "SEMANTIC_COUNT_DISTINCT_REQUIRES_ENTITY_KEY"
         ELSE IF x.data_type
                   # ExpectedType(x.aggregation, m.fields[x.field].data_type)
              THEN "SEMANTIC_INVALID_METRIC_TYPE"
         ELSE Then(SomeOf({IF c.field \notin DOMAIN m.fields
                           THEN "SEMANTIC_INVALID_METRIC_FIELD"
                           ELSE LiteralError(m.fields[c.field], c.value) :
                           c \in x.filter}),
              IF s.schema_version = "1" /\ (x.additivity # {} \/ x.anchor # {})
              THEN "SEMANTIC_INVALID_AGGREGATION_ANCHOR"
              ELSE IF s.schema_version = "2" /\ x.additivity = {}
                   THEN "SEMANTIC_MISSING_METRIC_METADATA"
              ELSE Check(\A a \in x.anchor : DirectKey(m, a),
                         "SEMANTIC_INVALID_AGGREGATION_ANCHOR"))

\* resolve_filter, at one node.
FilterFault(m, f) ==
    IF f.op \in Logical THEN "none"
    ELSE Then(FieldFault(m, f.field),
              FirstOf([i \in DOMAIN f.values |->
                         LiteralError(m.fields[f.field], f.values[i])]))

\* The fields whose relationships a query joins: record_relationship.
UsedFields(m, q) ==
    {q.dimensions[i].field : i \in DOMAIN q.dimensions}
        \cup UNION {{c.field : c \in m.metrics[q.metrics[i]].filter} :
                    i \in DOMAIN q.metrics}
        \cup {f.field : f \in {n \in NodesOf(q) : n.op \notin Logical}}

Required(m, q) == UNION {m.fields[f].relationship : f \in UsedFields(m, q)}

KeyColumn(m, column) ==
    \E f \in DOMAIN m.fields : DirectKey(m, f) /\ m.fields[f].column = column

\* The checks of one joined relationship.
RelationshipFault(s, m, r) ==
    IF r \notin DOMAIN m.relationships
    THEN "SEMANTIC_RELATIONSHIP_NOT_AVAILABLE"
    ELSE LET x == m.relationships[r] IN
         IF x.cardinality = "many_to_many" THEN "SEMANTIC_UNSAFE_RELATIONSHIP"
         ELSE IF \/ x.target_model \notin DOMAIN s.models
                 \/ s.models[x.target_model].source # x.target
              THEN "SEMANTIC_INVALID_RELATIONSHIP_TARGET"
         ELSE IF x.cardinality = "one_to_many"
              THEN Check(KeyColumn(m, x.from_column),
                         "SEMANTIC_INVALID_AGGREGATION_ANCHOR")
         ELSE Check(KeyColumn(s.models[x.target_model], x.to_column),
                    "SEMANTIC_RELATIONSHIP_TARGET_NOT_ENTITY_KEY")

FansOut(m, q) ==
    \E r \in Required(m, q) : m.relationships[r].cardinality = "one_to_many"

\* Variant: a metric without an anchor may be projected beside a fan-out.
FanoutFaultUnanchored(m, q) ==
    IF ~FansOut(m, q) THEN "none"
    ELSE Check(q.metrics # <<>>, "SEMANTIC_UNSAFE_RELATIONSHIP")

\* What a query that joins a one-to-many relationship must satisfy.
FanoutFault(m, q) ==
    LET metric(i) == m.metrics[q.metrics[i]]
        fault(i) ==
            IF metric(i).anchor = {} THEN "SEMANTIC_MISSING_AGGREGATION_ANCHOR"
            ELSE IF \E c \in metric(i).filter :
                       m.fields[c.field].relationship # {}
                 THEN "SEMANTIC_JOINED_METRIC_FILTER"
            ELSE IF metric(i).additivity = {"semi_additive"}
                 THEN "SEMANTIC_UNSUPPORTED_FANOUT_ADDITIVITY"
            ELSE Check(i = 1 \/ metric(i).anchor = metric(1).anchor,
                       "SEMANTIC_MIXED_AGGREGATION_ANCHORS")
    IN  IF ~FansOut(m, q) THEN "none"
        ELSE IF q.metrics = <<>> THEN "SEMANTIC_UNSAFE_RELATIONSHIP"
        ELSE FirstOf([i \in DOMAIN q.metrics |-> fault(i)])

\* A node that render_filter compares at midnight of the model's time zone.
AtMidnight(m, f, literal) ==
    /\ f.op \in Comparisons
    /\ m.fields[f.field].data_type = "timestamp_tz" /\ literal.type = "date"

\* render_dimension and render_filter: what needs a time zone of the model.
ZoneFault(m, q) ==
    Check(\/ m.timezone # {}
          \/ /\ \A i \in DOMAIN q.dimensions :
                   q.dimensions[i].time_grain # {}
                     => m.fields[q.dimensions[i].field].data_type
                          # "timestamp_tz"
             /\ \A f \in NodesOf(q) : \A i \in DOMAIN f.values :
                   ~AtMidnight(m, f, f.values[i]),
          "SEMANTIC_MISSING_TIMEZONE")

\* The checks of the snapshot itself, which compile_lsm makes too.
SnapshotError(s) ==
    IF s.schema_version \notin {"1", "2"}
    THEN "SEMANTIC_UNSUPPORTED_SNAPSHOT_VERSION"
    ELSE Check(s.hashed, "SEMANTIC_INVALID_REVISION_HASH")

LimitOf(q) == IF q.limit = {} THEN DefaultLimit ELSE CHOOSE n \in q.limit : TRUE

\* compile_lsq: the first refusal of validate and render.
CompileError(q, s) ==
    Then(SnapshotError(s),
    Then(Check(DefaultLimit \in 1..HardLimit,
               "COMPILER_INVALID_LIMIT_CONFIGURATION"),
    IF q.model \notin DOMAIN s.models \/ ~s.models[q.model].queryable
    THEN "SEMANTIC_MODEL_NOT_AVAILABLE"
    ELSE LET m == s.models[q.model] IN
    Then(Check(LimitOf(q) <= HardLimit, "COMPILER_LIMIT_EXCEEDED"),
    Then(FirstOf([i \in DOMAIN q.dimensions |->
                    DimensionFault(m, q.dimensions[i])]),
    Then(FirstOf([i \in DOMAIN q.metrics |-> MetricFault(s, m, q.metrics[i])]),
    Then(FirstOf([i \in DOMAIN Nodes(q) |-> FilterFault(m, Nodes(q)[i].node)]),
    Then(Check(ToSet(q.order_by) \subseteq ToSet(Projected(q)),
               "SEMANTIC_ORDER_REFERENCE_NOT_PROJECTED"),
    Then(SomeOf({RelationshipFault(s, m, r) : r \in Required(m, q)}),
    Then(FanoutFault(m, q), ZoneFault(m, q))))))))))

-----------------------------------------------------------------------------
(* Rendering: render of compiler.rs.                                        *)

\* render_field: a column of the model's relation, or of a joined one.
ColumnRef(m, name) ==
    [via |-> m.fields[name].relationship, column |-> m.fields[name].column]

\* A literal as the statement holds it: cast to the type of its field, which
\* reads a date at midnight of the session's zone, or taken at midnight of the
\* model's time zone.
Operand(m, f, literal) ==
    [literal |-> literal, type |-> m.fields[f.field].data_type,
     zone |-> IF AtMidnight(m, f, literal) THEN m.timezone ELSE {}]

\* render_filter and render_logical.
RECURSIVE Predicate(_, _)
Predicate(m, f) ==
    [op |-> f.op,
     at |-> IF f.op \in Logical THEN {} ELSE {ColumnRef(m, f.field)},
     operands |-> [i \in DOMAIN f.values |-> Operand(m, f, f.values[i])],
     args |-> [i \in DOMAIN f.args |-> Predicate(m, f.args[i])]]

\* A metric's filter compares its field with a value by =; it is rendered by
\* render_metric and render_anchor_metric_input as a cast.
MetricPredicate(m, c) ==
    [op |-> "eq", at |-> {ColumnRef(m, c.field)}, args |-> <<>>,
     operands |-> <<[literal |-> c.value, zone |-> {},
                     type |-> m.fields[c.field].data_type]>>]

\* push_parameter: a value that was pushed with the same type keeps its position.
PushParameter(parameters, p) ==
    IF p \in ToSet(parameters) THEN parameters ELSE Append(parameters, p)

\* The parameters, by position: time zones of dimensions, values of metric
\* filters, then those of the filter, and the limit.
Parameters(m, q) ==
    LET zone == [i \in 1..Cardinality(m.timezone) |->
                   [type |-> "text",
                    value |-> Literal("text", CHOOSE z \in m.timezone : TRUE)]]
        dimension(d) ==
            IF d.time_grain # {} /\ m.fields[d.field].data_type = "timestamp_tz"
            THEN zone ELSE <<>>
        metric(name) ==
            SetToSeq({[type |-> m.fields[c.field].data_type, value |-> c.value] :
                      c \in m.metrics[name].filter})
        value(f, l) ==
            IF AtMidnight(m, f, l)
            THEN Append(zone, [type |-> l.type, value |-> l])
            ELSE <<[type |-> m.fields[f.field].data_type, value |-> l]>>
        node(f) == FlattenSeq([i \in DOMAIN f.values |-> value(f, f.values[i])])
    IN  FoldLeft(PushParameter, <<>>,
          FlattenSeq([i \in DOMAIN q.dimensions |-> dimension(q.dimensions[i])])
          \o FlattenSeq([i \in DOMAIN q.metrics |-> metric(q.metrics[i])])
          \o FlattenSeq([i \in DOMAIN Nodes(q) |-> node(Nodes(q)[i].node)])
          \o <<[type |-> "integer", value |-> Literal("integer", LimitOf(q))]>>)

\* render: the statement of an accepted query.  It has two stages when the query
\* fans out: render_anchored_sql, else render_flat_sql.
Statement(q, s) ==
    LET m == s.models[q.model]
        joined == Required(m, q)
    IN  [base |-> m.source,
         joins |-> [r \in joined |-> m.relationships[r]],
         dims |-> [i \in DOMAIN q.dimensions |->
                     [at |-> ColumnRef(m, q.dimensions[i].field),
                      grain |-> q.dimensions[i].time_grain,
                      zone |-> IF m.fields[q.dimensions[i].field].data_type
                                    = "timestamp_tz"
                               THEN m.timezone ELSE {}]],
         metrics |-> [i \in DOMAIN q.metrics |->
                        LET x == m.metrics[q.metrics[i]] IN
                        [aggregation |-> x.aggregation,
                         at |-> ColumnRef(m, x.field),
                         filter |-> {MetricPredicate(m, c) : c \in x.filter}]],
         where |-> {Predicate(m, f) : f \in q.filters},
         anchor |-> IF FansOut(m, q)
                    THEN {ColumnRef(m, a) : a \in m.metrics[q.metrics[1]].anchor}
                    ELSE {},
         order_by |-> q.order_by,
         parameters |-> Parameters(m, q),
         models |-> {q.model} \cup {m.relationships[r].target_model : r \in joined},
         columns |-> [i \in DOMAIN q.dimensions |->
                        <<q.dimensions[i].field,
                          IF q.dimensions[i].time_grain # {} THEN "date"
                          ELSE m.fields[q.dimensions[i].field].data_type>>]
                     \o [i \in DOMAIN q.metrics |->
                           <<q.metrics[i], m.metrics[q.metrics[i]].data_type>>]]
=============================================================================
