--------------------------- MODULE PublishedModel ---------------------------
(***************************************************************************)
(* The loader of published revisions (published_model.rs) as operators on   *)
(* the rows of one revision: what each stage of load_published_internal      *)
(* refuses, and the snapshot it assembles.  The schema is that of all        *)
(* migrations.                                                              *)
(*                                                                         *)
(* A row is a record with its table and key; an id stands for the uuid and   *)
(* the semantic name of a model, a relationship and a metric.  Attributes    *)
(* that the loader copies and never looks at are left out.  The order of     *)
(* rows is left out too: normalized() sorts what the snapshot holds, and     *)
(* only the ordinals of writable fields put their names in an order.         *)
(***************************************************************************)
EXTENDS Naturals, FiniteSets, Sequences

RowsOf(rows, table) == {x \in rows : x.table = table}
Keys(rows, table) == {x.id : x \in RowsOf(rows, table)}

SchemaVersions == {"1", "2"}
FieldKinds == {"dimension", "entity_key", "time_dimension"}
DataTypes == {"boolean", "integer", "numeric", "text", "date", "timestamp",
              "timestamp_tz"}

\* parse_field_relationship: the field's relationship starts at its own model.
BoundElsewhere(rows, f) ==
    /\ f.via # "none"
    /\ ~\E r \in RowsOf(rows, "relationship") : r.id = f.via /\ r.from = f.model

\* load_fields.
FieldError(rows, f) ==
    IF f.model \notin Keys(rows, "model") THEN "unknown_model"
    ELSE IF f.calculated THEN "field_expression"
    ELSE IF BoundElsewhere(rows, f) THEN "field_relationship"
    ELSE IF f.kind \notin FieldKinds THEN "field_kind"
    ELSE IF f.type \notin DataTypes THEN "logical_type"
    ELSE "none"

\* load_metrics.
MetricError(rows, schema, m) ==
    IF m.model \notin Keys(rows, "model") THEN "unknown_model"
    ELSE IF m.version # "1" THEN "metric_expression"
    ELSE IF schema = "1" /\ m.anchor # "none" THEN "aggregation_anchor"
    ELSE IF m.type \notin DataTypes THEN "logical_type"
    ELSE "none"

ColumnsOf(rows, r) == {c \in RowsOf(rows, "column") : c.relationship = r.id}

\* The physical column behind a field, which a calculated one does not have.
HasColumn(rows, field) ==
    \E f \in RowsOf(rows, "field") : f.id = field /\ ~f.calculated

\* Variant: the first column pair of a relationship is taken for all of them.
RelationshipErrorFirst(rows, r) ==
    IF r.from \notin Keys(rows, "model") THEN "unknown_model"
    ELSE IF ~\E c \in ColumnsOf(rows, r) :
               c.ordinal = 1 /\ HasColumn(rows, c.from) /\ HasColumn(rows, c.to)
         THEN "relationship_columns"
    ELSE IF r.direction # "forward" \/ r.priority # 0 THEN "relationship_options"
    ELSE "none"

\* load_relationships: one joined row per column pair, by ordinal, or one without
\* a pair; the second row of a relationship is refused.
RelationshipError(rows, r) ==
    IF r.from \notin Keys(rows, "model") THEN "unknown_model"
    ELSE IF ~\E c \in ColumnsOf(rows, r) :
               c.ordinal = 1 /\ HasColumn(rows, c.from) /\ HasColumn(rows, c.to)
         THEN "relationship_columns"
    ELSE IF r.direction # "forward" \/ r.priority # 0 THEN "relationship_options"
    ELSE IF \E c, d \in ColumnsOf(rows, r) : c # d THEN "relationship_columns"
    ELSE "none"

NameOf(rows, field) == (CHOOSE f \in RowsOf(rows, "field") : f.id = field).name

WritableFields(rows, w) ==
    {x \in RowsOf(rows, "writable_field") : x.model = w.model}

\* load_writable_models.  An insertable field is looked up by name in its model.
WritableError(rows, w) ==
    IF w.model \notin Keys(rows, "model") THEN "writable"
    ELSE IF \E x \in WritableFields(rows, w) :
              /\ x.insertable
              /\ ~\E f \in RowsOf(rows, "field") :
                     f.model = w.model /\ f.name = NameOf(rows, x.field)
         THEN "writable"
    ELSE IF ~w.upsert /\ \E x \in WritableFields(rows, w) : x.conflict # 0
         THEN "writable"
    ELSE "none"

\* The stages of load_published_internal, in their order, with what each of
\* them may report.
Stages(rows, schema) ==
    << {IF schema \in SchemaVersions THEN "none" ELSE "schema_version"},
       {IF m.foreign THEN "source_database" ELSE "none" : m \in RowsOf(rows, "model")},
       {FieldError(rows, f) : f \in RowsOf(rows, "field")},
       {MetricError(rows, schema, m) : m \in RowsOf(rows, "metric")},
       {RelationshipError(rows, r) : r \in RowsOf(rows, "relationship")},
       {WritableError(rows, w) : w \in RowsOf(rows, "writable_model")} >>

\* The errors of the first stage that has one.
LoadErrors(rows, schema) ==
    LET failing == {i \in 1 .. 6 : Stages(rows, schema)[i] \ {"none"} # {}}
    IN  IF failing = {} THEN {}
        ELSE Stages(rows, schema)[CHOOSE i \in failing : \A j \in failing : i <= j]
                \ {"none"}

-----------------------------------------------------------------------------
(* The snapshot.                                                           *)

LoadedField(rows, f) ==
    [name |-> f.name, type |-> f.type, via |-> f.via,
     time |-> f.kind = "time_dimension", key |-> f.kind = "entity_key"]

\* Additivity is read for schema version 2 only.
LoadedMetric(rows, schema, m) ==
    [name |-> m.id,
     additivity |-> IF schema = "2" THEN m.additivity ELSE "none",
     anchor |-> IF m.anchor = "none" THEN "none" ELSE NameOf(rows, m.anchor)]

\* The one column pair, by the names of its fields.
LoadedRelationship(rows, r) ==
    LET c == CHOOSE c \in ColumnsOf(rows, r) : TRUE
    IN  [name |-> r.id, target |-> r.to, from |-> NameOf(rows, c.from),
         to |-> NameOf(rows, c.to)]

\* The policy; normalized() then sorts the conflict fields by name.  The order of
\* the returned names, which is that of their ordinals, is the set of the pairs
\* in it.
LoadedPolicy(rows, w) ==
    LET fields == WritableFields(rows, w)
        name(x) == NameOf(rows, x.field)
        field(x) == CHOOSE f \in RowsOf(rows, "field") :
                       f.model = w.model /\ f.name = name(x)
    IN  [insert |-> w.insert, upsert |-> w.upsert,
         fields |-> {[field |-> name(x), nullable |-> field(x).nullable] :
                        x \in {y \in fields : y.insertable}},
         conflict |-> {name(x) : x \in {y \in fields : y.conflict # 0}},
         returning |-> {<<name(p[1]), name(p[2])>> :
                           p \in {q \in fields \X fields :
                                    q[1].returning # 0 /\ q[1].returning <= q[2].returning}}]

\* At most one, as a set.
LoadedWritable(rows, model) ==
    {LoadedPolicy(rows, w) :
        w \in {x \in RowsOf(rows, "writable_model") : x.model = model}}

\* A model with what the stages have added to it.
LoadedModel(rows, schema, m) ==
    [name |-> m.id, writable |-> LoadedWritable(rows, m.id),
     fields |-> {LoadedField(rows, f) : f \in
                    {x \in RowsOf(rows, "field") : x.model = m.id}},
     metrics |-> {LoadedMetric(rows, schema, x) : x \in
                     {y \in RowsOf(rows, "metric") : y.model = m.id}},
     relationships |-> {LoadedRelationship(rows, r) : r \in
                           {x \in RowsOf(rows, "relationship") : x.from = m.id}}]

\* SemanticSnapshot::normalized of what the stages assembled.
Snapshot(rows, schema) ==
    [schema |-> schema,
     models |-> {LoadedModel(rows, schema, m) : m \in RowsOf(rows, "model")}]

-----------------------------------------------------------------------------
(* What a snapshot owes to the rows it was read from.                       *)

\* A row has its place in the snapshot.
Present(snapshot, rows, x) ==
    CASE x.table = "model" -> \E m \in snapshot.models : m.name = x.id
      [] x.table = "field" ->
            \E m \in snapshot.models : \E f \in m.fields :
                m.name = x.model /\ f.name = x.name /\ f.via = x.via
      [] x.table = "metric" ->
            \E m \in snapshot.models : \E y \in m.metrics :
                /\ m.name = x.model /\ y.name = x.id
                /\ x.anchor # "none" => y.anchor = NameOf(rows, x.anchor)
      [] x.table = "relationship" ->
            \E m \in snapshot.models : \E j \in m.relationships :
                m.name = x.from /\ j.name = x.id /\ j.target = x.to
      [] x.table = "column" ->
            \E m \in snapshot.models : \E j \in m.relationships :
                /\ j.name = x.relationship
                /\ j.from = NameOf(rows, x.from) /\ j.to = NameOf(rows, x.to)
      [] x.table = "writable_model" ->
            \E m \in snapshot.models : \E w \in m.writable :
                m.name = x.model /\ w.insert = x.insert /\ w.upsert = x.upsert
      [] x.table = "writable_field" ->
            \E m \in snapshot.models : \E w \in m.writable :
                LET name == NameOf(rows, x.field) IN
                /\ m.name = x.model
                /\ x.insertable => \E p \in w.fields : p.field = name
                /\ x.conflict # 0 => name \in w.conflict /\ w.upsert
                /\ x.returning # 0 => <<name, name>> \in w.returning

\* Nothing is in the snapshot without a row.
Stored(snapshot, rows) ==
    \A m \in snapshot.models :
        /\ m.name \in Keys(rows, "model")
        /\ \A f \in m.fields : \E x \in RowsOf(rows, "field") :
              x.model = m.name /\ x.name = f.name
        /\ \A y \in m.metrics : \E x \in RowsOf(rows, "metric") :
              x.model = m.name /\ x.id = y.name
        /\ \A j \in m.relationships : \E x \in RowsOf(rows, "relationship") :
              x.from = m.name /\ x.id = j.name

\* What the snapshot refers to by name is in it: the relationship of a field, the
\* target of a relationship, and the direct entity key that anchors a metric.
Closed(snapshot) ==
    \A m \in snapshot.models :
        /\ \A f \in m.fields : f.via # "none" => \E j \in m.relationships : j.name = f.via
        /\ \A j \in m.relationships : \E t \in snapshot.models : t.name = j.target
        /\ \A y \in m.metrics : y.anchor # "none" =>
              \E f \in m.fields : f.name = y.anchor /\ f.key /\ f.via = "none"

=============================================================================
