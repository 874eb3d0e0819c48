--------------------------------- MODULE Osi ----------------------------------
(***************************************************************************)
(* Import and export of OSI documents (osi.rs).  A document is               *)
(* [parses, extensions, semantic_model], its lists are sequences; extensions  *)
(* says whether there are custom ones.  A source is the sequence of its parts *)
(* and an expression [ansi, ...] is one expression in ANSI SQL or not, with    *)
(* the column it names or the aggregate parse_metric_expression finds in it.   *)
(* Descriptions, AI context and the warnings about them are left out.         *)
(***************************************************************************)
EXTENDS Catalog, SequencesExt

\* The sequence has names of its own.
UniqueNames(items) == IsInjective([i \in DOMAIN items |-> items[i].name])

Named(items, name) == CHOOSE x \in ToSet(items) : x.name = name

Names(items) == {x.name : x \in ToSet(items)}

\* A set as the list of its members.
Listed(S) == FoldSet(LAMBDA x, list : Append(list, x), <<>>, S)

-----------------------------------------------------------------------------
(* import.                                                                  *)

\* select_semantic_model: the one asked for, or the only one.
Candidates(doc, selected) ==
    IF selected = {} THEN ToSet(doc.semantic_model)
    ELSE {m \in ToSet(doc.semantic_model) : m.name \in selected}

ChoiceFault(doc, selected) ==
    IF selected = {} THEN Check(Len(doc.semantic_model) = 1, "ambiguous_model")
    ELSE Check(Candidates(doc, selected) # {}, "model_not_found")

\* parse_source: schema.relation or database.schema.relation.
SourceKey(source) == <<source[Len(source) - 1], source[Len(source)]>>

SourceFault(source, c) ==
    IF Len(source) \notin {2, 3} THEN "invalid_source"
    ELSE IF ~(ToSet(SourceKey(source)) \subseteq Portable) THEN "invalid_source"
    ELSE Check(Len(source) = 2 \/ source[1] = c.database, "database_mismatch")

\* The constraints of a kind that PostgreSQL enforces for every row.
Enforced(relation, kind) ==
    {k \in {relation.constraints[n] :
               n \in {m \in DOMAIN relation.constraints : m[1] = kind}} :
        k.enforced /\ k.validated /\ ~k.period}

\* catalog_primary_key.
CatalogKey(relation) ==
    LET keys == {k.columns : k \in Enforced(relation, "primary_key")}
    IN  IF keys = {} THEN <<>> ELSE CHOOSE k \in keys : TRUE

\* The i-th field of a dataset, over its relation.
OsiFieldFault(ds, i, relation) ==
    LET f == ds.fields[i]
        name == f.expression.column
        type == PostgresDataType(relation.columns[name].data_type)
    IN  IF f.name \notin Portable THEN "invalid_identifier"
        ELSE IF \E j \in 1..(i - 1) : ds.fields[j].name = f.name THEN "duplicate_name"
        ELSE IF f.extensions THEN "unsupported_extension"
        ELSE IF ~f.expression.ansi \/ name \notin Portable
             THEN "unsupported_expression"
        ELSE IF name \notin Readable(relation) THEN "column_not_available"
        ELSE IF type = {} THEN "unsupported_postgres_type"
        ELSE Check(f.is_time => type \subseteq {"date", "timestamp"},
                   "invalid_time_dimension")

\* The part of import_dataset after the relation is found.
RelationFault(ds, relation) ==
    LET key == CatalogKey(relation) IN
    FirstOf(<<
        Check(/\ relation.grants.schema_usage
              /\ relation.grants.table_select \/ relation.grants.any_column_select,
              "relation_not_selectable"),
        Check(ds.primary_key \in {<<>>, key}, "primary_key_mismatch"),
        Check(Len(key) <= 1, "composite_primary_key")>>
      \o [i \in DOMAIN ds.fields |-> OsiFieldFault(ds, i, relation)]
      \o <<Check(ToSet(key) \subseteq {f.expression.column : f \in ToSet(ds.fields)},
                 "primary_key_mismatch")>>)

\* import_dataset, of the i-th dataset.
DatasetFault(m, i, c) ==
    LET ds == m.datasets[i]
        header == FirstOf(<<
            Check(ds.name \in Portable, "invalid_identifier"),
            Check(\A j \in 1..(i - 1) : m.datasets[j].name # ds.name, "duplicate_name"),
            Check(~ds.extensions, "unsupported_extension"),
            Check(~ds.unique_keys, "unsupported_unique_keys"),
            SourceFault(ds.source, c)>>)
    IN  Then(header,
             IF SourceKey(ds.source) \notin DOMAIN c.relations
             THEN "relation_not_found"
             ELSE RelationFault(ds, c.relations[SourceKey(ds.source)]))

\* The fields of a dataset's own columns; the key is the catalog's.
OwnFields(ds, c) ==
    LET relation == c.relations[SourceKey(ds.source)] IN
    [n \in Names(ds.fields) |->
        LET f == Named(ds.fields, n)
            column == relation.columns[f.expression.column]
        IN  [data_type |-> CHOOSE t \in PostgresDataType(column.data_type) : TRUE,
             column |-> f.expression.column, relationship |-> {},
             time_dimension |-> f.is_time, visible |-> TRUE,
             entity_key |-> CatalogKey(relation) = <<f.expression.column>>,
             nullable |-> column.nullable]]

\* import_relationship: the fields of the target seen through a relationship.
ProjectedFields(m, r, c) ==
    LET own == OwnFields(Named(m.datasets, r.to), c)
        projected(n) == r.name \o "_" \o n
    IN  [p \in {projected(n) : n \in DOMAIN own} |->
            [own[CHOOSE n \in DOMAIN own : projected(n) = p]
                EXCEPT !.relationship = {r.name}, !.entity_key = FALSE]]

\* import_relationship, of the i-th relationship.
OsiRelationshipFault(m, i, c) ==
    LET r == m.relationships[i]
        target == Named(m.datasets, r.to)
        origin == Named(m.datasets, r.from)
        columns(ds) == {f.expression.column : f \in ToSet(ds.fields)}
        taken == DOMAIN OwnFields(origin, c)
                 \cup UNION {DOMAIN ProjectedFields(m, m.relationships[j], c) :
                                j \in {k \in 1..(i - 1) :
                                          m.relationships[k].from = r.from}}
        key == CatalogKey(c.relations[SourceKey(target.source)])
        backed == \E k \in Enforced(c.relations[SourceKey(origin.source)],
                                    "foreign_key") :
                     /\ k.columns = r.from_columns
                     /\ k.target = SourceKey(target.source)
                     /\ k.referenced = r.to_columns
    IN  IF r.name \notin Portable THEN "invalid_identifier"
        ELSE IF r.extensions THEN "unsupported_extension"
        ELSE IF Len(r.from_columns) # 1 \/ Len(r.to_columns) # 1
             THEN "composite_relationship"
        ELSE IF ~({r.from, r.to} \subseteq Names(m.datasets))
             THEN "invalid_relationship"
        ELSE Check(/\ r.to_columns = key /\ ToSet(r.to_columns) \subseteq columns(target)
                   /\ ToSet(r.from_columns) \subseteq columns(origin)
                   /\ backed
                   /\ DOMAIN ProjectedFields(m, r, c) \cap taken = {},
                   "invalid_relationship")

\* aggregate_supports_type and expected_metric_type.
AggregateSupports(aggregation, type) ==
    \/ aggregation \in {"count", "count_distinct"}
    \/ aggregation \in {"sum", "avg"} /\ type \in {"integer", "numeric"}
    \/ aggregation \in {"min", "max"} /\ type # "boolean"

MetricType(aggregation, type) ==
    IF aggregation \in {"count", "count_distinct"} THEN "integer"
    ELSE IF aggregation = "avg" \/ (aggregation = "sum" /\ type = "integer")
         THEN "numeric"
    ELSE type

\* import_metric.
OsiMetricFault(m, x, c) ==
    LET e == x.expression
        field == OwnFields(Named(m.datasets, e.dataset), c)[e.field]
    IN  IF x.name \notin Portable THEN "invalid_identifier"
        ELSE IF x.extensions THEN "unsupported_extension"
        ELSE IF ~e.ansi THEN "unsupported_expression"
        ELSE IF \/ ~e.parses \/ e.dataset \notin Names(m.datasets)
             THEN "unsupported_metric_expression"
        ELSE IF e.field \notin Names(Named(m.datasets, e.dataset).fields)
             THEN "unsupported_metric_expression"
        ELSE IF e.aggregation \in {"count", "count_distinct"} /\ ~field.entity_key
             THEN "count_requires_entity_key"
        ELSE Check(AggregateSupports(e.aggregation, field.data_type),
                   "unsupported_metric_expression")

ImportFault(doc, c, selected) ==
    LET m == CHOOSE x \in Candidates(doc, selected) : TRUE
        header == FirstOf(<<
            Check(doc.parses, "parse"),
            Check(~doc.extensions, "unsupported_extension"),
            Check(UniqueNames(doc.semantic_model), "duplicate_name"),
            ChoiceFault(doc, selected)>>)
        evidence == FirstOf(<<
            Check(m.name \in Portable, "invalid_identifier"),
            Check(~m.extensions, "unsupported_extension"),
            Check(CatalogFault(c) = "none", "invalid_catalog")>>)
        datasets == FirstOf([i \in DOMAIN m.datasets |-> DatasetFault(m, i, c)])
        names == Check(UniqueNames(m.relationships) /\ UniqueNames(m.metrics),
                       "duplicate_name")
        edges == FirstOf([i \in DOMAIN m.relationships |->
                              OsiRelationshipFault(m, i, c)])
        metrics == FirstOf([i \in DOMAIN m.metrics |->
                              OsiMetricFault(m, m.metrics[i], c)])
    IN  Then(header, Then(evidence, Then(datasets, Then(names, Then(edges, metrics)))))

\* The model of a dataset with what its relationships and metrics add.
ImportedModel(m, ds, c) ==
    LET from == SelectSeq(m.relationships, LAMBDA r : r.from = ds.name)
        over == SelectSeq(m.metrics, LAMBDA x : x.expression.dataset = ds.name)
        own == OwnFields(ds, c)
    IN  [source |-> SourceKey(ds.source), timezone |-> {}, queryable |-> TRUE,
         writable |-> {},
         fields |-> FoldSeq(LAMBDA r, f : f @@ ProjectedFields(m, r, c), own, from),
         metrics |-> [n \in Names(over) |->
            LET e == Named(over, n).expression IN
            [data_type |-> MetricType(e.aggregation, own[e.field].data_type),
             aggregation |-> e.aggregation, field |-> e.field, filter |-> {},
             additivity |-> {}, anchor |-> {}, visible |-> TRUE]],
         relationships |-> [n \in Names(from) |->
            LET r == Named(from, n) IN
            [target_model |-> r.to, target |-> SourceKey(Named(m.datasets, r.to).source),
             cardinality |-> "many_to_one", join_type |-> "left",
             from_column |-> r.from_columns[1], to_column |-> r.to_columns[1]]]]

Import(doc, c, selected) ==
    LET m == CHOOSE x \in Candidates(doc, selected) : TRUE IN
    [schema_version |-> "1", hashed |-> TRUE,
     models |-> [n \in Names(m.datasets) |->
                    ImportedModel(m, Named(m.datasets, n), c)]]

-----------------------------------------------------------------------------
(* export.                                                                  *)

\* What a document cannot say of a model.
Inexpressible(m) ==
    \/ ~m.queryable \/ m.writable # {} \/ m.timezone # {}
    \/ \E n \in DOMAIN m.fields : ~m.fields[n].visible
    \/ \E n \in DOMAIN m.relationships :
          \/ m.relationships[n].cardinality # "many_to_one"
          \/ m.relationships[n].join_type # "left"
    \/ \E n \in DOMAIN m.metrics :
          \/ ~m.metrics[n].visible
          \/ m.metrics[n].filter \cup m.metrics[n].additivity
                \cup m.metrics[n].anchor # {}

\* Variant: the key is named by its field instead of its column.
ExportDatasetByField(name, m) ==
    LET own == {n \in DOMAIN m.fields : m.fields[n].relationship = {}} IN
    [name |-> name, source |-> m.source, unique_keys |-> FALSE, extensions |-> FALSE,
     primary_key |-> Listed({n \in own : m.fields[n].entity_key}),
     fields |-> Listed({[name |-> n, is_time |-> m.fields[n].time_dimension,
                           expression |-> [ansi |-> TRUE,
                                           column |-> m.fields[n].column],
                           extensions |-> FALSE] : n \in own})]

\* The fields behind relationships are left to import to derive again.
ExportDataset(name, m) ==
    LET own == {n \in DOMAIN m.fields : m.fields[n].relationship = {}} IN
    [name |-> name, source |-> m.source, unique_keys |-> FALSE, extensions |-> FALSE,
     primary_key |-> Listed({m.fields[n].column :
                                  n \in {k \in own : m.fields[k].entity_key}}),
     fields |-> Listed({[name |-> n, is_time |-> m.fields[n].time_dimension,
                           expression |-> [ansi |-> TRUE,
                                           column |-> m.fields[n].column],
                           extensions |-> FALSE] : n \in own})]

ExportDocument(s, name) ==
    [parses |-> TRUE, extensions |-> FALSE, semantic_model |-> <<
      [name |-> name, extensions |-> FALSE,
       datasets |-> Listed({ExportDataset(n, s.models[n]) : n \in DOMAIN s.models}),
       relationships |-> Listed(UNION {
          {LET r == s.models[n].relationships[k] IN
           [name |-> k, from |-> n, to |-> r.target_model, extensions |-> FALSE,
            from_columns |-> <<r.from_column>>, to_columns |-> <<r.to_column>>] :
              k \in DOMAIN s.models[n].relationships} : n \in DOMAIN s.models}),
       metrics |-> Listed(UNION {
          {LET x == s.models[n].metrics[k] IN
           [name |-> k, extensions |-> FALSE,
            expression |-> [ansi |-> TRUE, parses |-> TRUE, dataset |-> n,
                            aggregation |-> x.aggregation, field |-> x.field]] :
              k \in DOMAIN s.models[n].metrics} : n \in DOMAIN s.models})]>>]

\* Nullability is not written to a file: there every field reads as nullable.
Saved(s) ==
    [s EXCEPT !.models = [n \in DOMAIN @ |->
        [@[n] EXCEPT !.fields = [f \in DOMAIN @ |-> [@[f] EXCEPT !.nullable = TRUE]]]]]

\* export_json of a saved snapshot: the document is imported again, and must give
\* the snapshot back but for the nullability the file has lost.
ExportFault(s, c, name) ==
    LET doc == ExportDocument(s, name) IN
    Then(FirstOf(<<
             Check(s.schema_version = "1", "unsupported_version"),
             Check(s.hashed, "invalid_revision_hash"),
             Check(DOMAIN s.models # {}, "unsupported_semantics"),
             Check(\A n \in DOMAIN s.models : ~Inexpressible(s.models[n]),
                   "unsupported_semantics")>>),
         Then(Check(ImportFault(doc, c, {}) = "none", "validation"),
              Check(Saved(Import(doc, c, {})) = Saved(s), "round_trip_mismatch")))
=============================================================================
