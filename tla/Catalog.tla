------------------------------- MODULE Catalog --------------------------------
(***************************************************************************)
(* Evidence about the source database: the snapshot of its catalog, the      *)
(* comparison of two such snapshots (catalog_diff.rs) and the semantic        *)
(* snapshot that scaffold derives from one (authoring.rs).                   *)
(*                                                                         *)
(* A catalog's relations are a function of <<schema, name>>, its functions of *)
(* their signatures, the columns and policies of a relation functions of      *)
(* names and its constraints of <<kind, name>>: the sorting of normalize is   *)
(* in the type.  The fingerprint is the flag sealed: it is the hash of the    *)
(* contents, or not.  Names are values; what the code asks of their letters    *)
(* are the constants Portable and StartsWith.                                *)
(***************************************************************************)
EXTENDS Integers, FiniteSets, Sequences, Functions, Checks

CONSTANTS
    Portable,           \* the names that portable_identifier accepts
    StartsWith,         \* the pairs <<name, prefix>>
    MaxScaffoldModels   \* MAX_SCAFFOLD_MODELS

\* validated_normalized.
CatalogFault(c) ==
    IF c.schema_version # "2" THEN "unsupported_schema_version"
    ELSE Check(c.sealed, "invalid_fingerprint")

-----------------------------------------------------------------------------
(* diff_catalogs.  A change is [path, change, compatibility]; the list that  *)
(* the code sorts and rids of duplicates is a set.                           *)

Drift(path, kind, compatibility) ==
    [path |-> path, change |-> kind, compatibility |-> compatibility]

\* The attributes of two objects that differ, each with its weight.
DriftOf(path, weights, before, after) ==
    {Drift(path \o <<a>>, "modified", weights[a]) :
        a \in {k \in DOMAIN weights : before[k] # after[k]}}

\* Two collections of named objects, compared name by name: what an addition
\* weighs, and the names whose modification is only to be reviewed.
DriftOfNames(path, before, after, added, reviewed) ==
    {Drift(Append(path, n), "removed", "breaking") :
        n \in DOMAIN before \ DOMAIN after}
    \cup {Drift(Append(path, n), "added", added) :
        n \in DOMAIN after \ DOMAIN before}
    \cup {Drift(Append(path, n), "modified",
                IF n \in reviewed THEN "review_required" ELSE "breaking") :
        n \in {k \in DOMAIN before \cap DOMAIN after : before[k] # after[k]}}

ContextWeights ==
    [server_version |-> "review_required", role_context |-> "breaking",
     role_graph |-> "breaking", object_privileges |-> "breaking"]

RelationWeights ==
    [kind |-> "breaking", owner |-> "breaking", view |-> "breaking",
     comment |-> "review_required", grants |-> "breaking", rls |-> "breaking"]

\* diff_functions: a new function may be called in place of another.
FunctionDrift(before, after) ==
    DriftOfNames(<<"functions">>, before, after, "breaking", {})

\* diff_columns: the comment of a column is all that may change.
Recommented(before, after) ==
    {n \in DOMAIN before \cap DOMAIN after :
        \A a \in {"data_type", "nullable", "select_grant", "ordinal"} :
            before[n][a] = after[n][a]}

ColumnDrift(path, before, after) ==
    DriftOfNames(path, before, after, "compatible", Recommented(before, after))

\* Variant: only the constraints of the second catalog are looked up in the first.
ConstraintDriftForward(path, before, after) ==
    DriftOfNames(path, [n \in DOMAIN before \cap DOMAIN after |-> before[n]],
                 after, "review_required", {})

\* diff_constraints.
ConstraintDrift(path, before, after) ==
    DriftOfNames(path, before, after, "review_required", {})

\* diff_policies: a new policy changes which rows a role sees.
PolicyDrift(path, before, after) ==
    DriftOfNames(path, before, after, "breaking", {})

\* diff_relation.
RelationDrift(path, before, after) ==
    DriftOf(path, RelationWeights, before, after)
    \cup ColumnDrift(path \o <<"columns">>, before.columns, after.columns)
    \cup ConstraintDrift(path \o <<"constraints">>, before.constraints,
                         after.constraints)
    \cup PolicyDrift(path \o <<"policies">>, before.policies, after.policies)

CatalogDiffFault(before, after) ==
    IF CatalogFault(before) # "none" THEN "invalid_source"
    ELSE IF CatalogFault(after) # "none" THEN "invalid_target"
    ELSE Check(/\ before.database = after.database
               /\ before.role = after.role, "context_mismatch")

CatalogDrift(before, after) ==
    LET old == before.relations  new == after.relations IN
    DriftOf(<<>>, ContextWeights, before, after)
    \cup FunctionDrift(before.functions, after.functions)
    \cup {Drift(<<"relations">> \o k, "removed", "breaking") :
             k \in DOMAIN old \ DOMAIN new}
    \cup {Drift(<<"relations">> \o k, "added", "compatible") :
             k \in DOMAIN new \ DOMAIN old}
    \cup UNION {RelationDrift(<<"relations">> \o k, old[k], new[k]) :
                   k \in DOMAIN old \cap DOMAIN new}

\* summarize and the compatibility of the whole: that of its worst change.
Compatibility(drift) ==
    LET found == {d.compatibility : d \in drift} IN
    IF "breaking" \in found THEN "breaking"
    ELSE IF "review_required" \in found THEN "review_required" ELSE "compatible"

-----------------------------------------------------------------------------
(* scaffold.                                                                *)

\* postgres_data_type; types with a length or a precision stand for all of them.
PostgresDataType(type) ==
    CASE type \in {"boolean", "bool"} -> {"boolean"}
      [] type \in {"smallint", "integer", "bigint", "int2", "int4", "int8"}
           -> {"integer"}
      [] type \in {"numeric", "decimal", "numeric(18,2)"} -> {"numeric"}
      [] type \in {"text", "varchar", "character", "char", "character varying",
                   "character varying(20)"} -> {"text"}
      [] type = "date" -> {"date"}
      [] type \in {"timestamp without time zone", "timestamp(3) without time zone"}
           -> {"timestamp"}
      [] type \in {"timestamp with time zone", "timestamptz"} -> {"timestamp_tz"}
      [] OTHER -> {}

\* validate_request; relation_prefix and timezone are sets of at most one value.
RequestFault(r) ==
    FirstOf(<<
        Check(r.schema_version = "1", "unsupported_schema_version"),
        Check(r.schema \in Portable, "invalid_identifier"),
        Check(r.max_models \in 1..MaxScaffoldModels, "invalid_model_limit"),
        Check(/\ (r.relations # <<>>) # (r.relation_prefix \ {""} # {})
              /\ "" \notin r.relation_prefix, "ambiguous_selection")>>
      \o [i \in DOMAIN r.relations |->
            IF r.relations[i] \notin Portable THEN "invalid_identifier"
            ELSE Check(\A j \in 1..(i - 1) : r.relations[j] # r.relations[i],
                       "duplicate_relation")]
      \o <<Check(r.relation_prefix \subseteq Portable, "invalid_identifier"),
           Check(r.timezone \subseteq {"UTC"}, "invalid_timezone")>>)

\* select_relations.
SelectedRelations(r, c) ==
    {k \in DOMAIN c.relations :
        /\ k[1] = r.schema
        /\ IF r.relation_prefix # {}
           THEN \A p \in r.relation_prefix : <<k[2], p>> \in StartsWith
           ELSE k[2] \in Range(r.relations)}

SelectionFault(r, c) ==
    LET names == {k[2] : k \in SelectedRelations(r, c)} IN
    IF r.relation_prefix = {} /\ ~(Range(r.relations) \subseteq names)
    THEN "relation_not_found"
    ELSE Check(names # {}, "empty_selection")

\* The columns of the enforced and validated primary key, if there is one.
PrimaryKey(relation) ==
    UNION {Range(relation.constraints[n].columns) :
              n \in {k \in DOMAIN relation.constraints :
                        /\ k[1] = "primary_key"
                        /\ relation.constraints[k].enforced
                        /\ relation.constraints[k].validated}}

Readable(relation) ==
    {n \in DOMAIN relation.columns : relation.columns[n].select_grant}

\* What scaffold_model refuses of a readable column.
ColumnFault(name, column, timezone) ==
    LET type == PostgresDataType(column.data_type) IN
    IF name \notin Portable THEN "invalid_identifier"
    ELSE IF type = {} THEN "unsupported_postgres_type"
    ELSE Check(timezone # {} \/ type \cap {"timestamp", "timestamp_tz"} = {},
               "missing_timezone")

\* scaffold_model: the columns are visited in the order of their ordinals.
ModelFault(key, relation, timezone) ==
    LET columns == relation.columns
        fault(n) == ColumnFault(n, columns[n], timezone)
        faulty == {n \in Readable(relation) : fault(n) # "none"}
        first == CHOOSE n \in faulty :
                    \A m \in faulty : columns[n].ordinal <= columns[m].ordinal
    IN  IF key[2] \notin Portable THEN "invalid_identifier"
        ELSE IF relation.kind = "foreign_table" THEN "unsupported_relation_kind"
        ELSE IF ~relation.grants.schema_usage \/ ~relation.grants.any_column_select
             THEN "relation_not_selectable"
        ELSE IF faulty # {} THEN fault(first)
        ELSE Check(Readable(relation) # {}, "relation_not_selectable")

ScaffoldFault(r, c) ==
    LET chosen == SelectedRelations(r, c) IN
    IF RequestFault(r) # "none" THEN RequestFault(r)
    ELSE IF CatalogFault(c) # "none" THEN "invalid_catalog"
    ELSE IF SelectionFault(r, c) # "none" THEN SelectionFault(r, c)
    ELSE IF Cardinality(chosen) > r.max_models THEN "model_limit_exceeded"
    ELSE SomeOf({ModelFault(k, c.relations[k], r.timezone) : k \in chosen})

\* The field of a readable column.
ScaffoldField(name, column, key) ==
    LET type == CHOOSE t \in PostgresDataType(column.data_type) : TRUE IN
    [data_type |-> type, column |-> name, relationship |-> {},
     time_dimension |-> type \in {"date", "timestamp", "timestamp_tz"},
     entity_key |-> key = {name}, visible |-> TRUE, nullable |-> column.nullable]

\* scaffold_model: a readable key of one column is counted by row_count.
ScaffoldModel(key, relation, timezone) ==
    LET primary == PrimaryKey(relation)
        counted == {k \in primary : primary = {k} /\ k \in Readable(relation)}
    IN  [source |-> key, timezone |-> timezone, queryable |-> TRUE,
         writable |-> {}, relationships |-> <<>>,
         fields |-> [n \in Readable(relation) |->
                        ScaffoldField(n, relation.columns[n], primary)],
         metrics |-> [n \in {"row_count" : k \in counted} |->
                        [aggregation |-> "count", field |-> CHOOSE k \in counted : TRUE,
                         data_type |-> "integer", visible |-> TRUE, filter |-> {},
                         additivity |-> {"additive"}, anchor |-> counted]]]

\* scaffold: the request names one schema, so a name is a relation.
Scaffold(r, c) ==
    [schema_version |-> "2", hashed |-> TRUE,
     models |-> [n \in {k[2] : k \in SelectedRelations(r, c)} |->
                    ScaffoldModel(<<r.schema, n>>, c.relations[<<r.schema, n>>],
                                  r.timezone)]]
=============================================================================
