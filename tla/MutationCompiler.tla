-------------------------- MODULE MutationCompiler ---------------------------
(***************************************************************************)
(* Logical semantic mutations (lsm.rs) and their compiler (mutation.rs) as   *)
(* operators, and what PostgreSQL does with the statement: an INSERT, with   *)
(* ON CONFLICT DO UPDATE for an upsert, over one table.                      *)
(*                                                                         *)
(* A document has a sequence of rows, functions of field names to values     *)
(* [type, value, wellFormed]; a table is a sequence of rows, functions of    *)
(* column names to integers, so that equal rows stay apart.                  *)
(***************************************************************************)
EXTENDS Integers, Sequences, FiniteSets, SequencesExt, FiniteSetsExt, Checks

CONSTANTS
    MaxInputBytes, MaxRows, MaxFieldsPerRow,   \* bounds of a document
    HardRowLimit, HardByteLimit                \* MutationCompilerOptions

-----------------------------------------------------------------------------
(* normalize_lsm and validate_mutation.                                     *)

\* The document parses: no object repeats a key and no field is unknown.
MutationError(d) ==
    IF d.bytes > MaxInputBytes THEN "LSM_INPUT_TOO_LARGE"
    ELSE IF ~d.parses THEN "LSM_INVALID_JSON"
    ELSE IF d.schema_version # "1" THEN "LSM_UNSUPPORTED_SCHEMA_VERSION"
    ELSE IF d.model = "" THEN "LSM_INVALID_MODEL"
    ELSE IF d.idempotency_key = "" THEN "LSM_INVALID_IDEMPOTENCY_KEY"
    ELSE IF Len(d.rows) \notin 1..MaxRows THEN "LSM_INVALID_ROW_COUNT"
    ELSE FirstOf([i \in DOMAIN d.rows |->
           LET row == d.rows[i] IN
           IF Cardinality(DOMAIN row) \notin 1..MaxFieldsPerRow
           THEN "LSM_INVALID_FIELD_COUNT"
           ELSE IF DOMAIN row # DOMAIN d.rows[1]
                THEN "LSM_INCONSISTENT_ROW_FIELDS"
           ELSE SomeOf({IF f = "" THEN "LSM_INVALID_FIELD_NAME"
                        ELSE Check(row[f].wellFormed, "LSM_INVALID_VALUE") :
                        f \in DOMAIN row})])

-----------------------------------------------------------------------------
(* compile_lsm.                                                             *)

Direct(m, name) == name \in DOMAIN m.fields /\ m.fields[name].relationship = {}

Distinct(names) == Cardinality(ToSet(names)) = Len(names)

\* validate_writable_model, and the limits compile_lsm puts on it.
WritableModelFault(m, w) ==
    Check(/\ w.insert \/ w.upsert # {}
          /\ DOMAIN w.fields # {} /\ w.returning # <<>>
          /\ \A f \in DOMAIN w.fields : f # "" /\ Direct(m, f)
          /\ Distinct(w.returning) /\ \A f \in ToSet(w.returning) : Direct(m, f)
          /\ \A u \in w.upsert :
                /\ u # <<>> /\ Distinct(u)
                /\ \A f \in ToSet(u) : /\ f \in DOMAIN w.fields
                                       /\ ~w.fields[f].updatable_on_conflict
          /\ w.max_rows \in 1..HardRowLimit
          /\ w.max_request_bytes \in 1..HardByteLimit,
          "MUTATION_INVALID_WRITABLE_MODEL")

\* validate_value: the values a field of each type takes.
Storable ==
    [text |-> "text", boolean |-> "boolean", integer |-> "integer",
     numeric |-> "numeric", date |-> "date", timestamp |-> "timestamp",
     timestamp_tz |-> "timestamp"]

ValueFault(field, policy, v) ==
    IF v.type = "null" THEN Check(policy.nullable, "MUTATION_NULL_NOT_ALLOWED")
    ELSE Check(v.type = Storable[field.data_type],
               "MUTATION_FIELD_TYPE_MISMATCH")

ConflictFields(w) == UNION {ToSet(u) : u \in w.upsert}

\* Variant: an upsert may name a field that a conflict leaves as it was.
InputFaultAnyField(m, w, d, name) ==
    IF name \notin DOMAIN w.fields THEN "MUTATION_FIELD_NOT_WRITABLE"
    ELSE FirstOf([i \in DOMAIN d.rows |->
                    ValueFault(m.fields[name], w.fields[name], d.rows[i][name])])

\* The checks of one input field.
InputFault(m, w, d, name) ==
    IF name \notin DOMAIN w.fields THEN "MUTATION_FIELD_NOT_WRITABLE"
    ELSE Then(FirstOf([i \in DOMAIN d.rows |->
                    ValueFault(m.fields[name], w.fields[name], d.rows[i][name])]),
              Check(\/ d.operation # "upsert"
                    \/ w.fields[name].updatable_on_conflict
                    \/ name \in ConflictFields(w),
                    "MUTATION_FIELD_NOT_WRITABLE"))

\* The fields a conflict updates.
UpdateNames(w, d) ==
    IF d.operation # "upsert" THEN {}
    ELSE {f \in DOMAIN d.rows[1] : w.fields[f].updatable_on_conflict}

UpsertFault(w, d) ==
    IF d.operation # "upsert" THEN "none"
    ELSE Then(Check(ConflictFields(w) \subseteq DOMAIN d.rows[1],
                    "MUTATION_CONFLICT_FIELD_MISSING"),
              Check(UpdateNames(w, d) # {}, "MUTATION_NO_UPDATABLE_FIELD"))

RequiredFault(w, d) ==
    Check(\A f \in DOMAIN w.fields :
             w.fields[f].required_on_insert => f \in DOMAIN d.rows[1],
          "MUTATION_REQUIRED_FIELD_MISSING")

\* compile_lsm; allowed are the models of the caller's capability profile.
MutationCompileError(d, s, allowed) ==
    IF s.schema_version \notin {"1", "2"}
    THEN "SEMANTIC_UNSUPPORTED_SNAPSHOT_VERSION"
    ELSE IF ~s.hashed THEN "SEMANTIC_INVALID_REVISION_HASH"
    ELSE IF HardRowLimit = 0 \/ HardByteLimit = 0
         THEN "MUTATION_INVALID_LIMIT_CONFIGURATION"
    ELSE IF
       \/ d.model \notin allowed
       \/ d.model \notin DOMAIN s.models
       \/ s.models[d.model].writable = {}
    THEN "MUTATION_MODEL_NOT_WRITABLE"
    ELSE LET m == s.models[d.model]
             w == CHOOSE x \in m.writable : TRUE IN
    Then(WritableModelFault(m, w),
    Then(Check(Len(d.rows) <= w.max_rows, "MUTATION_ROW_LIMIT_EXCEEDED"),
    Then(Check(d.bytes <= w.max_request_bytes,
               "MUTATION_REQUEST_BYTES_EXCEEDED"),
    Then(Check(IF d.operation = "insert" THEN w.insert ELSE w.upsert # {},
               "MUTATION_OPERATION_NOT_ENABLED"),
    Then(SomeOf({InputFault(m, w, d, f) : f \in DOMAIN d.rows[1]}),
    Then(UpsertFault(w, d), RequiredFault(w, d)))))))

\* render: the statement of an accepted document.
MutationStatement(d, s) ==
    LET m == s.models[d.model]
        w == CHOOSE x \in m.writable : TRUE
        column(f) == m.fields[f].column
    IN  [relation |-> m.source,
         columns |-> [f \in DOMAIN d.rows[1] |-> column(f)],
         values |-> d.rows,
         conflict |-> IF d.operation # "upsert" THEN {}
                      ELSE {column(f) : f \in ConflictFields(w)},
         updates |-> {column(f) : f \in UpdateNames(w, d)},
         returning |-> [i \in DOMAIN w.returning |-> column(w.returning[i])],
         expected_rows |-> Len(d.rows)]

-----------------------------------------------------------------------------
(* What PostgreSQL does with it.                                            *)

NoValue == -1

\* The row a VALUES list proposes; the columns it leaves out get their default.
Proposed(p, i, columns) ==
    [c \in columns |->
        LET named == {f \in DOMAIN p.columns : p.columns[f] = c} IN
        IF named = {} THEN NoValue
        ELSE LET v == p.values[i][CHOOSE f \in named : TRUE]
             IN  IF v.type = "null" THEN NoValue ELSE v.value]

\* Rows that hold the same key; nulls are never equal.
SameKey(a, b, key) == \A c \in key : a[c] = b[c] /\ a[c] # NoValue

\* One proposed row at a time: inserted, or the row it conflicts with updated.
\* A row the statement has already touched cannot be updated again, and a unique
\* constraint that is not the one of ON CONFLICT fails the statement.
Place(p, keys, run, i, columns) ==
    LET row == Proposed(p, i, columns)
        hit(key) == {n \in DOMAIN run.table : SameKey(run.table[n], row, key)}
        on == IF p.conflict = {} THEN {} ELSE hit(p.conflict)
        n == CHOOSE k \in on : TRUE
        updated == [c \in columns |->
                      IF c \in p.updates THEN row[c] ELSE run.table[n][c]]
    IN  IF on # {}
        THEN [run EXCEPT !.table[n] = updated,
                         !.touched = Append(@, n),
                         !.ok = @ /\ n \notin ToSet(run.touched)]
        ELSE [run EXCEPT !.table = Append(@, row),
                         !.touched = Append(@, Len(run.table) + 1),
                         !.ok = @ /\ \A key \in keys : hit(key) = {}]

\* The statement: ON CONFLICT needs a unique constraint on exactly its columns.
Execute(p, table, keys, columns) ==
    LET start == [table |-> table, touched |-> <<>>,
                  ok |-> p.conflict \in keys \cup {{}}]
    IN  FoldLeft(LAMBDA run, i : Place(p, keys, run, i, columns),
                 start, [i \in 1..Len(p.values) |-> i])
=============================================================================
