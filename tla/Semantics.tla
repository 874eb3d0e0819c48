------------------------------ MODULE Semantics ------------------------------
(***************************************************************************)
(* The pure parts of the gateway put to use: a server starts from an         *)
(* authority document and answers tokens; a query is compiled against a      *)
(* snapshot, executed over a database, or compiled again after a republish;  *)
(* a mutation is compiled and executed; a model is scaffolded from a catalog  *)
(* that later drifts; an OSI document is imported and exported again.  Each   *)
(* behaviour is one such use, with inputs from finite sets.                  *)
(***************************************************************************)
EXTENDS AuthorityServer, Authoring, Compiler, Sql, MutationCompiler, Osi

CONSTANTS
    Snapshots, Successors, Queries, Databases,
    Mutations, Profiles, Tables, Keys,       \* Keys: sets of unique constraints
    OsiDocuments, Selections

Init == job = Idle

-----------------------------------------------------------------------------

\* normalize_lsq and compile_lsq.
CompileQuery ==
    /\ job.kind = "idle"
    /\ \E s \in Snapshots, q \in Queries :
          LET e == Then(QueryError(q), CompileError(q, s))
          IN  job' = [kind |-> "query", snapshot |-> s, query |-> q, error |-> e,
                      statement |-> IF e # "none" THEN {} ELSE {Statement(q, s)}]

\* PostgreSQL executes a compiled query.
ExecuteQuery ==
    /\ job.kind = "query" /\ job.error = "none"
    /\ \E db \in Databases, p \in job.statement :
          job' = [kind |-> "rows", statement |-> p, db |-> db,
                  result |-> Result(p, db)]

\* Another revision is published, diff_snapshots compares the two, and the
\* query is compiled against the new one.
Republish ==
    /\ job.kind = "query" /\ job.error = "none"
    /\ \E s \in Successors :
          LET e == CompileError(job.query, s)
          IN  job' = [kind |-> "republished", before |-> job.snapshot, after |-> s,
                      error |-> e, old |-> job.statement,
                      compatible |-> /\ DiffError(job.snapshot, s) = "none"
                                     /\ Compatible(job.snapshot, s),
                      new |-> IF e # "none" THEN {} ELSE {Statement(job.query, s)}]

\* normalize_lsm and compile_lsm.
CompileMutation ==
    /\ job.kind = "idle"
    /\ \E s \in Snapshots, d \in Mutations, allowed \in Profiles :
          LET e == Then(MutationError(d), MutationCompileError(d, s, allowed))
          IN  job' = [kind |-> "mutation", document |-> d, error |-> e,
                      statement |-> IF e # "none" THEN {}
                                    ELSE {MutationStatement(d, s)}]

\* PostgreSQL executes a compiled mutation.
ExecuteMutation ==
    /\ job.kind = "mutation" /\ job.error = "none"
    /\ \E table \in Tables, keys \in Keys, p \in job.statement :
          job' = [kind |-> "written", document |-> job.document,
                  statement |-> p, table |-> table,
                  run |-> Execute(p, table, keys, DOMAIN table[1])]

\* import.
ImportDocument ==
    /\ job.kind = "idle"
    /\ \E doc \in OsiDocuments, c \in Catalogs, selected \in Selections :
          LET e == ImportFault(doc, c, selected)
          IN  job' = [kind |-> "import", catalog |-> c, error |-> e,
                      snapshot |-> IF e # "none" THEN {}
                                   ELSE {Import(doc, c, selected)}]

\* export_json of an imported snapshot that was saved, over a later scan.
ExportSnapshot ==
    /\ job.kind = "import" /\ job.error = "none"
    /\ \E c \in Catalogs, s \in job.snapshot :
          job' = [kind |-> "export", snapshot |-> s,
                  error |-> ExportFault(Saved(s), c, "shop"),
                  compatible |->
                    /\ CatalogDiffFault(job.catalog, c) = "none"
                    /\ Compatibility(CatalogDrift(job.catalog, c)) = "compatible"]

Next ==
    \/ StartServer \/ Authenticate
    \/ CompileQuery \/ ExecuteQuery \/ Republish
    \/ CompileMutation \/ ExecuteMutation
    \/ ScaffoldModels \/ CompareCatalogs
    \/ ImportDocument \/ ExportSnapshot

Spec == Init /\ [][Next]_job

-----------------------------------------------------------------------------
(* Properties.                                                              *)

\* The metrics of a group, each row of the model's relation counted once.
OncePerRow(p, db) ==
    LET rows == Selected(p, db)
        bases(g, x) == {r.base : r \in {k \in rows : Key(p, k) = g
                                                     /\ Holds(x.filter, k)}}
    IN  [g \in Groups(p, {Key(p, r) : r \in rows}) |->
            [i \in DOMAIN p.metrics |->
                LET x == p.metrics[i] IN
                Aggregate(x.aggregation,
                          [b \in bases(g, x) |-> Value(b, x.at.column)])]]

\* The rows of an accepted query count every row of the model's relation once in
\* each group, whatever it is joined with: the checks of validate and the two
\* stages of render_anchored_sql leave no way for a join to multiply a metric.
FanoutCountsOnce ==
    job.kind = "rows" => job.result = OncePerRow(job.statement, job.db)

\* A hidden entity key that is gone after a republish.
LostHiddenKey(before, after) ==
    \E m \in DOMAIN before.models \cap DOMAIN after.models :
        \E f \in DOMAIN before.models[m].fields \ DOMAIN after.models[m].fields :
            /\ before.models[m].fields[f].entity_key
            /\ ~before.models[m].fields[f].visible

\* After a change that diff_snapshots calls compatible an accepted query compiles
\* to the same statement.  The one exception is a hidden entity key whose removal
\* diff_named takes for compatible though a relationship rests on it: then the
\* query is refused, never answered differently.
CompatibleKeepsQueries ==
    job.kind = "republished" /\ job.compatible =>
        \/ job.error = "none" /\ job.new = job.old
        \/ /\ job.error \in {"SEMANTIC_RELATIONSHIP_TARGET_NOT_ENTITY_KEY",
                             "SEMANTIC_INVALID_AGGREGATION_ANCHOR"}
           /\ LostHiddenKey(job.before, job.after)

\* A mutation that PostgreSQL executes leaves every row of the document as one row
\* of the table that agrees with it on all the fields it names, and leaves every
\* other row, and the other columns of a row it updates, as they were; RETURNING
\* yields the number of rows the compiler expects.
MutationWritesExactly ==
    job.kind = "written" /\ job.run.ok =>
        LET p == job.statement
            after == job.run.table
            touched == job.run.touched
            columns == {p.columns[f] : f \in DOMAIN p.columns}
        IN  /\ Len(touched) = p.expected_rows
            /\ Cardinality(ToSet(touched)) = Len(touched)
            /\ \A i \in DOMAIN touched : \A f \in DOMAIN p.columns :
                  LET v == job.document.rows[i][f] IN
                  after[touched[i]][p.columns[f]]
                    = IF v.type = "null" THEN NoValue ELSE v.value
            /\ \A n \in DOMAIN job.table : \A c \in DOMAIN job.table[n] :
                  \/ after[n][c] = job.table[n][c]
                  \/ /\ n \in ToSet(touched) /\ c \in columns
                     /\ job.document.operation = "upsert"
            /\ Len(after) = Len(job.table)
                              + Cardinality(ToSet(touched) \ DOMAIN job.table)

\* The query of everything that a model offers.
WholeModel(name, m) ==
    LET fields == Listed(DOMAIN m.fields) IN
    [schema_version |-> "1", model |-> name, filters |-> {}, order_by |-> <<>>,
     limit |-> {}, metrics |-> Listed(DOMAIN m.metrics),
     dimensions |-> [i \in DOMAIN fields |-> [field |-> fields[i], time_grain |-> {}]]]

\* Whatever import accepts can be asked for, all of it in one query; and the
\* snapshot, saved without its nullability, can be exported again over the same
\* catalog or one that has drifted compatibly: import derives from the exported
\* document the keys, types and projected fields it had derived from the first.
ImportsRoundTrip ==
    /\ job.kind = "import" =>
          \A s \in job.snapshot : \A n \in DOMAIN s.models :
              CompileError(WholeModel(n, s.models[n]), s) = "none"
    /\ job.kind = "export" /\ job.compatible => job.error = "none"

\* A date that a statement compares with an instant is midnight of that date in
\* the time zone of the model, in every kind of filter.
DatesUseModelZone ==
    job.kind = "query" =>
        LET m == job.snapshot.models[job.query.model]
            RECURSIVE Leaves(_)
            Leaves(f) == {f} \cup UNION {Leaves(f.args[i]) : i \in DOMAIN f.args}
            filters(p) == UNION {Leaves(f) : f \in p.where}
                          \cup UNION {p.metrics[i].filter : i \in DOMAIN p.metrics}
        IN  \A p \in job.statement : \A f \in filters(p) :
              \A i \in DOMAIN f.operands :
                  LET o == f.operands[i] IN
                  o.type = "timestamp_tz" /\ o.literal.type = "date" =>
                      \A z \in m.timezone :
                          OperandValue(o) = Midnight(o.literal.value, z)
=============================================================================
