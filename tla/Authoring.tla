------------------------------ MODULE Authoring ------------------------------
(***************************************************************************)
(* A model is scaffolded from a scan of the source database, and a later      *)
(* scan is compared with the first.                                          *)
(***************************************************************************)
EXTENDS Catalog, SnapshotDiff, Job

CONSTANTS Scaffolds, Catalogs   \* requests and scans

\* A relation has a schema and a name, a column its position; PostgreSQL refuses a
\* constraint that names a column twice.
ASSUME CatalogAssumption ==
    \A c \in Catalogs : \A k \in DOMAIN c.relations :
        /\ k = <<k[1], k[2]>>
        /\ \A n \in DOMAIN c.relations[k].columns :
              c.relations[k].columns[n].ordinal \in Nat
        /\ LET constraints == c.relations[k].constraints IN
           \A n \in DOMAIN constraints :
              LET columns == constraints[n].columns IN
              /\ columns \in Seq(Range(columns))
              /\ \A i, j \in DOMAIN columns : columns[i] = columns[j] => i = j

\* scaffold, from a scan of the catalog.
ScaffoldModels ==
    /\ job.kind = "idle"
    /\ \E r \in Scaffolds, c \in Catalogs :
          LET e == ScaffoldFault(r, c)
          IN  job' = [kind |-> "scaffold", request |-> r, catalog |-> c, error |-> e,
                      snapshot |-> IF e # "none" THEN {} ELSE {Scaffold(r, c)}]

\* diff_catalogs, with a later scan.
CompareCatalogs ==
    /\ job.kind = "scaffold"
    /\ \E c \in Catalogs :
          LET e == CatalogDiffFault(job.catalog, c)
          IN  job' = [kind |-> "drift", request |-> job.request, after |-> c,
                      snapshot |-> job.snapshot, error |-> e,
                      compatibility |->
                        IF e # "none" THEN {}
                        ELSE {Compatibility(CatalogDrift(job.catalog, c))}]

ScaffoldNext ==
    ScaffoldModels \/ CompareCatalogs \/ OtherUse({"scaffold", "drift"})

ScaffoldSpec == job = Idle /\ [][ScaffoldNext]_job

-----------------------------------------------------------------------------
(* Properties.                                                              *)

\* A field of a model can still be read from its column, with the type, the
\* nullability and, of an entity key, the uniqueness that the model says it has.
StillReads(f, relation) ==
    /\ f.column \in Readable(relation)
    /\ f.data_type \in PostgresDataType(relation.columns[f.column].data_type)
    /\ f.nullable = relation.columns[f.column].nullable
    /\ f.entity_key =>
          \E n \in DOMAIN relation.constraints :
              /\ n[1] = "primary_key"
              /\ relation.constraints[n].columns = <<f.column>>
              /\ relation.constraints[n].enforced
              /\ relation.constraints[n].validated

\* A scaffolded snapshot stays true of the database across a drift that
\* diff_catalogs calls compatible: every relation is still there under its kind and
\* grants and every field still reads its column; and scaffolding again, where that
\* succeeds, gives a snapshot that diff_snapshots calls compatible too.
DriftKeepsScaffold ==
    job.kind = "drift" /\ job.compatibility = {"compatible"} =>
        \A s \in job.snapshot :
            /\ \A n \in DOMAIN s.models :
                  LET m == s.models[n] IN
                  /\ m.source \in DOMAIN job.after.relations
                  /\ LET relation == job.after.relations[m.source] IN
                     /\ relation.kind # "foreign_table"
                     /\ relation.grants.schema_usage
                     /\ \A f \in DOMAIN m.fields : StillReads(m.fields[f], relation)
            /\ ScaffoldFault(job.request, job.after) = "none" =>
                  Compatible(s, Scaffold(job.request, job.after))

\* What a job holds: the snapshot scaffolded from the first scan, and the verdict on
\* the second.
ScaffoldInv ==
    LET From(r, c) == IF ScaffoldFault(r, c) # "none" THEN {} ELSE {Scaffold(r, c)}
    IN  /\ job.kind = "scaffold" =>
              job.catalog \in Catalogs /\ job.snapshot = From(job.request, job.catalog)
        /\ job.kind = "drift" =>
              \E c \in Catalogs :
                  /\ job.after \in Catalogs
                  /\ job.snapshot = From(job.request, c)
                  /\ job.compatibility \subseteq {Compatibility(CatalogDrift(c, job.after))}
=============================================================================
