---------------------------- MODULE SnapshotDiff -----------------------------
(***************************************************************************)
(* The comparison of two snapshots (diff.rs): the changes of models, fields, *)
(* metrics and relationships, each compatible or breaking.  A change is      *)
(* [path, change, breaking]; the sorted list is a set here.  Snapshots are   *)
(* as in Compiler, their objects functions of names, so that the duplicate   *)
(* names diff_snapshots refuses cannot be written down.                      *)
(***************************************************************************)
EXTENDS FiniteSets, Sequences

Change(path, kind, breaking) ==
    [path |-> path, change |-> kind, breaking |-> breaking]

\* diff_named: the changes of one collection of named objects.  Its two closures
\* are sets here: the names that are missed, and those whose change breaks.
DiffNamed(path, before, after, missed, breaks) ==
    {Change(path \o <<n>>, "removed", n \in missed) :
        n \in DOMAIN before \ DOMAIN after}
    \cup {Change(path \o <<n>>, "modified", n \in breaks) :
        n \in {k \in DOMAIN before \cap DOMAIN after : before[k] # after[k]}}
    \cup {Change(path \o <<n>>, "added", FALSE) :
        n \in DOMAIN after \ DOMAIN before}

\* Variant: a change that keeps an object visible is compatible.
BecameVisibleOrStays(before, after) ==
    after.visible

\* field_compatibility and metric_compatibility: the one compatible modification
\* makes a hidden object visible and changes nothing else.
OnlyBecameVisible(before, after) ==
    /\ ~before.visible /\ after.visible
    /\ after = [before EXCEPT !.visible = TRUE]

Visible(objects) == {n \in DOMAIN objects : objects[n].visible}

\* The names of the objects whose modification breaks.
ObjectBreaks(before, after) ==
    {n \in DOMAIN before \cap DOMAIN after : ~OnlyBecameVisible(before[n], after[n])}

\* model_compatibility.
ModelBreaks(before, after) ==
    \/ before.source # after.source
    \/ before.timezone # after.timezone
    \/ before.queryable /\ ~after.queryable
    \/ before.writable # {} /\ before.writable # after.writable

\* model_metadata: what of a model is compared by itself.
Metadata(m) ==
    [source |-> m.source, timezone |-> m.timezone,
     queryable |-> m.queryable, writable |-> m.writable]

ModelChanges(name, before, after) ==
    {Change(<<name>>, "modified", ModelBreaks(before, after)) :
        x \in {m \in {before} : Metadata(before) # Metadata(after)}}
    \cup DiffNamed(<<name, "fields">>, before.fields, after.fields,
                   Visible(before.fields), ObjectBreaks(before.fields, after.fields))
    \cup DiffNamed(<<name, "metrics">>, before.metrics, after.metrics,
                   Visible(before.metrics), ObjectBreaks(before.metrics, after.metrics))
    \cup DiffNamed(<<name, "relationships">>, before.relationships,
                   after.relationships, DOMAIN before.relationships,
                   DOMAIN before.relationships)

\* diff_snapshots.
Changes(before, after) ==
    LET old == before.models  new == after.models IN
    {Change(<<n>>, "removed", TRUE) : n \in DOMAIN old \ DOMAIN new}
    \cup {Change(<<n>>, "added", FALSE) : n \in DOMAIN new \ DOMAIN old}
    \cup UNION {ModelChanges(n, old[n], new[n]) : n \in DOMAIN old \cap DOMAIN new}

DiffError(before, after) ==
    IF {before.schema_version, after.schema_version} \subseteq {"1", "2"}
    THEN "none" ELSE "SEMANTIC_DIFF_UNSUPPORTED_SNAPSHOT_VERSION"

Compatible(before, after) ==
    \A c \in Changes(before, after) : ~c.breaking
=============================================================================
