------------------------------ MODULE Revision ------------------------------
(***************************************************************************)
(* The life of semantic revisions in PostgreSQL: sessions that edit drafts,  *)
(* publish and retire revisions of one project in READ COMMITTED             *)
(* transactions, against the triggers, unique indexes and foreign keys of    *)
(* the migrations, beside a loader (load_published_internal).                *)
(*                                                                         *)
(* A statement is one step.  It waits while another transaction holds a      *)
(* conflicting lock, then sees what is committed and its own changes; if a    *)
(* trigger or constraint refuses it, its transaction is rolled back.  A       *)
(* cascaded delete is the deletes of its rows, one after the other.           *)
(*                                                                         *)
(* The canonical hash of a revision is the snapshot it was computed from     *)
(* (SHA-256 is taken to be injective), as a set: empty where the rows have    *)
(* no snapshot.                                                             *)
(***************************************************************************)
EXTENDS PublishedModel

CONSTANTS
    Sessions,    \* database sessions of editors and publishers
    Revisions,   \* revisions of the project
    Base,        \* the rows every revision starts with
    Edits,       \* the rows an editor inserts or deletes
    Schemas,     \* schema versions an editor sets
    MaxWrites    \* child rows one transaction changes

VARIABLES
    rev,         \* semantic.revision: status, schema_version, canonical_hash
    rows,        \* child rows of each revision
    revWrites,   \* uncommitted changes of revisions by a session
    rowWrites,   \* uncommitted changes of child rows: {} is a deleted row
    share,       \* revisions a session holds FOR SHARE
    keyShare,    \* child rows a session holds FOR KEY SHARE (foreign keys)
    seen,        \* the hash a session computed for a revision
    reading,     \* the loader's repeatable-read view, or empty
    loads,       \* history: the last load, where it succeeded
    refusals     \* history: what the last load was refused for

vars == <<rev, rows, revWrites, rowWrites, share, keyShare, seen, reading, loads, refusals>>
locks == <<share, keyShare>>
loader == <<reading, loads, refusals>>

Pool == Base \cup Edits
Key(x) == <<x.table, x.id>>
Cells == Revisions \X {Key(x) : x \in Pool}

\* calculate_revision_hash.
Hash(content, schema) ==
    IF LoadErrors(content, schema) = {} THEN {Snapshot(content, schema)} ELSE {}

RevisionRow(x) ==
    /\ x = [status |-> x.status, schema |-> x.schema, hash |-> x.hash]
    /\ x.status \in {"draft", "published", "retired"}
    /\ x.schema \in Schemas \cup {"2"}

\* Rows are told apart by their keys.
Keyed(content) == \A x, y \in content : Key(x) = Key(y) => x = y

\* Uncommitted changes of child rows: each cell gets its new row, or none.
WriteSet(w) ==
    /\ DOMAIN w \subseteq Cells
    /\ \A c \in DOMAIN w :
          w[c] \subseteq {x \in Edits : Key(x) = c[2]} /\ Keyed(w[c])

TypeOK ==
    /\ DOMAIN rev = Revisions /\ DOMAIN rows = Revisions
    /\ DOMAIN revWrites = Sessions /\ DOMAIN rowWrites = Sessions
    /\ DOMAIN share = Sessions /\ DOMAIN keyShare = Sessions /\ DOMAIN seen = Sessions
    /\ \A r \in Revisions :
          RevisionRow(rev[r]) /\ rows[r] \subseteq Pool /\ Keyed(rows[r])
    /\ \A s \in Sessions :
          /\ DOMAIN revWrites[s] \subseteq Revisions
          /\ \A r \in DOMAIN revWrites[s] : RevisionRow(revWrites[s][r])
          /\ WriteSet(rowWrites[s])
          /\ share[s] \subseteq Revisions /\ keyShare[s] \subseteq Cells

\* The first revision is published, the others are drafts of it.
Init ==
    \E first \in Revisions :
    /\ rev = [r \in Revisions |->
                 IF r = first
                 THEN [status |-> "published", schema |-> "2", hash |-> Hash(Base, "2")]
                 ELSE [status |-> "draft", schema |-> "2", hash |-> {}]]
    /\ rows = [r \in Revisions |-> Base]
    /\ revWrites = [s \in Sessions |-> <<>>] /\ rowWrites = [s \in Sessions |-> <<>>]
    /\ share = [s \in Sessions |-> {}] /\ keyShare = [s \in Sessions |-> {}]
    /\ seen = [s \in Sessions |-> <<>>]
    /\ reading = {} /\ loads = {} /\ refusals = {}

-----------------------------------------------------------------------------
(* What a statement sees, and what it waits for.                           *)

OwnRev(s, r) == IF r \in DOMAIN revWrites[s] THEN revWrites[s][r] ELSE rev[r]

\* The rows of r after the changes w.
Written(content, w, r) ==
    {x \in content : <<r, Key(x)>> \notin DOMAIN w}
        \cup UNION {w[c] : c \in {d \in DOMAIN w : d[1] = r}}

OwnRows(s, r) == Written(rows[r], rowWrites[s], r)

Put(f, x, v) == [y \in DOMAIN f \cup {x} |-> IF y = x THEN v ELSE f[y]]

\* Rows that a foreign key of x names.
RefKeys(x) ==
    CASE x.table = "model" -> {}
      [] x.table = "field" ->
            {<<"model", x.model>>}
                \cup IF x.via = "none" THEN {} ELSE {<<"relationship", x.via>>}
      [] x.table = "metric" ->
            {<<"model", x.model>>} \cup IF x.anchor = "none" THEN {} ELSE {<<"field", x.anchor>>}
      [] x.table = "relationship" -> {<<"model", x.from>>, <<"model", x.to>>}
      [] x.table = "column" ->
            {<<"relationship", x.relationship>>, <<"field", x.from>>, <<"field", x.to>>}
      [] x.table = "writable_model" -> {<<"model", x.model>>}
      [] x.table = "writable_field" -> {<<"writable_model", x.model>>, <<"field", x.field>>}

\* A direct entity key of the metric's model in a revision of schema version 2
\* (metric_aggregation_anchor_model_fkey and _schema_fkey).
AnchorValid(content, schema, m) ==
    m.anchor # "none" =>
        /\ schema = "2"
        /\ \E f \in RowsOf(content, "field") :
              f.id = m.anchor /\ f.model = m.model /\ f.kind = "entity_key" /\ f.via = "none"

\* Variant: migration 0006, whose trigger looks at a metric when it is written.
ConstraintsTriggerOnly(content, schema, written) ==
    /\ LET keys == {Key(y) : y \in content}
       IN  \A x \in content : RefKeys(x) \subseteq keys
    /\ \A m \in RowsOf(written, "metric") : AnchorValid(content, schema, m)

\* The constraints a statement that wrote rows is checked against at its end.
Constraints(content, schema, written) ==
    /\ LET keys == {Key(y) : y \in content}
       IN  \A x \in content : RefKeys(x) \subseteq keys
    /\ \A m \in RowsOf(content, "metric") : AnchorValid(content, schema, m)

\* A project starts from rows that the constraints accept; child rows are those
\* of the tables that the loader reads, mutation_model is keyed by its model and
\* ordinals are numbers.
ASSUME BaseAssumption ==
    /\ Keyed(Base) /\ Constraints(Base, "2", {})
    /\ \A x \in Pool : x.table \in {"model", "field", "metric", "relationship", "column",
                                   "writable_model", "writable_field"}
    /\ \A x \in Pool : x.table = "writable_model" => x.id = x.model
    /\ \A x \in Pool : x.table = "writable_field" => x.returning \in Nat

Others(s) == Sessions \ {s}

\* Variant: migration 0001, whose trigger reads the status without a lock.
EditWaitsUnlocked(s, cell, new) ==
    \E t \in Others(s) :
        \/ cell \in DOMAIN rowWrites[t] \/ cell \in keyShare[t]
        \/ \E x \in new : \E k \in RefKeys(x) : <<cell[1], k>> \in DOMAIN rowWrites[t]

\* A write of a child row waits for a change of its revision (FOR SHARE in
\* require_draft_revision), of the same row, of a row it refers to, and for a
\* foreign key that refers to the row.
EditWaits(s, cell, new) ==
    \E t \in Others(s) :
        \/ cell[1] \in DOMAIN revWrites[t]
        \/ cell \in DOMAIN rowWrites[t] \/ cell \in keyShare[t]
        \/ \E x \in new : \E k \in RefKeys(x) : <<cell[1], k>> \in DOMAIN rowWrites[t]

\* An update of a revision waits for the editors of its rows and for another
\* update of it; one that publishes waits at the unique index for any other.
RevisionWaits(s, r, status) ==
    \E t \in Others(s) :
        \/ r \in share[t] \/ r \in DOMAIN revWrites[t]
        \/ status = "published" /\ revWrites[t] # <<>>

\* The end of a transaction and its locks; a hash is computed anew for the next.
Rollback(s) ==
    /\ seen' = [seen EXCEPT ![s] = <<>>]
    /\ revWrites' = [revWrites EXCEPT ![s] = <<>>]
    /\ rowWrites' = [rowWrites EXCEPT ![s] = <<>>]
    /\ share' = [share EXCEPT ![s] = {}]
    /\ keyShare' = [keyShare EXCEPT ![s] = {}]

-----------------------------------------------------------------------------
(* Statements.                                                             *)

\* Variant: the trigger locks nothing of the revision that it reads.
EditUnshared(s, r, key, new) ==
    LET cell == <<r, key>>
        content == Written(OwnRows(s, r), Put(<<>>, cell, new), r)
    IN  /\ cell \in DOMAIN rowWrites[s] \/ Cardinality(DOMAIN rowWrites[s]) < MaxWrites
        /\ ~EditWaits(s, cell, new)
        /\ content # OwnRows(s, r)
        /\ OwnRev(s, r).status = "draft" /\ Constraints(content, OwnRev(s, r).schema, new)
        /\ rowWrites' = [rowWrites EXCEPT ![s] = Put(@, cell, new)]
        /\ UNCHANGED <<rev, rows, revWrites, locks, seen, loader>>

\* INSERT, UPDATE or DELETE of one child row.
Edit(s, r, key, new) ==
    LET cell == <<r, key>>
        content == Written(OwnRows(s, r), Put(<<>>, cell, new), r)
    IN  /\ cell \in DOMAIN rowWrites[s] \/ Cardinality(DOMAIN rowWrites[s]) < MaxWrites
        /\ ~EditWaits(s, cell, new)
        /\ content # OwnRows(s, r)
        /\ IF /\ OwnRev(s, r).status = "draft"
              /\ Constraints(content, OwnRev(s, r).schema, new)
           THEN /\ rowWrites' = [rowWrites EXCEPT ![s] = Put(@, cell, new)]
                /\ share' = [share EXCEPT ![s] = @ \cup {r}]
                /\ keyShare' = [keyShare EXCEPT ![s] =
                                   @ \cup {<<r, k>> : k \in UNION {RefKeys(x) : x \in new}}]
                /\ UNCHANGED <<revWrites, seen>>
           ELSE Rollback(s)
        /\ UNCHANGED <<rev, rows, loader>>

\* enforce_revision_transition.
Transition(old, new) ==
    \/ old.status = "draft" /\ new.status \in {"draft", "published"}
    \/ old.status = "published" /\ new = [old EXCEPT !.status = "retired"]

\* Variant: the partial unique index is missing.
UniqueHashOnly(s, r, new) ==
    \A q \in Revisions \ {r} : new.hash # {} => OwnRev(s, q).hash # new.hash

\* one_published_revision_per_project and UNIQUE (project_id, canonical_hash).
Unique(s, r, new) ==
    \A q \in Revisions \ {r} :
        /\ new.status = "published" => OwnRev(s, q).status # "published"
        /\ new.hash # {} => OwnRev(s, q).hash # new.hash

\* UPDATE semantic.revision.
Update(s, r, new) ==
    /\ new # OwnRev(s, r)
    /\ ~RevisionWaits(s, r, new.status)
    /\ IF /\ Transition(OwnRev(s, r), new)
          /\ Unique(s, r, new)
          /\ Constraints(OwnRows(s, r), new.schema, {})
       THEN /\ revWrites' = [revWrites EXCEPT ![s] = Put(@, r, new)]
            /\ UNCHANGED <<rowWrites, locks, seen>>
       ELSE Rollback(s)
    /\ UNCHANGED <<rev, rows, loader>>

SetSchema(s, r, schema) == Update(s, r, [OwnRev(s, r) EXCEPT !.schema = schema])

\* A publisher exports the candidate and computes its hash.
Survey(s, r) ==
    /\ OwnRev(s, r).status = "draft"
    /\ seen' = [seen EXCEPT ![s] = Put(<<>>, r, Hash(OwnRows(s, r), OwnRev(s, r).schema))]
    /\ seen' # seen
    /\ UNCHANGED <<rev, rows, revWrites, rowWrites, locks, loader>>

\* It then publishes the revision with that hash.
Publish(s, r) ==
    /\ r \in DOMAIN seen[s]
    /\ Update(s, r, [status |-> "published", schema |-> OwnRev(s, r).schema,
                     hash |-> seen[s][r]])

Retire(s, r) ==
    /\ OwnRev(s, r).status = "published"
    /\ Update(s, r, [OwnRev(s, r) EXCEPT !.status = "retired"])

Commit(s) ==
    /\ revWrites[s] # <<>> \/ rowWrites[s] # <<>>
    /\ rev' = [r \in Revisions |-> OwnRev(s, r)]
    /\ rows' = [r \in Revisions |-> OwnRows(s, r)]
    /\ Rollback(s)
    /\ UNCHANGED loader

\* The session gives up: an error, a deadlock, a lost connection.
Abort(s) ==
    /\ revWrites[s] # <<>> \/ rowWrites[s] # <<>>
    /\ Rollback(s)
    /\ UNCHANGED <<rev, rows, loader>>

-----------------------------------------------------------------------------
(* The loader.                                                             *)

\* REVISION_SQL is the first statement: it fixes the snapshot of the transaction.
LoadRevision ==
    /\ reading = {}
    /\ \E r \in Revisions :
          /\ rev[r].status = "published"
          /\ reading' = {[rev |-> r, row |-> rev[r], rows |-> rows[r]]}
    /\ loads' = {} /\ refusals' = {}
    /\ UNCHANGED <<rev, rows, revWrites, rowWrites, locks, seen>>

\* The tables are read from that snapshot and assembled; verify_hash.
LoadTables ==
    \E view \in reading :
        LET errors == LoadErrors(view.rows, view.row.schema)
            hash == Hash(view.rows, view.row.schema)
        IN  /\ IF errors # {} THEN refusals' = errors /\ loads' = {}
               ELSE IF hash # view.row.hash
               THEN refusals' = {"hash_mismatch"} /\ loads' = {}
               ELSE /\ loads' = {[rev |-> view.rev, rows |-> view.rows, snapshot |-> hash]}
                    /\ refusals' = {}
            /\ reading' = {}
            /\ UNCHANGED <<rev, rows, revWrites, rowWrites, locks, seen>>

Editing(s) ==
    \E r \in Revisions :
        \/ \E x \in Edits : Edit(s, r, Key(x), {x}) \/ Edit(s, r, Key(x), {})
        \/ \E schema \in Schemas : SetSchema(s, r, schema)

Publishing(s) == \E r \in Revisions : Survey(s, r) \/ Publish(s, r) \/ Retire(s, r)

Next ==
    \/ \E s \in Sessions : Editing(s) \/ Publishing(s) \/ Commit(s) \/ Abort(s)
    \/ LoadRevision \/ LoadTables

Spec == Init /\ [][Next]_vars

-----------------------------------------------------------------------------
(* Properties.                                                            *)

\* A step leaves a revision that is no draft alone, but for its retirement.
Frozen ==
    \A r \in Revisions : rev[r].status # "draft" =>
        /\ rows'[r] = rows[r]
        /\ \/ rev'[r] = rev[r]
           \/ rev[r].status = "published" /\ rev'[r] = [rev[r] EXCEPT !.status = "retired"]

\* Nothing of a revision changes once its publication is committed, but its
\* retirement: an edit that began while it was a draft commits before the
\* publication or not at all (require_draft_revision, enforce_revision_transition).
PublishedIsFrozen == [][Frozen]_vars

\* In every committed revision a metric's anchor is a direct entity key of its
\* own model and the schema version is 2, however the metric, the field and the
\* revision are changed by different sessions (migrations 0006 and 0007).
AnchorsStayValid ==
    \A r \in Revisions : \A m \in RowsOf(rows[r], "metric") :
        AnchorValid(rows[r], rev[r].schema, m)

\* At most one revision is published, so that REVISION_SQL has one answer.
OnePublished ==
    \A r, q \in Revisions :
        rev[r].status = "published" /\ rev[q].status = "published" => r = q

\* Who has written rows of a revision holds it in share mode and it is a draft;
\* who has written a revision shares it with nobody and may only retire it if it
\* is published already (require_draft_revision, enforce_revision_transition).
LockInv ==
    \A s \in Sessions :
        /\ \A c \in DOMAIN rowWrites[s] : c[1] \in share[s]
        /\ \A r \in share[s] : rev[r].status = "draft"
        /\ \A r \in DOMAIN revWrites[s] :
              \/ rev[r].status = "draft"
              \/ /\ rev[r].status = "published"
                 /\ revWrites[s][r] = [rev[r] EXCEPT !.status = "retired"]
        /\ \A t \in Others(s) : \A r \in DOMAIN revWrites[s] :
              r \notin share[t] /\ r \notin DOMAIN revWrites[t]

\* Who is publishing a revision sees no other published one, and nobody else is
\* publishing (one_published_revision_per_project).
PublicationInv ==
    /\ OnePublished
    /\ \A s \in Sessions : \A r \in DOMAIN revWrites[s] :
          revWrites[s][r].status = "published" =>
              /\ \A q \in Revisions \ {r} : OwnRev(s, q).status # "published"
              /\ \A t \in Others(s) : \A q \in DOMAIN revWrites[t] :
                    revWrites[t][q].status # "published"

\* Two sessions never write the same child row, nobody writes a row that a row
\* written by another refers to, and what each session sees of a revision
\* meets the constraints (the foreign keys' locks FOR KEY SHARE).
ReferenceInv ==
    /\ \A r \in Revisions : Constraints(rows[r], rev[r].schema, {})
    /\ \A s \in Sessions :
          /\ \A t \in Others(s) : \A c \in DOMAIN rowWrites[s] :
                c \notin DOMAIN rowWrites[t] /\ c \notin keyShare[t]
          /\ \A c \in DOMAIN rowWrites[s] : \A x \in rowWrites[s][c] :
                \A k \in RefKeys(x) : <<c[1], k>> \in keyShare[s]
          /\ \A r \in Revisions : Constraints(OwnRows(s, r), OwnRev(s, r).schema, {})

\* What every statement, commit and rollback keeps, whatever the others have
\* written and not yet committed.
StoreInv == TypeOK /\ LockInv /\ PublicationInv /\ ReferenceInv

\* What the loader reads, and what it has loaded, is what its revision holds: the
\* revision was published when its transaction began.
LoaderInv ==
    /\ \A view \in reading :
          /\ view.rev \in Revisions /\ rev[view.rev].status # "draft"
          /\ view.rows = rows[view.rev]
          /\ view.row.schema = rev[view.rev].schema /\ view.row.hash = rev[view.rev].hash
    /\ \A l \in loads :
          /\ l.rev \in Revisions /\ rev[l.rev].status # "draft"
          /\ l.rows = rows[l.rev] /\ l.snapshot = rev[l.rev].hash
          /\ LoadErrors(l.rows, rev[l.rev].schema) = {}
          /\ l.snapshot = {Snapshot(l.rows, rev[l.rev].schema)}
    /\ refusals \cap {"unknown_model", "aggregation_anchor"} = {}


\* What sessions and the loader keep between them.
RevisionInv == StoreInv /\ LoaderInv

\* A load that succeeds has all that is stored of its revision and nothing else,
\* refers to nothing that it does not hold, has the hash its revision was
\* published with and is still what the revision holds, whatever was written
\* while it was read; and the constraints keep the loader from its "unknown
\* model" and "anchor in schema 1" errors (load_published_internal).
LoadsAreWhole ==
    /\ \A l \in loads :
          /\ l.rows = rows[l.rev] /\ l.snapshot = rev[l.rev].hash
          /\ \E snapshot \in l.snapshot :
                /\ \A x \in l.rows : Present(snapshot, l.rows, x)
                /\ Stored(snapshot, l.rows) /\ Closed(snapshot)
    /\ refusals \cap {"unknown_model", "aggregation_anchor"} = {}

=============================================================================
