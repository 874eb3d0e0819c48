------------------------------ MODULE Mutation ------------------------------
(***************************************************************************)
(* The idempotent mutation protocol: MutationExecutor's execute_with_cancel *)
(* and execute_compiled (mutation_executor.rs) driving the SQL functions    *)
(* claim_mutation, finish_mutation and record_mutation_failure inside       *)
(* PostgreSQL transactions, and the lookup behind `mutation reconcile`.     *)
(*                                                                         *)
(* One element of Attempts is one call of execute_with_cancel.  The client  *)
(* side of the call is pc, req, rev, mid and outcome; its transaction on    *)
(* the server is tx and work.  The two are apart because the connection     *)
(* between them can break: the caller then goes on to record the failure    *)
(* while the server still holds, commits or rolls back the transaction.     *)
(***************************************************************************)
EXTENDS Naturals, FiniteSets

CONSTANTS
    Attempts,     \* calls of execute_with_cancel
    Authorities,  \* stable authority ids (authority_hash, scheme principal-v1)
    Subjects,     \* principal subject and profile (the legacy-v1 hash)
    Roles,        \* mapped writer roles
    Keys,         \* idempotency keys of one project
    Lsms,         \* canonical mutation documents (lsm_hash)
    Requests,     \* the requests that callers submit
    MaxRevision,  \* bound on the revisions published during a run
    Legacy,       \* the authority part of a legacy-v1 row's identity
    LegacyRows,   \* the rows that migration 0008 found, by key
    NoRow,        \* no idempotency row
    NoOne         \* no attempt

VARIABLES
    published,    \* the revision that load_published reads
    pc,           \* where the call is
    req,          \* its request
    rev,          \* the revision it compiled against
    mid,          \* the mutation id that its claim returned
    outcome,      \* its error status while it fails, its answer once done
    tx,           \* its transaction on the server
    work,         \* what that transaction has written
    rows,         \* semantic.mutation_idempotency, committed
    holder,       \* who locks a row, or holds an uncommitted insert of it
    audit,        \* semantic.mutation_audit, committed
    effects       \* attempts whose DML is committed business data

vars == <<published, pc, req, rev, mid, outcome, tx, work, rows, holder,
          audit, effects>>
client == <<pc, req, rev, mid, outcome>>
tables == <<rows, holder, audit, effects>>

Request == [auth: Authorities, subj: Subjects, role: Roles,
            key: Keys, lsm: Lsms]
Revisions == 1 .. MaxRevision
RowId == (Authorities \cup {Legacy}) \X Keys
Mids == Attempts \cup RowId
Row == [status: {"started", "committed"}, subj: Subjects, role: Roles,
        lsm: Lsms, rev: Revisions, mid: Mids, replays: Nat]
Entry == [subj: Subjects, role: Roles, lsm: Lsms, rev: Revisions, mid: Mids]

ASSUME ConstantsAssumption ==
    /\ Requests \subseteq Request
    /\ MaxRevision \in Nat \ {0}
    /\ Legacy \notin Authorities
    /\ NoRow \notin Row /\ NoRow \notin Entry
    /\ NoOne \notin Mids
    /\ Attempts \cap RowId = {}

\* Rows that predate migration 0008: at most one per key (the old primary
\* key), committed, each under a mutation id of its own.
ASSUME LegacyAssumption ==
    /\ LegacyRows \in [Keys -> Row \cup {NoRow}]
    /\ \A k \in Keys : LegacyRows[k] # NoRow =>
          /\ LegacyRows[k].status = "committed"
          /\ LegacyRows[k].mid = <<Legacy, k>>
          /\ LegacyRows[k].replays = 0

Working == {"prepare", "begin", "select", "insert", "reselect", "run",
            "finish", "commit", "sent", "record"}
PCs == Working \cup {"idle", "done", "crashed"}
Failures == {"rejected", "rolled_back", "indeterminate"}
Outcomes == Failures \cup {"none", "ok", "replayed", "conflict",
                           "unavailable", "audit_failed"}
Works == {"none", "claimed", "ran", "finished", "conflict", "replay"}
AuditRow == [att: Attempts, mid: Mids \cup {NoOne}, replayed: BOOLEAN,
             status: {"started", "committed"} \cup Failures]

TypeOK ==
    /\ published \in Revisions
    /\ pc \in [Attempts -> PCs]
    /\ req \in [Attempts -> Request]
    /\ rev \in [Attempts -> Revisions]
    /\ mid \in [Attempts -> Mids \cup {NoOne}]
    /\ outcome \in [Attempts -> Outcomes]
    /\ tx \in [Attempts -> {"none", "open", "commit", "committed", "aborted"}]
    /\ work \in [Attempts -> Works]
    /\ rows \in [RowId -> Row \cup {NoRow}]
    /\ holder \in [RowId -> Attempts \cup {NoOne}]
    /\ audit \subseteq AuditRow
    /\ effects \subseteq Attempts

Init ==
    /\ published = 1
    /\ pc = [a \in Attempts |-> "idle"]
    /\ req \in [Attempts -> Requests]
    /\ rev = [a \in Attempts |-> 1]
    /\ mid = [a \in Attempts |-> NoOne]
    /\ outcome = [a \in Attempts |-> "none"]
    /\ tx = [a \in Attempts |-> "none"]
    /\ work = [a \in Attempts |-> "none"]
    /\ rows = [r \in RowId |-> IF r[1] = Legacy THEN LegacyRows[r[2]] ELSE NoRow]
    /\ holder = [r \in RowId |-> NoOne]
    /\ audit = {}
    /\ effects = {}

-----------------------------------------------------------------------------
(* Rows that a request can meet, and how claim_mutation and               *)
(* lookup_mutation_idempotency choose among them.                         *)

Own(q) == <<q.auth, q.key>>
LegacyId(q) == <<Legacy, q.key>>

\* Variant: the legacy rows are forgotten.
ExistingCurrentOnly(q) == Own(q)

\* The row of the current scheme first, the legacy row of the key otherwise.
Existing(q) == IF rows[Own(q)] # NoRow THEN Own(q) ELSE LegacyId(q)

\* The legacy authority hash binds subject, profile and role together.
LegacyAuthorityMatches(row, q) == row.subj = q.subj /\ row.role = q.role

\* Variants: one column is not compared.
MismatchNotRevision(r, q, v) ==
    \/ r[1] = Legacy /\ ~LegacyAuthorityMatches(rows[r], q)
    \/ rows[r].role # q.role
    \/ rows[r].lsm # q.lsm

MismatchNotDocument(r, q, v) ==
    \/ r[1] = Legacy /\ ~LegacyAuthorityMatches(rows[r], q)
    \/ rows[r].role # q.role
    \/ rows[r].rev # v

\* The condition under which claim_mutation answers `conflict`.
Mismatch(r, q, v) ==
    \/ r[1] = Legacy /\ ~LegacyAuthorityMatches(rows[r], q)
    \/ rows[r].role # q.role
    \/ rows[r].lsm # q.lsm
    \/ rows[r].rev # v

\* Variant: the lookup knows the current scheme only.
LookupCurrentOnly(q) ==
    LET own == rows[Own(q)]
    IN  IF own # NoRow /\ own.role = q.role THEN own ELSE NoRow

\* lookup_mutation_idempotency: the row is selected before its role is
\* compared, so a role mismatch never falls back to legacy state.
Lookup(q) ==
    LET legacy == rows[LegacyId(q)]
        selected == IF rows[Own(q)] # NoRow THEN rows[Own(q)]
                    ELSE IF legacy # NoRow /\ LegacyAuthorityMatches(legacy, q)
                         THEN legacy
                         ELSE NoRow
    IN  IF selected # NoRow /\ selected.role = q.role THEN selected ELSE NoRow

-----------------------------------------------------------------------------
(* The call, up to its transaction.                                       *)

\* A call arrives and opens its audit connection.
Call(a) ==
    /\ pc[a] = "idle"
    /\ pc' = [pc EXCEPT ![a] = "prepare"]
    /\ UNCHANGED <<published, req, rev, mid, outcome, tx, work, tables>>

\* Without the audit connection nothing is attempted and nothing recorded.
AuditUnavailable(a) ==
    /\ pc[a] = "idle"
    /\ pc' = [pc EXCEPT ![a] = "done"]
    /\ outcome' = [outcome EXCEPT ![a] = "unavailable"]
    /\ UNCHANGED <<published, req, rev, mid, tx, work, tables>>

\* Normalise, connect, load the published snapshot and compile against it.
Load(a) ==
    /\ pc[a] = "prepare"
    /\ rev' = [rev EXCEPT ![a] = published]
    /\ pc' = [pc EXCEPT ![a] = "begin"]
    /\ UNCHANGED <<published, req, mid, outcome, tx, work, tables>>

\* Start the transaction, verify role and target, apply the timeouts.
Begin(a) ==
    /\ pc[a] = "begin"
    /\ pc' = [pc EXCEPT ![a] = "select"]
    /\ tx' = [tx EXCEPT ![a] = "open"]
    /\ UNCHANGED <<published, req, rev, mid, outcome, work, tables>>

-----------------------------------------------------------------------------
(* claim_mutation.                                                        *)

\* The row r is locked for update; answer conflict or replay.
Decide(a, r) ==
    /\ holder[r] = NoOne
    /\ holder' = [holder EXCEPT ![r] = a]
    /\ pc' = [pc EXCEPT ![a] = "commit"]
    /\ \/ /\ Mismatch(r, req[a], rev[a])
          /\ work' = [work EXCEPT ![a] = "conflict"]
          /\ mid' = [mid EXCEPT ![a] = a]
       \/ /\ ~Mismatch(r, req[a], rev[a])
          /\ rows[r].status = "committed"
          /\ work' = [work EXCEPT ![a] = "replay"]
          /\ mid' = [mid EXCEPT ![a] = rows[r].mid]
    /\ UNCHANGED <<published, req, rev, outcome, tx, rows, audit, effects>>

\* SELECT ... FOR UPDATE of the current row, else of the legacy row.
ClaimSelect(a) ==
    /\ pc[a] = "select"
    /\ tx[a] = "open"
    /\ IF rows[Existing(req[a])] # NoRow
       THEN Decide(a, Existing(req[a]))
       ELSE /\ pc' = [pc EXCEPT ![a] = "insert"]
            /\ UNCHANGED <<published, req, rev, mid, outcome, tx, work, tables>>

\* Variant: an insert does not wait for an uncommitted one.
ClaimInsertNoWait(a) ==
    LET r == Own(req[a]) IN
    /\ pc[a] = "insert"
    /\ tx[a] = "open"
    /\ \/ /\ rows[r] = NoRow
          /\ holder' = [holder EXCEPT ![r] = a]
          /\ work' = [work EXCEPT ![a] = "claimed"]
          /\ mid' = [mid EXCEPT ![a] = a]
          /\ pc' = [pc EXCEPT ![a] = "run"]
       \/ /\ rows[r] # NoRow
          /\ pc' = [pc EXCEPT ![a] = "reselect"]
          /\ UNCHANGED <<holder, work, mid>>
    /\ UNCHANGED <<published, req, rev, outcome, tx, rows, audit, effects>>

\* Variant: ON CONFLICT DO UPDATE.
ClaimInsertUpsert(a) ==
    LET r == Own(req[a]) IN
    /\ pc[a] = "insert"
    /\ tx[a] = "open"
    /\ holder[r] = NoOne
    /\ holder' = [holder EXCEPT ![r] = a]
    /\ work' = [work EXCEPT ![a] = "claimed"]
    /\ mid' = [mid EXCEPT ![a] = a]
    /\ pc' = [pc EXCEPT ![a] = "run"]
    /\ UNCHANGED <<published, req, rev, outcome, tx, rows, audit, effects>>

\* INSERT ... ON CONFLICT DO NOTHING: waits for an uncommitted insert of the
\* same row, and inserts nothing if that one commits first.
ClaimInsert(a) ==
    LET r == Own(req[a]) IN
    /\ pc[a] = "insert"
    /\ tx[a] = "open"
    /\ \/ /\ rows[r] = NoRow
          /\ holder[r] = NoOne
          /\ holder' = [holder EXCEPT ![r] = a]
          /\ work' = [work EXCEPT ![a] = "claimed"]
          /\ mid' = [mid EXCEPT ![a] = a]
          /\ pc' = [pc EXCEPT ![a] = "run"]
       \/ /\ rows[r] # NoRow
          /\ pc' = [pc EXCEPT ![a] = "reselect"]
          /\ UNCHANGED <<holder, work, mid>>
    /\ UNCHANGED <<published, req, rev, outcome, tx, rows, audit, effects>>

\* SELECT ... INTO STRICT ... FOR UPDATE after a lost insert.
ClaimReselect(a) ==
    /\ pc[a] = "reselect"
    /\ tx[a] = "open"
    /\ rows[Own(req[a])] # NoRow
    /\ Decide(a, Own(req[a]))

-----------------------------------------------------------------------------
(* The DML, its bookkeeping and the commit.                               *)

\* Variant: COMMIT without finish_mutation.
RunThenCommit(a) ==
    /\ pc[a] = "run"
    /\ tx[a] = "open"
    /\ work' = [work EXCEPT ![a] = "ran"]
    /\ pc' = [pc EXCEPT ![a] = "commit"]
    /\ UNCHANGED <<published, req, rev, mid, outcome, tx, tables>>

\* run_statement returned the expected rows within the byte limit.
Run(a) ==
    /\ pc[a] = "run"
    /\ tx[a] = "open"
    /\ work' = [work EXCEPT ![a] = "ran"]
    /\ pc' = [pc EXCEPT ![a] = "finish"]
    /\ UNCHANGED <<published, req, rev, mid, outcome, tx, tables>>

\* finish_mutation moves the row and the audit attempt to `committed`.
Finish(a) ==
    /\ pc[a] = "finish"
    /\ tx[a] = "open"
    /\ work' = [work EXCEPT ![a] = "finished"]
    /\ pc' = [pc EXCEPT ![a] = "commit"]
    /\ UNCHANGED <<published, req, rev, mid, outcome, tx, tables>>

\* COMMIT leaves the client; the server may have ended the session already.
SendCommit(a) ==
    /\ pc[a] = "commit"
    /\ pc' = [pc EXCEPT ![a] = "sent"]
    /\ tx' = [tx EXCEPT ![a] = IF @ = "open" THEN "commit" ELSE @]
    /\ UNCHANGED <<published, req, rev, mid, outcome, work, tables>>

CommitAcknowledged(a) ==
    /\ pc[a] = "sent"
    /\ tx[a] = "committed"
    /\ pc' = [pc EXCEPT ![a] = "done"]
    /\ outcome' = [outcome EXCEPT ![a] =
                      CASE work[a] = "conflict" -> "conflict"
                        [] work[a] = "replay" -> "replayed"
                        [] OTHER -> "ok"]
    /\ UNCHANGED <<published, req, rev, mid, tx, work, tables>>

\* Variant: a failed commit is taken for a rollback.
CommitLossIsRollback(a) ==
    /\ pc[a] = "sent"
    /\ pc' = [pc EXCEPT ![a] = "record"]
    /\ outcome' = [outcome EXCEPT ![a] = "rolled_back"]
    /\ UNCHANGED <<published, req, rev, mid, tx, work, tables>>

\* Any error of commit(), whatever became of the transaction.
CommitIndeterminate(a) ==
    /\ pc[a] = "sent"
    /\ pc' = [pc EXCEPT ![a] = "record"]
    /\ outcome' = [outcome EXCEPT ![a] = "indeterminate"]
    /\ UNCHANGED <<published, req, rev, mid, tx, work, tables>>

-----------------------------------------------------------------------------
(* Failure.                                                               *)

\* The end of a transaction frees the rows it locked or inserted.
Release(a) ==
    holder' = [r \in RowId |-> IF holder[r] = a THEN NoOne ELSE holder[r]]

\* The status of an error by the stage that raised it (mutation_was_attempted).
FailureStatus(stage) ==
    IF stage \in {"run", "finish"} THEN "rolled_back" ELSE "rejected"

\* Variant: an error of the claim is not noticed.
FailOutsideClaim(a) ==
    /\ pc[a] \in {"prepare", "begin", "run", "finish"}
    /\ outcome' = [outcome EXCEPT ![a] = FailureStatus(pc[a])]
    /\ pc' = [pc EXCEPT ![a] = "record"]
    /\ UNCHANGED <<published, req, rev, mid, tx, work, tables>>

\* An error of any stage before COMMIT: a rejected document, a denied role, a
\* lock or statement timeout, a cancel request, a lost connection, a refused
\* replay.  Dropping the transaction rolls it back if the connection lives;
\* otherwise the server still has it.
Fail(a) ==
    /\ \/ pc[a] \in Working \ {"commit", "sent", "record"}
       \/ pc[a] = "commit" /\ work[a] = "replay"
    /\ outcome' = [outcome EXCEPT ![a] = FailureStatus(pc[a])]
    /\ pc' = [pc EXCEPT ![a] = "record"]
    /\ \/ UNCHANGED <<tx, holder>>
       \/ /\ tx[a] = "open"
          /\ tx' = [tx EXCEPT ![a] = "aborted"]
          /\ Release(a)
    /\ UNCHANGED <<published, req, rev, mid, work, rows, audit, effects>>

\* The row that record_mutation_failure inserts, under a fresh mutation id.
FailureRow(a) ==
    [att |-> a, mid |-> NoOne, replayed |-> FALSE, status |-> outcome[a]]

RecordFailure(a) ==
    /\ pc[a] = "record"
    /\ pc' = [pc EXCEPT ![a] = "done"]
    /\ audit' = audit \cup {FailureRow(a)}
    /\ UNCHANGED <<published, req, rev, mid, outcome, tx, work, rows, holder,
                   effects>>

\* The audit connection fails too, before or after the row is written.  The
\* error of the audit replaces the error of the mutation.
RecordFailureFails(a) ==
    /\ pc[a] = "record"
    /\ pc' = [pc EXCEPT ![a] = "done"]
    /\ outcome' = [outcome EXCEPT ![a] = "audit_failed"]
    /\ audit' \in {audit, audit \cup {FailureRow(a)}}
    /\ UNCHANGED <<published, req, rev, mid, tx, work, rows, holder, effects>>

\* The gateway process dies.
Crash(a) ==
    /\ pc[a] \in Working
    /\ pc' = [pc EXCEPT ![a] = "crashed"]
    /\ UNCHANGED <<published, req, rev, mid, outcome, tx, work, tables>>

-----------------------------------------------------------------------------
(* PostgreSQL.                                                            *)

\* The idempotency row and the audit row that the transaction of a inserts.
InsertedRow(a) ==
    [status |-> IF work[a] = "finished" THEN "committed" ELSE "started",
     subj |-> req[a].subj, role |-> req[a].role, lsm |-> req[a].lsm,
     rev |-> rev[a], mid |-> mid[a], replays |-> 0]

AttemptStatus(w) ==
    CASE w = "conflict" -> "rejected"
      [] w \in {"replay", "finished"} -> "committed"
      [] OTHER -> "started"

AttemptRow(a) ==
    [att |-> a, mid |-> mid[a], replayed |-> work[a] = "replay",
     status |-> AttemptStatus(work[a])]

\* Variant: replay_count is not incremented.
CommittedRowsNoReplay(a) ==
    IF work[a] \in {"claimed", "ran", "finished"}
    THEN [rows EXCEPT ![Own(req[a])] = InsertedRow(a)]
    ELSE rows

\* The idempotency table once the transaction of a has committed.
CommittedRows(a) ==
    CASE work[a] \in {"claimed", "ran", "finished"} ->
             [rows EXCEPT ![Own(req[a])] = InsertedRow(a)]
      [] work[a] = "replay" ->
             [rows EXCEPT ![Existing(req[a])].replays = @ + 1]
      [] OTHER -> rows

ServerCommit(a) ==
    /\ tx[a] = "commit"
    /\ tx' = [tx EXCEPT ![a] = "committed"]
    /\ rows' = CommittedRows(a)
    /\ audit' = audit \cup {AttemptRow(a)}
    /\ effects' = effects \cup {b \in {a} : work[b] \in {"ran", "finished"}}
    /\ Release(a)
    /\ UNCHANGED <<published, client, work>>

\* The server ends the session: a timeout, a terminated backend, a broken
\* connection, a restart, a constraint that fails at commit.
ServerAbort(a) ==
    /\ tx[a] \in {"open", "commit"}
    /\ tx' = [tx EXCEPT ![a] = "aborted"]
    /\ Release(a)
    /\ UNCHANGED <<published, client, work, rows, audit, effects>>

\* An operator publishes the next revision and retires the current one.
Publish ==
    /\ published < MaxRevision
    /\ published' = published + 1
    /\ UNCHANGED <<client, tx, work, tables>>

-----------------------------------------------------------------------------
ClientStep(a) ==
    \/ Load(a) \/ Begin(a)
    \/ ClaimSelect(a) \/ ClaimInsert(a) \/ ClaimReselect(a)
    \/ Run(a) \/ Finish(a) \/ SendCommit(a)
    \/ CommitAcknowledged(a) \/ CommitIndeterminate(a)
    \/ Fail(a) \/ RecordFailure(a) \/ RecordFailureFails(a)

Next ==
    \/ \E a \in Attempts :
          \/ Call(a) \/ AuditUnavailable(a)
          \/ ClientStep(a)
          \/ Crash(a)
          \/ ServerCommit(a) \/ ServerAbort(a)
    \/ Publish

Spec == Init /\ [][Next]_vars

\* Variant: no idle_in_transaction_session_timeout.
ServerEndsCommitsOnly(a) ==
    /\ tx[a] = "commit"
    /\ ServerCommit(a) \/ ServerAbort(a)

\* The server ends a transaction whose client is gone (idle_in_transaction_
\* session_timeout, or the closed socket) and answers a COMMIT it received.
ServerEnds(a) ==
    /\ tx[a] = "commit" \/ pc[a] \in {"record", "done", "crashed"}
    /\ ServerCommit(a) \/ ServerAbort(a)

\* Every wait of a call is bounded by connect, lock or statement timeouts, so
\* that a call which has not crashed keeps taking steps.
FairSpec ==
    /\ Spec
    /\ \A a \in Attempts : WF_vars(ClientStep(a)) /\ WF_vars(ServerEnds(a))

-----------------------------------------------------------------------------
(* Properties.                                                            *)

\* Two calls with the same authority and idempotency key never both change
\* business data, whatever races, retries, lost answers and crashes occur
\* (claim_mutation's insert and the wait for a concurrent one).
AtMostOnce ==
    \A a, b \in effects : Own(req[a]) = Own(req[b]) => a = b

\* A key that was used before migration 0008 is never executed again under the
\* new scheme: its legacy row answers every claim, by any authority, with a
\* replay or a conflict (claim_mutation's second SELECT).
LegacyKeyNotReexecuted ==
    \A k \in Keys : rows[<<Legacy, k>>] # NoRow =>
        /\ \A a \in effects : req[a].key # k
        /\ \A u \in Authorities : rows[<<u, k>>] = NoRow

\* Business data, idempotency row and audit attempt commit together: the DML
\* of a call is durable exactly if its committed row is, with the content it
\* compiled, and exactly if one executed attempt is audited; no transaction
\* ever commits a row or an attempt still `started` (execute_compiled calls
\* finish_mutation before commit).
EvidenceAgrees ==
    /\ \A a \in Attempts :
         LET r == rows[Own(req[a])]
             executed == [att |-> a, mid |-> a, replayed |-> FALSE,
                          status |-> "committed"]
         IN  /\ a \in effects <=> r # NoRow /\ r.mid = a
             /\ a \in effects <=> executed \in audit
             /\ a \in effects =>
                  r.lsm = req[a].lsm /\ r.role = req[a].role /\ r.rev = rev[a]
    /\ \A r \in RowId : rows[r] # NoRow => rows[r].status = "committed"
    /\ \A w \in audit : w.status # "started"

\* A failure that the audit table calls rejected or rolled_back, or that the
\* caller was told is one, never takes effect, not even when the server still
\* holds the transaction after the connection broke (execute_with_cancel
\* answers `indeterminate` once COMMIT was sent).
DefiniteFailure(a) ==
    \/ outcome[a] \in {"rejected", "rolled_back", "conflict", "unavailable"}
    \/ \E w \in audit : w.att = a /\ w.status \in {"rejected", "rolled_back"}

FailureIsFinal ==
    \A a \in Attempts : DefiniteFailure(a) =>
        a \notin effects /\ ~(tx[a] = "commit" /\ work[a] = "finished")

\* An acknowledged success is durable, and a replayed one names the mutation
\* that the row of the key records, for the same document, role and revision.
AnswerMatchesRow ==
    \A a \in Attempts :
        /\ outcome[a] = "ok" => a \in effects /\ mid[a] = a
        /\ outcome[a] = "replayed" =>
              LET r == rows[Existing(req[a])] IN
              /\ r # NoRow
              /\ r.mid = mid[a]
              /\ r.lsm = req[a].lsm /\ r.role = req[a].role /\ r.rev = rev[a]
              /\ a \notin effects

\* replay_count counts the committed replays of the row and nothing else: a
\* replay whose commit was lost, or that failed, counts exactly if audited.
ReplaysCounted ==
    \A r \in RowId : rows[r] # NoRow =>
        rows[r].replays =
            Cardinality({w \in audit : w.replayed /\ w.mid = rows[r].mid})

\* Reconciliation shows a call's own mutation exactly if that call took
\* effect, so an indeterminate answer can always be resolved; and it hides
\* nothing that a retry would replay (lookup_mutation_idempotency chooses the
\* same row as claim_mutation).
ReconcileResolves ==
    /\ \A a \in Attempts :
          a \in effects <=> Lookup(req[a]) # NoRow /\ Lookup(req[a]).mid = a
    /\ \A q \in Requests, v \in Revisions :
          LET r == Existing(q) IN
          rows[r] # NoRow /\ ~Mismatch(r, q, v) => Lookup(q) = rows[r]

\* A committed idempotency row is never deleted, rebound or reassigned; a step
\* may at most add one replay to it.
RowsAreStable ==
    [][\A r \in RowId : rows[r] # NoRow =>
          /\ rows'[r] # NoRow
          /\ rows'[r] \in {rows[r],
                           [rows[r] EXCEPT !.replays = rows[r].replays + 1]}]_vars

\* Every call that starts is answered, unless its process dies: no call waits
\* for ever on a row that another one holds.
CallsFinish ==
    \A a \in Attempts : pc[a] = "prepare" ~> pc[a] \in {"done", "crashed"}

\* A row is never left locked by a call that failed, crashed or lost its
\* connection.
RowsAreFreed ==
    \A r \in RowId, a \in Attempts : holder[r] = a ~> holder[r] # a

\* ADR 0011: "A connection loss during commit is returned as `indeterminate`".
\* A call that returned after its COMMIT reached the server, and that was not
\* answered by the claim's own disposition, says that the outcome is unknown.
CommitLossIsReported ==
    \A a \in Attempts :
        pc[a] = "done" /\ tx[a] \in {"commit", "committed"} =>
            outcome[a] \in {"ok", "replayed", "conflict", "indeterminate"}

=============================================================================
