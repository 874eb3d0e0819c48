# A TLA+ model of postgresem

postgresem is a gateway between MCP clients and PostgreSQL. Clients send logical
documents (LSQ queries, LSM mutations) over stdio or HTTP. The gateway
authenticates the caller, loads the published semantic revision, compiles the
document to parameterised SQL, runs it under a mapped database role and leaves
audit evidence in the `semantic` schema of the database.

These modules model the parts of it where several actors meet (concurrent calls,
PostgreSQL transactions and locks, broken connections, cancel requests, crashes
and retries) as state machines, and its validators, compilers, comparisons and
converters as operators that are checked against reference definitions. They
are translated from `src/crates` and `src/migrations`; `PROJECT.json` gives the
lines of every definition.

## The parts of the system

| Part | Source | Modelled in |
| --- | --- | --- |
| Mutation executor, idempotency and mutation audit functions | `mutation_executor.rs`, migrations 0005, 0008, 0009, 0011 | `Mutation` |
| HTTP admission: semaphores, principal limiter, body timeout | `mcp_http.rs`, `mcp_http_rate.rs` | `Gateway` |
| HTTP streaming, cancellation on disconnect, shutdown | `mcp_http.rs`, `database.rs` | `QueryStream` |
| Query executor and query audit | `executor.rs`, migration 0003 | `QueryStream` |
| Revision lifecycle: draft, published, retired; triggers and locks | migrations 0001, 0006, 0007 | `Revision` |
| Published model loader | `published_model.rs`, migration 0002 | `PublishedModel`, `Revision` |
| MCP dispatcher, stdio line reader, HTTP requests, pagination cursor | `mcp.rs`, `mcp_http.rs` | `Mcp` |
| HTTP authority: documents, keys, tokens, roles | `mcp_http_auth.rs` | `Authority`, `AuthorityServer` |
| LSQ normaliser and query compiler | `lsq.rs`, `compiler.rs` | `Compiler`, `Sql`, `Semantics` |
| LSM normaliser and mutation compiler | `lsm.rs`, `mutation.rs` | `MutationCompiler`, `Semantics` |
| Semantic snapshot and diff | `semantic.rs`, `diff.rs` | `SnapshotDiff`, `Semantics` |
| Catalog types and diff, scaffolding | `catalog_types.rs`, `catalog_diff.rs`, `authoring.rs` | `Catalog`, `Authoring` |
| Catalog scanner | `catalog.rs` | its result, in `Catalog` |
| OSI import and export | `osi.rs` | `Osi`, `Semantics` |
| Migration runner | `migrations/run.sh` | not modelled |
| Reports, command line, doctor, benchmark, scripts | | not modelled: no protocol state |

How they interact. A transport (stdio or HTTP) hands a request to the dispatcher,
which calls the query or the mutation executor. Both executors load the published
revision in a transaction of their own and then run the compiled statement in a
second one. A mutation claims its idempotency key, runs its DML and finishes its
bookkeeping in one transaction; a failure is audited over another connection.
The HTTP transport bounds all of this with permits that the worker thread owns,
and cancels the statement of a client that went away. Operators publish
revisions and reconcile indeterminate mutations while calls are in flight.

`PROJECT.json` lists the hazards of each part at the line where they bite, with
the properties that cover them.

## The modules

- `Mutation`: the protocol, its properties and its fairness.
- `MutationContract`: what a caller is promised, without transactions, locks,
  connections or audit tables.
- `MutationRefinement`: the mapping under which `Mutation` implements the
  contract.
- `MutationInvariant`: the inductive invariant.
- `MutationSteps`, `MutationProofs`, `MutationTheorems`: the proofs, what one step does,
  that the invariant is inductive and what follows from it.
- `MCMutation` and `MCMutation*.cfg`: instances for TLC.
- `Gateway`, `GatewayProofs`, `MCGateway`: HTTP admission, its proofs and its
  instance.
- `QueryStream`, `QueryStreamProofs`, `MCQueryStream`: a streamed query, its proofs
  and its instance.
- `PublishedModel`, `Revision`, `RevisionProofs`, `MCRevision`: the loader as operators,
  revisions under concurrent sessions, their proofs and their instance.
- `Mcp`, `McpProofs`, `MCMcp`: the MCP server behind both transports, its proofs and its
  instance.
- `Authority`, `Compiler`, `Sql`, `MutationCompiler`, `SnapshotDiff`, `Catalog`, `Osi`:
  the pure parts as operators; `Checks` has the few that they share.
- `AuthorityServer`, `Authoring`, `JobProofs`: a server that starts and authenticates,
  scaffolding and a later scan, and the proofs about both.
- `Semantics`, `MCSemantics`: all the pure parts put to use, and the inputs for TLC; `Job`
  has the variable that they share.

### Mutation

An element of `Attempts` is one call of `MutationExecutor::execute_with_cancel`.
The client side and the server side of a call have separate state, because the
connection between them can break: the client then goes on to record a failure
while the server still holds, commits or rolls back the transaction.

| Variable | Code |
| --- | --- |
| `published` | the revision that `load_published` reads |
| `pc` | the stage of `execute_with_cancel` and `execute_compiled` |
| `req` | authority, subject, role, key and canonical document of the call |
| `rev`, `mid` | the revision it compiled against, the mutation id of its claim |
| `outcome` | the status of its error, then its answer |
| `tx`, `work` | its transaction on the server and what that has written |
| `rows`, `audit` | the committed `mutation_idempotency` and `mutation_audit` |
| `holder` | the row lock, or the uncommitted insert, on an idempotency row |
| `effects` | calls whose DML is committed business data |

| Actions | Code |
| --- | --- |
| `Call`, `AuditUnavailable`, `Load`, `Begin` | `execute_with_cancel` up to the transaction of `execute_compiled` |
| `ClaimSelect`, `ClaimInsert`, `ClaimReselect` | `claim_mutation` (0008), one action per statement that can wait |
| `Run`, `Finish`, `SendCommit`, `CommitAcknowledged`, `CommitIndeterminate` | `execute_compiled`, `finish_mutation` |
| `Fail`, `RecordFailure`, `RecordFailureFails` | the error paths and `record_mutation_failure` |
| `ServerCommit`, `ServerAbort` | PostgreSQL: the transaction ends, its locks are released |
| `Crash`, `Publish` | the gateway process dies; an operator publishes a revision |

`Lookup` is `lookup_mutation_idempotency` (0011), read by `mutation reconcile`.

Abstractions. The content of the DML is one bit: did the call change business
data. A canonical document, a role and a subject are atoms; hashes are injective.
Durations, row contents and result JSON are left out. Timeouts and cancel
requests appear as `Fail` and `ServerAbort`, which may happen at every stage
before the commit is decided. The transactions run at READ COMMITTED, as the
executor starts them, so there are no serialisation failures.

### The contract

`MutationContract` has a ledger, the requests and the answers. A scope is bound at
most once. A call may take effect while it is pending or after the answer
`unknown`, never after `failed`. `replayed` and `conflict` describe the binding
that governs the request. The refinement mapping reads the ledger from the
committed rows and the answers from `outcome`; an indeterminate call, and one
whose failure audit failed, maps to `unknown`.

### Gateway

A request is a handler (`pc`, one stage of `handle_mcp` per label) and, once it
is dispatched, a blocking task (`task`). The two end separately: a response may
time out or lose its client while the task goes on with the permits it owns.

| Variable | Code |
| --- | --- |
| `preAuth`, `authenticated`, `database` | free permits of the three semaphores of `HttpState` |
| `tokens`, `refilled`, `active` | the `Bucket` of a principal |
| `conns` | database connections that tasks have open |
| `now`, `admitted` | the clock; a history of admissions |

`Arrive`, `Screen`, `Limit`, `Seat`, `Body`, `Parse` and `Dispatch` are the
stages of `handle_mcp`; `ScreenFails`, `BodyFails`, `ParseFails`, `Refuse` and
`Deny` its early returns, each with the permits that it drops. `Start`, `Connect`
and `End` are the blocking task, `Respond` and `Abandon` the response. Nothing is
awaited before the body, so a lost client is first noticed there.

Tokens are counted in units, `Unit` to a token and `Rate` to a tick, which makes
the refill exact; the code computes it in 64-bit floating point, and its rounding
is not modelled. A bucket is full from the start, as the first request of a
principal creates it. The short-lived connection of a cancel request takes no
permit in the code and is not counted in `conns`.

### QueryStream

One call of `query_semantic_model` over HTTP. Calls share only the published
revision, so one call beside a publisher has all the interleavings.

| Variable | Code |
| --- | --- |
| `stream`, `armed` | the event stream of `streaming_response` and its `CancelOnDrop` |
| `handle`, `disconnected`, `finished` | `CancellationControl` |
| `canceller`, `attempts` | the thread that `CancelOnDrop::drop` spawns |
| `pc`, `outcome`, `loaded`, `total`, `fetched` | the worker in `execute_with_cancel` and `execute_compiled` |
| `busy` | PostgreSQL is running a statement of the source transaction |
| `row` | the call's row of `semantic.query_audit` |
| `role` | what PostgreSQL says of the mapped role |
| `server` | serving, draining, stopping, exited |

`Answer`, `Expire`, `EndStream` and `Disconnect` are the stream; `Start` to `Finish`
the worker, each statement of the source transaction an `Issue` and an end of its
own; `CheckWorker`, `CancelMisses` and `CancelHits` the thread; `Drain`, `Stop` and
`Exit` the shutdown of `serve_async`. A cancel request that finds no statement
running does nothing, as in PostgreSQL. The handle is registered before the source
transaction begins, so a request may end `BEGIN`, a guard statement, the query or
`COMMIT`.

### Revision and PublishedModel

Sessions edit child rows, set the schema version, publish and retire in READ
COMMITTED transactions. Each statement is one action: it waits while another
transaction holds a conflicting lock, sees what is committed and its own changes,
and rolls its transaction back if a trigger or constraint refuses it.

| Variable | Code |
| --- | --- |
| `rev`, `rows` | committed `semantic.revision` and the rows of its child tables |
| `revWrites`, `rowWrites` | a session's uncommitted changes |
| `share`, `keyShare` | `FOR SHARE` of `require_draft_revision`, `FOR KEY SHARE` of foreign keys |
| `seen` | the hash that a publisher has computed |
| `reading`, `loads`, `refusals` | the loader's snapshot and its last result |

`Edit`, `SetSchema`, `Survey`, `Publish`, `Retire`, `Commit`, `Abort` and the loader's
`LoadRevision` and `LoadTables` are the actions. `PublishedModel` has what each stage
of `load_published_internal` refuses and the snapshot it assembles; a hash is the
snapshot that it is computed from. The order of a policy's returned names is kept as
the set of the pairs in it. A deadlock that PostgreSQL would break is an `Abort`.

### Mcp

A process serves stdio or HTTP. On stdio `ReadBuffer` and `ReadEof` are
`read_bounded_line` with `serve_io`: input bytes arrive in buffers of any size. Over
HTTP `HttpCall` is an authenticated request through the header checks to `dispatch`.
`Page` is a client that follows the cursors of `list_semantic_models`, while
`Publish` changes the models. `Dispatch`, `CallTool` and the operators of the tools
give the code of an answer, the connections it opens and whether it executes a
document.

### The pure parts

`Semantics` has one variable, the job in hand, and one action per use of the code:
start a server from an authority document and authenticate a token; compile a
query, execute it, compile it again after a republish; compile and execute a
mutation; scaffold from a catalog and compare it with a later scan; import an OSI
document and export it again. The first two actions are those of `AuthorityServer` and
the scaffolding ones those of `Authoring`, each a specification of its own
(`ServerSpec`, `ScaffoldSpec`) in which any other use may happen (`OtherUse`). Every
other action of `Semantics` makes a job of a kind that neither of them names, so a
behaviour of `Semantics` is one of both. That is read off the actions and not a theorem:
`Semantics` reaches recursive operators, and the prover takes none. The operators are in
the modules of the parts:

- `Authority`: `validate`, `load_keys`, `prepare_server`, `authenticate_at`.
- `Compiler`: `validate_query`, resolution, the refusals of `validate`, and the
  statement as a structure. `Sql` says what PostgreSQL computes for it.
- `MutationCompiler`: `validate_mutation`, `compile_lsm`, and the INSERT or upsert.
- `SnapshotDiff`, `Catalog`: the two comparisons, type mapping, `scaffold`.
- `Osi`: `import` and `export`.

A check that the code makes with `?` is an error name, and `Then` and `FirstOf` keep
the order of the checks. Optional values are sets of at most one element. Names,
hosts and identifiers are values; what their syntax must be is one fact
(`wellFormed`, `Portable`). Entity keys are unique and not null in the databases of
`Sql`, which is what `authoring.rs:264` asks of the constraint behind one.

## The runs

| Run | Instance | Shows |
| --- | --- | --- |
| `retry` | 3 calls, 1 key, 2 documents; symmetric calls | `AtMostOnce`, `EvidenceAgrees`, `FailureIsFinal`, `ReplaysCounted`, `IndInv`, `ContractHolds` |
| `binding` | 2 calls, 2 authorities, subjects, roles, documents and revisions, 2 keys, one with a legacy row | `LegacyKeyNotReexecuted`, `AnswerMatchesRow`, `ReconcileResolves`, `RowsAreStable` |
| `live` | 2 calls on one key, with fairness, no symmetry | `CallsFinish`, `RowsAreFreed` |
| `gateway` | 3 requests of 2 principals, each limit below the demand, burst 1, with fairness | `PermitsAccounted`, `ConnectionsBounded`, `GatewayInv`, `RateBound`, `PermitsReturn` |
| `query_stream` | results of up to 3 rows, of which 2 fit, 3 cancel requests, 2 revisions, with fairness | `StreamInv`, `NoMissedCancellation`, `SourceIsGuarded`, `SuccessIsAudited`, `RowsAreClosed`, `TruncationIsExact`, `StreamEnds`, `CancelledWorkEnds` |
| `revision` | 2 sessions, 2 revisions, a row change per transaction; symmetric | `RevisionInv`, `AnchorsStayValid`, `OnePublished`, `LoadsAreWhole`, `PublishedIsFrozen` |
| `mcp` | lines around a limit of 2 bytes, 2 revisions of models, 3 principals of 2 authorities, every method and tool | `LinesAreAnswered`, `WalkIsExact`, `CallsAreCovered` |
| `semantics` | orders of customers with items; documents that fail each check in turn | `TokenWindow`, `AuthorityIsPrepared`, `FanoutCountsOnce`, `CompatibleKeepsQueries`, `MutationWritesExactly`, `DriftKeepsScaffold`, `ImportsRoundTrip` |
| `commit_loss`, `query_cancel_audit`, `mcp_cursor`, `semantics_zone` | as the runs of their modules | disagreements, see Findings |

What they say, beyond their names:

- `SuccessIsAudited`: rows that reach a client have an audit row `succeeded` for the
  same revision and row count. `RowsAreClosed`: a row stays `started` only if the
  audit database failed.
- `CancelledWorkEnds`: a dropped response stops its worker even if the query would
  run for ever and the first cancel requests fall between two statements.
- `PublishedIsFrozen`: an edit that began in a draft commits before the publication
  or not at all. `LoadsAreWhole`: a load that succeeds has what each stored row says and
  nothing else, refers to nothing it does not hold, and has the hash of its revision;
  the constraints keep it from its "unknown model" errors.
- `LinesAreAnswered`: however bytes arrive, the answers are those of the lines.
  `WalkIsExact`: pages of two revisions or two authorities are never put together.
- `FanoutCountsOnce`: an accepted query counts each row of its model once per group,
  evaluated over small databases. `CompatibleKeepsQueries`: after a compatible
  change an accepted query compiles to the same statement.
- `MutationWritesExactly`: an executed mutation writes its rows and columns and
  nothing else. `DriftKeepsScaffold`, `ImportsRoundTrip`: a scaffolded snapshot stays
  true across a compatible drift, and what import accepts can be queried, exported
  and imported again.

`CompatibleKeepsQueries` has one exception in its statement. A change that stops a
valid query is breaking by `docs/compatibility.md:376`, but `diff_named` takes the
removal of a hidden object for compatible (`docs/compatibility.md:135` allows it),
and a hidden entity key may have a relationship or an anchor resting on it. Such a
query is then refused, never answered differently, and the property says so.

Bounds. Three calls on one key are the smallest instance in which a call inserts,
a second one waits for it and a third meets the committed row, with every
combination of lost commits; further calls on the key repeat the role of the
third. Two calls suffice for `binding`, where the question is how the columns of
one row compare with one request, and each column takes two values. A second
revision is enough for a retry to meet a row of another one. The runs reach about
565 000, 560 000 and 23 000 distinct states. Calls end and are not restarted, so
the system may stop: deadlock is not checked.

In `gateway` every limit is below what the three requests can ask for, so each refusal
happens, and the odd number of database permits lets one be left over. Three ticks and
three requests are the least with which a refused request can fall between two
admissions. In `query_stream` the second row fits exactly and the third does not; a
call, a thread and a shutdown happen once each. In `revision` two sessions are enough
for each lock to be waited for, and a second writer repeats the role of the first; with
one changed row per transaction a metric and the field it is anchored on are changed by
two transactions, which is the hard case. In `mcp` lines are one byte shorter, as long
and longer than the limit, in buffers of every split. In `semantics` the inputs are one
good document of each kind and the ways in which it can fail one check; integers are 5
bits wide so that both ends are reached. The runs reach about 62 000, 138 000, 63 000,
77 000 and 33 000 states. A query, a job and a client's walk end, so deadlock is checked
only where sessions can always go on.

Fairness. `FairSpec` assumes that a call which has not crashed keeps taking
steps, and that the server ends a transaction whose COMMIT it received or whose
client has left. The code justifies it: the connections have connect timeouts,
the transaction sets `lock_timeout`, `statement_timeout` and
`idle_in_transaction_session_timeout`, and a closed socket ends a session. The
wait for a row is not itself assumed to be short: a waiting call may be refused
by its lock timeout, which is `Fail`. For the gateway it assumes that a handler
keeps taking steps (the body and the response have deadlines) and that a task is
started and ends (its waits on the database have timeouts); clients and the clock
need not move. For a streamed query it assumes that the deadline of the stream
passes, that the worker's own steps, connects and guard statements end (they have
timeouts), that `COMMIT` ends and that the thread is scheduled. Nothing is assumed of
the query itself.

### Findings

`commit_loss`. ADR 0011 (decision 8, line 45) says that a connection loss during commit
is returned as `indeterminate`. The call returns the error of the failure audit
instead when that fails as well (`mutation_executor.rs:447`). The run
`commit_loss` shows the sequence: the commit reaches the server, the
acknowledgement is lost, `record_mutation_failure` fails, and the answer does not
say that the outcome is unknown. Its code, `MUTATION_GUARD_CONFIGURATION_FAILED`,
is listed as not retryable in `docs/error-reference.md:218`. Reconciliation still
resolves the key (`ReconcileResolves`).

`query_cancel_audit`. ADR 0015 (line 194) says that the query audit records
`cancelled` after PostgreSQL confirms cancellation. Only an error of the query
statement, or a refused registration, gives that status (`executor.rs:427`); a
request that ends `BEGIN`, a guard statement or `COMMIT` leaves `failed`.

`mcp_cursor`. The schema of `list_semantic_models` admits cursors of 128 characters
(`mcp.rs:29`, `mcp.rs:1603`); the cursors that it returns have two identifiers of 71
characters (`mcp.rs:1151`).

`semantics_zone`. ADR 0003 (line 21) says that a date compared with a `timestamptz`
is midnight in the model's time zone. That holds for comparisons; IN lists and
metric filters are cast under the session's `TimeZone` (`compiler.rs:1085`, 928, 1028).

## The proofs

Everything below is proved for any number of calls, authorities, keys, documents,
revisions and legacy rows, from two assumptions on the constants:
`ConstantsAssumption` (requests are well formed, the markers are distinct from
the values) and `LegacyAssumption` (rows that predate migration 0008 are
committed, at most one per key, each under its own mutation id; the old primary
key and the migration's check give that).

| Theorem | States |
| --- | --- |
| `Invariance` | `Spec => []IndInv` |
| `TypeCorrect` | `TypeOK` |
| `ExecutedAtMostOnce` | `AtMostOnce` |
| `LegacyKeysRetired` | `LegacyKeyNotReexecuted` |
| `EvidenceNeverDiverges` | `EvidenceAgrees` |
| `FailuresAreFinal` | `FailureIsFinal` |
| `AnswersAreTrue` | `AnswerMatchesRow` |
| `ReplaysAreCounted` | `ReplaysCounted` |
| `ReconciliationResolves` | `ReconcileResolves` |
| `RowsStayStable` | `RowsAreStable` |
| `ImplementsContract` | `ContractHolds`: `Spec` implements `MutationContract` |

The argument. None of the properties is inductive: `AtMostOnce` speaks of
committed effects only and says nothing of two transactions about to commit. The
invariant adds what orders them.

- `ControlInv`: the stage of a call determines what its transaction has written,
  and a transaction is committing only after COMMIT was sent.
- `LockInv`: only a live transaction holds a row, and one that executes holds its
  own row while that row is unbound. Two calls therefore never execute under one
  scope at a time.
- `NoLegacyInv`: nobody who passed the legacy lookup has a legacy row for its
  key, because no legacy row is ever created.
- `DecisionInv`: a replay or conflict was decided on the row that still governs
  the key.
- `LedgerInv`: a row belongs to the one call that executed under it.
- `AuditInv`: an audit row is the row of a committed transaction, or the failure
  row of a call that returned.

`MutationSteps` and `MutationProofs` show that each part is preserved by each action;
`MutationTheorems` derives the properties and maps every step to a step of the contract or to a stutter.

For the gateway, from `LimitsAssumption` (finitely many requests, limits that are
natural numbers; the other conditions of the configuration are not needed):

| Theorem | States |
| --- | --- |
| `GatewayInvariance` | `Spec => []GatewayInv` |
| `PermitsAreAccounted` | `PermitsAccounted` |
| `ConnectionsStayBounded` | `ConnectionsBounded` |
| `RateIsBounded` | `RateBound` |

Each account is a count of holders, so the proof shows once that a step which
moves one request changes a count by that request's membership (`HoldersMove`),
and then for each action that the semaphore changes by the same (`Balanced`).
`StageInv` says that a handler has no task before it dispatches one, without which
a permit could have two owners. `ConnectionInv` places every connection with a
holder of two permits. `BucketInv` adds the tokens left to the admissions, which
`RateBound` forgets.

For a streamed query, from `StreamAssumption` (positive bounds, a finite result):

| Theorem | States |
| --- | --- |
| `CallInvariance`, `StreamInvariance` | `Spec => []CallInv`, `Spec => []StreamInv` |
| `NoCancellationMissed` | `NoMissedCancellation` |
| `SourceStaysGuarded` | `SourceIsGuarded` |
| `SuccessesAreAudited` | `SuccessIsAudited` |
| `RowsGetClosed` | `RowsAreClosed` |
| `TruncationsAreExact` | `TruncationIsExact` |

`RowInv` ties the stage of the worker to what its row says and what the client may
have; `ControlInv` ties handle and flag to the thread: a source transaction runs
only with a handle, and a dropped response with a handle has a thread, which is done
only after the worker. Without the handle in the invariant, a registration after the
disconnect could not be excluded. `FetchInv` ties the byte count of the row loop to the
rows fetched so far: it is the length of the array that they would be printed as. That
one, and what follows from it about the longest prefix that fits, is an induction over
the rows; see below for how it is done.

For revisions, from `BaseAssumption` (the first rows meet the constraints and have their
own keys; a row belongs to a table, a writable model to its model), for any number of
sessions, revisions, rows and statements:

| Theorem | States |
| --- | --- |
| `StoreInvariance`, `RevisionInvariance` | `Spec => []StoreInv`, `Spec => []RevisionInv` |
| `AtMostOnePublished` | `OnePublished` |
| `AnchorsAlwaysValid` | `AnchorsStayValid` |
| `PublishedStaysFrozen` | `PublishedIsFrozen` |
| `LoadsAreAlwaysWhole` | `LoadsAreWhole` |

The first three properties speak of committed rows, the danger is in what is not yet
committed. `LockInv`: who has written rows holds their revision in share mode and it
is a draft; who has written a revision shares it with nobody. `PublicationInv`: who
publishes sees no other published revision and nobody else is publishing.
`ReferenceInv`: no two sessions write one row, nobody writes what another's row refers
to, and what each session sees meets the constraints. The lemma `Merged` is the heart
of the proof for `Commit`: two transactions that keep apart in that way, and are valid
each by itself, are valid together.

`StoreInv` is these three and the types. `LoaderInv` adds what a load in progress has
read: rows of a revision that was published when it began, and is therefore frozen
since. A load that reports no error then has a place for each row (`RowsArePresent`),
nothing else (`NothingIsAdded`) and no name that refers to nothing (`SnapshotIsClosed`),
because of what the constraints and the stages of the loader exclude between them.

For the MCP server, from `McpAssumption` (a revision is a list of named models, an input
is a sequence of bytes, the limits are natural numbers):

| Theorem | States |
| --- | --- |
| `McpInvariance` | `Spec => []McpInv` |
| `LinesAreAlwaysAnswered` | `LinesAreAnswered` |
| `WalksAreExact` | `WalkIsExact` |
| `CallsStayCovered` | `CallsAreCovered` |

`LinesAreAnswered` compares the answers with `DueFor`, which reads the input byte by
byte and knows nothing of buffers. `ReadInv` says where between two buffers the reader
is: `line` is what follows the last line feed, or nothing once that is over the limit,
and `oversized` remembers it. `BytesAreTaken` is the heart of the proof: the bytes of a
buffer up to its first line feed lengthen the line by just as much as `DueAt` advances.
`WalkInv` says that a cursor holds the number of models that its one client has of its
revision; `SpanJoins` puts the next page after them. `CallsAreCovered` is inductive
beside `ProcessInv`, by cases on the method and the tool.

For the authority, from `TimeAssumption` (the limits on skew and age are far inside the
range of the integers) and `InputAssumption` (principals are a list, sizes are unsigned,
the times of a token are in range and the clock is not before 1970):

| Theorem | States |
| --- | --- |
| `TimesAreExact` | `check_time`, in which every sum saturates, accepts a token exactly when the clock is in its window |
| `ServerInvariance` | `ServerSpec => []ServerInv` |
| `TokensAreExact` | `TokenWindow` |
| `RolesArePrepared` | `AuthorityIsPrepared` |

`ServerInv` keeps what a request was answered from: a document that `prepare_server` let
start and the answer of `authenticate`. The two properties are then about operators: each
check of the chain is refuted or established in its turn, for any list of principals and
keys.

For scaffolding, from `CatalogAssumption` (relations have a schema and a name, columns a
position, and a constraint names no column twice, as PostgreSQL sees to):

| Theorem | States |
| --- | --- |
| `ScaffoldInvariance` | `ScaffoldSpec => []ScaffoldInv` |
| `ScaffoldsSurviveDrift` | `DriftKeepsScaffold` |

The property relates three computations, `scaffold` twice and `diff_catalogs`, so the
proof shows what a drift without a breaking or reviewable change leaves alone (columns,
their types, the enforced keys), that `scaffold` reads only that, and that
`diff_snapshots` finds nothing to object to between the two results.

Induction over data. The library's induction theorems cannot be instantiated here, so
the modules that need one derive it from the well-foundedness of the naturals:
a set of naturals that holds 0 and is closed under successor is `Nat` (`Induction`).
`Recursion` in `McpProofs` derives that a recursive function over `Nat` exists and
satisfies its equation, which gives the facts about `DueAt` and `Queryable`.

`McpInv`, `ServerInv` and `ScaffoldInv` are not listed in a run: what the runs of these
modules check follows from them, and the theorems establish them.

Only model-checked:

- liveness under fairness (`CallsFinish`, `RowsAreFreed`, `PermitsReturn`, `StreamEnds`,
  `CancelledWorkEnds`), which is out of the prover's reach;
- `FanoutCountsOnce`, `CompatibleKeepsQueries`, `MutationWritesExactly` and
  `ImportsRoundTrip`. They are stated in `Semantics`, and the first two and the last are
  about what the compiler makes of a filter, a tree that recursive operators walk
  (`Visited`, `Predicate`, `Truth`). `MutationWritesExactly` is about rows placed one
  after the other with a fold, so a proof is an induction over an operator. For these
  four the instance is all there is;
- the properties of the runs that are expected to fail, which are counterexamples.

## Not modelled

SQL text, JSON, hashing and token signatures are libraries or text. Network
delivery of a claim after its call has failed is covered by the server keeping
the transaction open, but a statement that arrives at the server after the client
gave up, and extends what the transaction wrote, is not: such a transaction has no
COMMIT and can only be rolled back. The refill of the limiter is exact where the
code uses floating point.

The catalog scanner is SQL over the system catalogs and the conversion of its rows;
`Catalog` starts from its result. The migration runner is a shell loop: each
migration records its version in the transaction of its changes, so that a second
runner's application is rolled back. Reports are read-only aggregates. The command
line, the contract manifest, doctor, benchmark and the operator scripts have no
protocol state. The metadata and health routes take no permit and change nothing.
