---------------------------- MODULE QueryStream -----------------------------
(***************************************************************************)
(* One call of query_semantic_model over HTTP: the event stream and its     *)
(* cancel guard (streaming_response), CancellationControl, the cancel       *)
(* thread, the worker that runs execute_with_cancel (executor.rs), the row  *)
(* it keeps in semantic.query_audit, and the shutdown of the server.        *)
(*                                                                         *)
(* Calls share nothing but the published revision, so that one call beside  *)
(* a publisher has all the interleavings.  busy is whether PostgreSQL is    *)
(* running a statement of the call's source transaction: a cancel request   *)
(* that arrives between two statements does nothing.                        *)
(***************************************************************************)
EXTENDS Naturals, Sequences

CONSTANTS
    Revisions,       \* how many revisions are published, one after the other
    RowBytes,        \* JSON lengths of the rows of the longest result
    MaxResultBytes,  \* max_result_bytes of the executor
    MaxAttempts      \* cancel requests the thread sends before its deadline

ASSUME StreamAssumption ==
    /\ Revisions \in Nat \ {0}
    /\ RowBytes \in Seq(Nat \ {0})
    /\ MaxResultBytes \in Nat \ {0}
    /\ MaxAttempts \in Nat \ {0}

VARIABLES
    server,     \* the process: serving, draining, stopping, exited
    stream,     \* the event stream
    armed,      \* CancelOnDrop::armed
    handle,     \* CancellationState::handle is set
    disconnected,
    finished,   \* worker_finished
    canceller,  \* the postgresem-pg-cancel thread
    attempts,   \* cancel requests it has sent
    pc,         \* where the worker is
    busy,       \* a statement of the source transaction is running
    role,       \* what PostgreSQL says of the mapped role
    published,  \* the revision published now
    total,      \* rows of the query's result, known once it runs
    loaded,     \* the revision the call works on, 0 before it is read
    row,        \* the call's row in query_audit
    fetched,    \* rows read so far, with their byte_count and truncated
    outcome,    \* what execute_with_cancel is about to return
    event,      \* the event sent to the client
    auditLost,  \* history: a call of the audit functions failed
    confirmed   \* history: a cancel request has ended a statement

control == <<handle, disconnected, finished>>
thread == <<canceller, attempts>>
call == <<role, total, loaded, fetched>>
history == <<auditLost, confirmed>>
vars == <<server, stream, armed, control, thread, pc, busy, call, published, row,
          outcome, event, history>>

Preparing == {"connect", "load", "compile", "connect_audit", "start_audit", "register"}
Source == {"begin", "guard", "query", "rows", "commit"}
Statuses == {"started", "succeeded", "failed", "cancelled"}
Errors == {"unavailable", "invalid", "audit", "cancelled", "guard", "role", "source",
           "row_shape", "commit"}
NoRow == [status |-> "none", revision |-> 0, rows |-> 0, error |-> "none"]
NoEvent == [kind |-> "none", revision |-> 0, rows |-> 0]

TypeOK ==
    /\ server \in {"serving", "draining", "stopping", "exited"}
    /\ stream \in {"open", "answered", "expired", "ended"}
    /\ armed \in BOOLEAN /\ handle \in BOOLEAN /\ disconnected \in BOOLEAN
    /\ finished \in BOOLEAN /\ busy \in BOOLEAN
    /\ canceller \in {"none", "check", "cancel", "gave_up", "done"}
    /\ attempts \in 0 .. MaxAttempts
    /\ pc \in {"queued", "finish", "send", "returned"} \cup Preparing \cup Source
    /\ role \in [exists : BOOLEAN, unsafe : BOOLEAN, owner : BOOLEAN, member : BOOLEAN]
    /\ total \in 0 .. Len(RowBytes)
    /\ published \in 1 .. Revisions /\ loaded \in 0 .. Revisions
    /\ row \in [status : Statuses \cup {"none"}, revision : 0 .. Revisions,
                rows : 0 .. Len(RowBytes), error : Errors \cup {"none"}]
    /\ fetched \in [rows : 0 .. Len(RowBytes), bytes : Nat, truncated : BOOLEAN]
    /\ outcome \in Errors \cup {"none", "ok"}
    /\ event \in [kind : Errors \cup {"none", "rows", "too_large", "timeout"},
                  revision : 0 .. Revisions, rows : 0 .. Len(RowBytes)]
    /\ auditLost \in BOOLEAN /\ confirmed \in BOOLEAN

SafeRole == [exists |-> TRUE, unsafe |-> FALSE, owner |-> FALSE, member |-> TRUE]

\* A role the executor accepts, or one that fails one of its checks.
RoleFacts ==
    {SafeRole, [SafeRole EXCEPT !.exists = FALSE], [SafeRole EXCEPT !.unsafe = TRUE],
     [SafeRole EXCEPT !.owner = TRUE], [SafeRole EXCEPT !.member = FALSE]}

\* streaming_response: the worker is queued, the guard armed, the stream open.
Init ==
    /\ server = "serving" /\ stream = "open" /\ armed = TRUE
    /\ handle = FALSE /\ disconnected = FALSE /\ finished = FALSE
    /\ canceller = "none" /\ attempts = 0
    /\ pc = "queued" /\ busy = FALSE
    /\ role \in RoleFacts
    /\ published = 1 /\ loaded = 0 /\ total = 0
    /\ row = NoRow
    /\ fetched = [rows |-> 0, bytes |-> 2, truncated |-> FALSE]
    /\ outcome = "none" /\ event = NoEvent
    /\ auditLost = FALSE /\ confirmed = FALSE

Alive == server # "exited"

-----------------------------------------------------------------------------
(* The stream.                                                            *)

\* Variant: disconnect takes the handle and leaves the flag alone.
DropGuardSilently ==
    IF ~armed THEN UNCHANGED <<control, thread>>
    ELSE /\ IF handle THEN canceller' = "check" ELSE UNCHANGED canceller
         /\ UNCHANGED <<control, attempts>>

\* CancelOnDrop::drop.  The thread may fail to start.
DropGuard ==
    IF ~armed THEN UNCHANGED <<control, thread>>
    ELSE /\ disconnected' = TRUE
         /\ IF handle THEN canceller' \in {"check", "gave_up"} ELSE UNCHANGED canceller
         /\ UNCHANGED <<handle, finished, attempts>>

\* streaming_result_value.
ResultEvent(large) ==
    IF outcome # "ok" THEN [kind |-> outcome, revision |-> 0, rows |-> 0]
    ELSE IF large THEN [kind |-> "too_large", revision |-> 0, rows |-> 0]
    ELSE [kind |-> "rows", revision |-> loaded, rows |-> fetched.rows]

\* select!: the worker's result arrives; the guard is disarmed before the event.
Answer ==
    /\ Alive /\ stream = "open" /\ pc = "returned"
    /\ armed' = FALSE
    /\ \E large \in BOOLEAN : event' = ResultEvent(large)
    /\ stream' = "answered"
    /\ UNCHANGED <<server, control, thread, pc, busy, call, published, row, outcome,
                   history>>

\* Variant: the deadline is looked at once the worker has returned.
ExpireLate ==
    /\ Alive /\ stream = "open" /\ pc = "returned"
    /\ event' = [kind |-> "timeout", revision |-> 0, rows |-> 0]
    /\ stream' = "expired"
    /\ UNCHANGED <<server, armed, control, thread, pc, busy, call, published, row,
                   outcome, history>>

\* select!: the deadline passes first, or at the same time.
Expire ==
    /\ Alive /\ stream = "open"
    /\ event' = [kind |-> "timeout", revision |-> 0, rows |-> 0]
    /\ stream' = "expired"
    /\ UNCHANGED <<server, armed, control, thread, pc, busy, call, published, row,
                   outcome, history>>

\* The stream returns after its event.
EndStream ==
    /\ Alive /\ stream \in {"answered", "expired"}
    /\ stream' = "ended"
    /\ DropGuard
    /\ UNCHANGED <<server, armed, pc, busy, call, published, row, outcome, event, history>>

\* The client goes away and the response is dropped.
Disconnect ==
    /\ Alive /\ stream = "open"
    /\ stream' = "ended"
    /\ DropGuard
    /\ UNCHANGED <<server, armed, pc, busy, call, published, row, outcome, event, history>>

-----------------------------------------------------------------------------
(* The worker up to the source transaction.                                *)

\* The blocking pool starts no queued task once it shuts down.
Start ==
    /\ server \in {"serving", "draining"} /\ pc = "queued"
    /\ pc' = "connect"
    /\ UNCHANGED <<server, stream, armed, control, thread, busy, call, published, row,
                   outcome, event, history>>

After(step) ==
    CASE step = "connect" -> "load" [] step = "load" -> "compile"
      [] step = "compile" -> "connect_audit" [] step = "connect_audit" -> "start_audit"

\* Connecting, reading the published revision, normalising and compiling.
Prepare ==
    /\ Alive /\ pc \in {"connect", "load", "compile", "connect_audit"}
    /\ pc' = After(pc)
    /\ loaded' = IF pc = "load" THEN published ELSE loaded
    /\ UNCHANGED <<server, stream, armed, control, thread, busy, role, total, fetched, published,
                   row, outcome, event, history>>

PrepareFails ==
    /\ Alive /\ pc \in {"connect", "load", "compile", "connect_audit"}
    /\ \/ pc \in {"connect", "compile"} /\ outcome' = "invalid"
       \/ pc # "compile" /\ outcome' = "unavailable"
    /\ pc' = "send"
    /\ UNCHANGED <<server, stream, armed, control, thread, busy, call, published, row,
                   event, history>>

StartedRow == [status |-> "started", revision |-> loaded, rows |-> 0, error |-> "none"]

\* write_started_audit.  The row may be stored although its answer is lost.
StartAudit ==
    /\ Alive /\ pc = "start_audit"
    /\ \/ row' = StartedRow /\ pc' = "register" /\ UNCHANGED <<outcome, auditLost>>
       \/ /\ row' \in {NoRow, StartedRow}
          /\ pc' = "send" /\ outcome' = "audit" /\ auditLost' = TRUE
    /\ UNCHANGED <<server, stream, armed, control, thread, busy, call, published, event,
                   confirmed>>

\* Variant: a call cancelled before its source transaction returns at once.
RegisterReturns ==
    /\ Alive /\ pc = "register"
    /\ IF disconnected THEN outcome' = "cancelled" /\ pc' = "send" /\ UNCHANGED handle
       ELSE handle' = TRUE /\ pc' = "begin" /\ UNCHANGED outcome
    /\ UNCHANGED <<server, stream, armed, disconnected, finished, thread, busy, call,
                   published, row, event, history>>

\* on_cancel_handle: CancellationControl::register, under the mutex that
\* disconnect takes.
Register ==
    /\ Alive /\ pc = "register"
    /\ IF disconnected
       THEN /\ outcome' = "cancelled" /\ pc' = "finish"
            /\ UNCHANGED handle
       ELSE /\ handle' = TRUE /\ pc' = "begin"
            /\ UNCHANGED outcome
    /\ UNCHANGED <<server, stream, armed, disconnected, finished, thread, busy, call,
                   published, row, event, history>>

-----------------------------------------------------------------------------
(* The source transaction: execute_compiled.                               *)

\* The next statement reaches PostgreSQL.
Issue ==
    /\ Alive /\ pc \in {"begin", "guard", "query", "commit"} /\ ~busy
    /\ busy' = TRUE
    /\ UNCHANGED <<server, stream, armed, control, thread, pc, call, published, row,
                   outcome, event, history>>

Fail(error) == pc' = "finish" /\ busy' = FALSE /\ outcome' = error

\* verify_role, verify_relation_ownership and the membership test: the first
\* refusal, or none.
RoleAccepted == role.exists /\ ~role.unsafe /\ ~role.owner /\ role.member

Begun ==
    /\ Alive /\ pc = "begin" /\ busy
    /\ pc' = "guard" /\ busy' = FALSE
    /\ UNCHANGED <<server, stream, armed, control, thread, call, published, row, outcome,
                   event, history>>

\* Variant: the refusal of a role is not looked at.
GuardedAnyway ==
    /\ Alive /\ pc = "guard" /\ busy
    /\ pc' = "query" /\ busy' = FALSE /\ UNCHANGED outcome
    /\ UNCHANGED <<server, stream, armed, control, thread, call, published, row, event,
                   history>>

\* The checks of the role and SET LOCAL ROLE with the transaction's settings.
Guarded ==
    /\ Alive /\ pc = "guard" /\ busy
    /\ IF RoleAccepted
       THEN pc' = "query" /\ busy' = FALSE /\ UNCHANGED outcome
       ELSE Fail("role")
    /\ UNCHANGED <<server, stream, armed, control, thread, call, published, row, event,
                   history>>

\* query_raw returns; its rows arrive while the statement runs on.
Queried ==
    /\ Alive /\ pc = "query" /\ busy
    /\ pc' = "rows" /\ total' \in 0 .. Len(RowBytes)
    /\ UNCHANGED <<server, stream, armed, control, thread, busy, role, loaded, fetched,
                   published, row, outcome, event, history>>

\* Variant: a row is counted without its separator.
FetchBare ==
    /\ Alive /\ pc = "rows" /\ fetched.rows < total
    /\ LET bytes == fetched.bytes + RowBytes[fetched.rows + 1]
       IN  IF bytes > MaxResultBytes
           THEN /\ fetched' = [fetched EXCEPT !.truncated = TRUE]
                /\ pc' = "commit" /\ busy' = FALSE
           ELSE /\ fetched' = [fetched EXCEPT !.rows = @ + 1, !.bytes = bytes]
                /\ UNCHANGED <<pc, busy>>
    /\ UNCHANGED <<server, stream, armed, control, thread, role, total, loaded, published, row,
                   outcome, event, history>>

\* One row is read, or found to be one too many.  Reading stops there and the
\* rest of the result is discarded while COMMIT is sent.
Fetch ==
    /\ Alive /\ pc = "rows" /\ fetched.rows < total
    /\ LET separator == IF fetched.rows = 0 THEN 0 ELSE 1
           bytes == fetched.bytes + separator + RowBytes[fetched.rows + 1]
       IN  IF bytes > MaxResultBytes
           THEN /\ fetched' = [fetched EXCEPT !.truncated = TRUE]
                /\ pc' = "commit" /\ busy' = FALSE
           ELSE /\ fetched' = [fetched EXCEPT !.rows = @ + 1, !.bytes = bytes]
                /\ UNCHANGED <<pc, busy>>
    /\ UNCHANGED <<server, stream, armed, control, thread, role, total, loaded, published, row,
                   outcome, event, history>>

\* The result is complete.
Fetched ==
    /\ Alive /\ pc = "rows" /\ fetched.rows = total
    /\ pc' = "commit" /\ busy' = FALSE
    /\ UNCHANGED <<server, stream, armed, control, thread, call, published, row, outcome,
                   event, history>>

Committed ==
    /\ Alive /\ pc = "commit" /\ busy
    /\ pc' = "finish" /\ busy' = FALSE /\ outcome' = "ok"
    /\ UNCHANGED <<server, stream, armed, control, thread, call, published, row, event,
                   history>>

\* What an error of the running statement becomes (source_query_error and the
\* map_err of each statement).  Only the query itself tells a cancellation apart.
StatementError(cancelled) ==
    CASE pc \in {"begin", "guard"} -> "guard"
      [] pc \in {"query", "rows"} -> IF cancelled THEN "cancelled" ELSE "source"
      [] pc = "commit" -> "commit"

\* The statement fails, runs into statement_timeout (reported like a
\* cancellation), or a row does not have its shape.
StatementFails ==
    /\ Alive /\ pc \in Source /\ busy
    /\ \/ \E cancelled \in BOOLEAN : Fail(StatementError(cancelled))
       \/ pc = "rows" /\ Fail("row_shape")
    /\ UNCHANGED <<server, stream, armed, control, thread, call, published, row, event,
                   history>>

-----------------------------------------------------------------------------
(* The terminal audit and the answer.                                      *)

FinishedRow ==
    [row EXCEPT
        !.status = CASE outcome = "ok" -> "succeeded" [] outcome = "cancelled" -> "cancelled"
                     [] OTHER -> "failed",
        !.rows = IF outcome = "ok" THEN fetched.rows ELSE 0,
        !.error = IF outcome = "ok" THEN "none" ELSE outcome]

\* Variant: the caller's result does not wait for the terminal audit.
FinishAuditLoosely ==
    /\ Alive /\ pc = "finish"
    /\ row' \in {row, FinishedRow}
    /\ auditLost' = (auditLost \/ row' = row)
    /\ pc' = "send"
    /\ UNCHANGED <<server, stream, armed, control, thread, busy, call, published, outcome,
                   event, confirmed>>

\* finish_audit: finish_query_audit closes the row, or fails with or without
\* having closed it; its failure takes the place of the result.
FinishAudit ==
    /\ Alive /\ pc = "finish"
    /\ \/ row' = FinishedRow /\ UNCHANGED <<outcome, auditLost>>
       \/ row' \in {row, FinishedRow} /\ outcome' = "audit" /\ auditLost' = TRUE
    /\ pc' = "send"
    /\ UNCHANGED <<server, stream, armed, control, thread, busy, call, published, event,
                   confirmed>>

\* result_tx.send; the worker's guard is dropped after it.
Send ==
    /\ Alive /\ pc = "send"
    /\ pc' = "returned"
    /\ UNCHANGED <<server, stream, armed, control, thread, busy, call, published, row,
                   outcome, event, history>>

\* WorkerFinished::drop.
Finish ==
    /\ Alive /\ pc = "returned" /\ ~finished
    /\ finished' = TRUE
    /\ UNCHANGED <<server, stream, armed, handle, disconnected, thread, pc, busy, call,
                   published, row, outcome, event, history>>

-----------------------------------------------------------------------------
(* The cancel thread.                                                      *)

\* Variant: the thread has no deadline.
CheckWorkerForever ==
    /\ Alive /\ canceller = "check"
    /\ canceller' = IF finished THEN "done" ELSE "cancel"
    /\ UNCHANGED <<server, stream, armed, control, attempts, pc, busy, call, published,
                   row, outcome, event, history>>

CheckWorker ==
    /\ Alive /\ canceller = "check"
    /\ canceller' = IF finished THEN "done"
                    ELSE IF attempts = MaxAttempts THEN "gave_up" ELSE "cancel"
    /\ UNCHANGED <<server, stream, armed, control, attempts, pc, busy, call, published,
                   row, outcome, event, history>>

\* Variant: one cancel request, however it ends.
CancelMissesOnce ==
    /\ Alive /\ canceller = "cancel"
    /\ canceller' = "done" /\ attempts' = attempts + 1
    /\ UNCHANGED <<server, stream, armed, control, pc, busy, call, published, row,
                   outcome, event, history>>

\* No statement is running, or the request does not get through.  The thread
\* sleeps and looks again.
CancelMisses ==
    /\ Alive /\ canceller = "cancel"
    /\ canceller' = "check" /\ attempts' = attempts + 1
    /\ UNCHANGED <<server, stream, armed, control, pc, busy, call, published, row,
                   outcome, event, history>>

\* The running statement is cancelled.  A COMMIT sent while the rest of a
\* truncated result was running is not: the error is discarded with the rows.
CancelHits ==
    /\ Alive /\ canceller = "cancel" /\ busy
    /\ ~(pc = "commit" /\ fetched.truncated)
    /\ canceller' = "check" /\ attempts' = attempts + 1
    /\ Fail(StatementError(TRUE))
    /\ confirmed' = TRUE
    /\ UNCHANGED <<server, stream, armed, control, call, published, row, event, auditLost>>

-----------------------------------------------------------------------------
(* The rest of the world.                                                  *)

\* A newer revision is published.
Publish ==
    /\ Alive /\ published < Revisions
    /\ published' = published + 1
    /\ UNCHANGED <<server, stream, armed, control, thread, pc, busy, call, row, outcome,
                   event, history>>

\* shutdown_signal: no new requests are taken.
Drain ==
    /\ server = "serving"
    /\ server' = "draining"
    /\ UNCHANGED <<stream, armed, control, thread, pc, busy, call, published, row, outcome,
                   event, history>>

\* The streams are over, or GRACEFUL_DRAIN_TIMEOUT is and the runtime drops them.
Stop ==
    /\ server = "draining"
    /\ server' = "stopping"
    /\ IF stream = "ended" THEN UNCHANGED <<stream, control, thread>>
       ELSE stream' = "ended" /\ DropGuard
    /\ UNCHANGED <<armed, pc, busy, call, published, row, outcome, event, history>>

\* The process ends after BLOCKING_SHUTDOWN_TIMEOUT, or dies.
Exit ==
    /\ Alive
    /\ server' = "exited"
    /\ UNCHANGED <<stream, armed, control, thread, pc, busy, call, published, row, outcome,
                   event, history>>

Stream == Answer \/ Expire \/ EndStream
WorkerStep ==
    \/ Start \/ Prepare \/ PrepareFails \/ StartAudit \/ Register \/ Issue
    \/ Begun \/ Guarded \/ FinishAudit \/ Send \/ Finish
ServerSide == Queried \/ Fetch \/ Fetched \/ Committed \/ StatementFails
Thread == CheckWorker \/ CancelMisses \/ CancelHits

Next ==
    \/ Stream \/ Disconnect \/ WorkerStep \/ ServerSide \/ Thread
    \/ Publish \/ Drain \/ Stop \/ Exit

Spec == Init /\ [][Next]_vars

\* The worker runs, its connects and guard statements are bounded by their
\* timeouts, the deadline of the stream passes and the thread is scheduled.
\* Nothing is assumed of the query: it may run for ever.
FairSpec ==
    /\ Spec
    /\ WF_vars(Stream) /\ WF_vars(WorkerStep) /\ WF_vars(Thread)
    /\ WF_vars(Committed)

-----------------------------------------------------------------------------
(* Properties.                                                            *)

\* Once the response is dropped, a call that is or will be in its source
\* transaction has a thread cancelling it that does not stop before its worker
\* has: whichever of register and disconnect comes first, one sees the other
\* (CancellationControl).
NoMissedCancellation ==
    stream = "ended" /\ armed /\ pc \in Source
        => canceller \in {"check", "cancel", "gave_up"}

\* A statement of the query runs only with a durable started row of the revision
\* it was compiled for and under a role that passed every check.
SourceIsGuarded ==
    /\ pc \in Source => row = StartedRow
    /\ pc \in {"query", "rows", "commit"} => RoleAccepted

\* A client that gets rows gets those of an audit row that says succeeded, for
\* the same revision and the same number of rows, whatever was published since
\* and whatever audit calls failed (execute_with_cancel).
SuccessIsAudited ==
    event.kind = "rows" =>
        /\ row.status = "succeeded"
        /\ row.revision = event.revision /\ event.revision = loaded
        /\ row.rows = event.rows

\* A call that has returned leaves its row started only if the audit database
\* failed it: every way out of execute_with_cancel closes the row.
RowsAreClosed == finished /\ row.status = "started" => auditLost

\* How far the worker is tells what its row says and what the client may have.
RowInv ==
    /\ pc \in {"queued"} \cup (Preparing \ {"register"}) => row = NoRow
    /\ pc \in {"register", "finish"} \cup Source => row = StartedRow
    /\ pc \in {"query", "rows", "commit"} => RoleAccepted
    /\ outcome = "ok" => pc \in {"finish", "send", "returned"}
    /\ pc \in {"send", "returned"} /\ row.status = "started" => auditLost
    /\ pc \in {"send", "returned"} /\ outcome = "ok" =>
          /\ row.status = "succeeded" /\ row.revision = loaded
          /\ row.rows = fetched.rows
    /\ event.kind = "rows" =>
          /\ pc = "returned" /\ outcome = "ok"
          /\ event.revision = loaded /\ event.rows = fetched.rows

\* The handle and the flag tell whether the thread runs, which is done only
\* after the worker.
ControlInv ==
    /\ finished => pc = "returned"
    /\ pc \in Source => handle
    /\ busy => pc \in Source
    /\ stream = "ended" /\ armed => disconnected
    /\ disconnected => stream = "ended"
    /\ disconnected /\ handle => canceller # "none"
    /\ canceller = "done" => finished
    /\ canceller = "cancel" => attempts < MaxAttempts

\* What every step of the call keeps of the row and the thread, from which the
\* invariants above follow (execute_with_cancel, CancellationControl).
CallInv == TypeOK /\ RowInv /\ ControlInv

\* JSON lengths of the first k rows together, and of an array of them.
PrefixBytes[k \in Nat] == IF k = 0 THEN 0 ELSE PrefixBytes[k - 1] + RowBytes[k]

ArrayBytes(k) == 2 + (IF k = 0 THEN 0 ELSE k - 1) + PrefixBytes[k]

\* The rows of a result are the longest prefix whose array is within
\* max_result_bytes, byte_count is the length of that array, and truncated says
\* exactly whether a row is missing (execute_compiled).
TruncationIsExact ==
    pc = "commit" =>
        /\ fetched.bytes = ArrayBytes(fetched.rows)
        /\ fetched.rows > 0 => fetched.bytes <= MaxResultBytes
        /\ fetched.truncated = (fetched.rows < total)
        /\ fetched.truncated => ArrayBytes(fetched.rows + 1) > MaxResultBytes

\* What Fetch keeps of the rows it has read (execute_compiled).
FetchInv ==
    /\ pc \in {"queued", "begin", "guard", "query"} \cup Preparing =>
          fetched = [rows |-> 0, bytes |-> 2, truncated |-> FALSE]
    /\ pc \in {"rows", "commit"} =>
          /\ fetched.rows <= total /\ fetched.bytes = ArrayBytes(fetched.rows)
          /\ fetched.rows > 0 => fetched.bytes <= MaxResultBytes
    /\ pc = "rows" => ~fetched.truncated
    /\ pc = "commit" =>
          /\ fetched.truncated = (fetched.rows < total)
          /\ fetched.truncated => ArrayBytes(fetched.rows + 1) > MaxResultBytes

\* All of it.
StreamInv == CallInv /\ FetchInv

\* A call of which a disconnect's cancel request ended a statement leaves a row
\* that says cancelled, once the row is closed.
CancellationIsRecorded ==
    confirmed /\ row.status \notin {"none", "started"} => row.status = "cancelled"

\* Every stream ends, by its result, its deadline or a shutdown.
StreamEnds == stream = "open" ~> (stream = "ended" \/ server = "exited")

\* A dropped response stops the worker even if the query would run for ever and
\* the first cancel requests find no statement running (the retry loop of
\* CancelOnDrop::drop), unless the thread reaches its deadline.
CancelledWorkEnds ==
    disconnected ~> \/ finished \/ canceller = "gave_up"
                    \/ server = "exited" \/ (server = "stopping" /\ pc = "queued")

=============================================================================
