--------------------------- MODULE MutationSteps ---------------------------
(***************************************************************************)
(* What one step of Mutation does: to the types, to the stage of a call, to *)
(* the tables, to the locks.  The first half of the induction that          *)
(* MutationProofs completes.                                                *)
(***************************************************************************)
EXTENDS MutationInvariant, TLAPS

\* The rows that a typed request can meet are rows of the table.
LEMMA RowIds ==
    ASSUME NEW q \in Request
    PROVE  /\ Own(q) \in RowId
           /\ LegacyId(q) \in RowId
           /\ Existing(q) \in RowId
BY DEF Own, LegacyId, Existing, RowId, Request

\* No row of the current scheme is one of the legacy scheme.
LEMMA OwnIsNotLegacy ==
    ASSUME NEW q \in Request
    PROVE  Own(q)[1] # Legacy /\ \A p : LegacyId(p) # Own(q)
<1>1. q.auth # Legacy
  BY ConstantsAssumption, SMTT(30) DEF Request
<1> QED BY <1>1 DEF Own, LegacyId

\* The type invariant survives every step of execute_with_cancel, of the SQL
\* functions and of the server: an inserted row carries the id of its claim,
\* and a replayed one exists.
LEMMA TypeStep == IndInv /\ [Next]_vars => TypeOK'
<1> SUFFICES ASSUME IndInv, [Next]_vars PROVE TypeOK'
  OBVIOUS
<1> USE ConstantsAssumption DEF IndInv, TypeOK
<1>1. ASSUME NEW a \in Attempts,
             Call(a) \/ AuditUnavailable(a) \/ Load(a) \/ Begin(a)
             \/ Run(a) \/ Finish(a)
      PROVE  TypeOK'
  BY <1>1 DEF Call, AuditUnavailable, Load, Begin, Run, Finish, tables,
              PCs, Working, Outcomes, Works
<1>2. ASSUME NEW a \in Attempts,
             SendCommit(a) \/ CommitAcknowledged(a) \/ CommitIndeterminate(a)
             \/ Crash(a)
      PROVE  TypeOK'
  BY <1>2 DEF SendCommit, CommitAcknowledged, CommitIndeterminate, Crash,
              tables, PCs, Working, Outcomes, Failures
<1>3. ASSUME NEW a \in Attempts, NEW r \in RowId, rows[r] # NoRow, Decide(a, r)
      PROVE  TypeOK'
  BY <1>3 DEF Decide, PCs, Working, Works, Mids, Row
<1>4. ASSUME NEW a \in Attempts, ClaimSelect(a) PROVE TypeOK'
  <2>1. CASE rows[Existing(req[a])] # NoRow
    BY <1>3, <1>4, <2>1, RowIds DEF ClaimSelect
  <2>2. CASE rows[Existing(req[a])] = NoRow
    BY <1>4, <2>2 DEF ClaimSelect, tables, PCs, Working
  <2> QED BY <2>1, <2>2
<1>5. ASSUME NEW a \in Attempts, ClaimInsert(a) PROVE TypeOK'
  BY <1>5, RowIds DEF ClaimInsert, PCs, Working, Works, Mids
<1>6. ASSUME NEW a \in Attempts, ClaimReselect(a) PROVE TypeOK'
  BY <1>3, <1>6, RowIds DEF ClaimReselect
<1>7. ASSUME NEW a \in Attempts, Fail(a) PROVE TypeOK'
  BY <1>7 DEF Fail, FailureStatus, Release, PCs, Working, Outcomes, Failures
<1>8. ASSUME NEW a \in Attempts, RecordFailure(a) \/ RecordFailureFails(a)
      PROVE  TypeOK'
  <2>1. pc[a] = "record"
    BY <1>8 DEF RecordFailure, RecordFailureFails
  <2>2. FailureRow(a) \in AuditRow
    BY <2>1 DEF ControlInv, Controlled, FailureRow, AuditRow
  <2> QED
    BY <1>8, <2>2 DEF RecordFailure, RecordFailureFails, PCs, Outcomes
<1>9. ASSUME NEW a \in Attempts, ServerCommit(a) PROVE TypeOK'
  <2>1. /\ work[a] \in {"finished", "conflict", "replay"}
        /\ work[a] \in {"finished", "conflict"} => mid[a] = a
    BY <1>9 DEF ServerCommit, ControlInv, Controlled, Executing
  <2>2. AttemptRow(a) \in AuditRow
    <3>1. AttemptStatus(work[a]) \in {"committed", "rejected"}
      BY <2>1 DEF AttemptStatus
    <3> QED BY <3>1 DEF AttemptRow, AuditRow, Failures
  <2>3. rows' \in [RowId -> Row \cup {NoRow}]
    <3>1. CASE work[a] = "finished"
      <4>1. InsertedRow(a) \in Row
        BY <3>1, <2>1 DEF InsertedRow, Row, Mids, Request
      <4> QED BY <1>9, <3>1, <4>1, Zenon DEF ServerCommit, CommittedRows
    <3>2. CASE work[a] = "replay"
      <4> DEFINE r == Existing(req[a])
      <4>1. r \in RowId /\ rows[r] \in Row
        BY <3>2, RowIds DEF DecisionInv, Decided
      <4>2. rows' = [rows EXCEPT ![r] = [rows[r] EXCEPT !.replays = @ + 1]]
        BY <1>9, <3>2 DEF ServerCommit, CommittedRows
      <4>3. [rows[r] EXCEPT !.replays = @ + 1] \in Row
        BY <4>1 DEF Row
      <4> QED BY <4>1, <4>2, <4>3
    <3>3. CASE work[a] = "conflict"
      BY <1>9, <3>3 DEF ServerCommit, CommittedRows
    <3> QED BY <2>1, <3>1, <3>2, <3>3
  <2> QED BY <1>9, <2>2, <2>3 DEF ServerCommit, Release, client
<1>10. ASSUME NEW a \in Attempts, ServerAbort(a) PROVE TypeOK'
  BY <1>10 DEF ServerAbort, Release, client
<1>11. CASE Publish
  BY <1>11 DEF Publish, client, tables, Revisions
<1>12. CASE UNCHANGED vars
  BY <1>12, SMTT(30) DEF vars
<1> QED
  BY <1>1, <1>2, <1>4, <1>5, <1>6, <1>7, <1>8, <1>9, <1>10, <1>11, <1>12, Zenon
     DEF Next, ClientStep

\* What a call is doing and what its transaction has written stay in step.
LEMMA ControlStep == IndInv /\ [Next]_vars => ControlInv'
<1> SUFFICES ASSUME IndInv, [Next]_vars, NEW b \in Attempts
             PROVE  Controlled(b)'
  BY DEF ControlInv
<1> USE ConstantsAssumption DEF IndInv, TypeOK, ControlInv, Controlled, Working,
                                Failures, Executing
<1>1. ASSUME NEW a \in Attempts,
             Call(a) \/ AuditUnavailable(a) \/ Load(a) \/ Begin(a)
      PROVE  Controlled(b)'
  BY <1>1 DEF Call, AuditUnavailable, Load, Begin
<1>2. ASSUME NEW a \in Attempts, Run(a) \/ Finish(a) \/ Crash(a)
      PROVE  Controlled(b)'
  BY <1>2 DEF Run, Finish, Crash
<1>3. ASSUME NEW a \in Attempts, SendCommit(a) \/ CommitIndeterminate(a)
      PROVE  Controlled(b)'
  BY <1>3 DEF SendCommit, CommitIndeterminate
<1>4. ASSUME NEW a \in Attempts, CommitAcknowledged(a) PROVE Controlled(b)'
  BY <1>4 DEF CommitAcknowledged
<1>5. ASSUME NEW a \in Attempts, NEW r \in RowId, Decide(a, r), tx[a] = "open",
             pc[a] \in {"select", "reselect"}
      PROVE  Controlled(b)'
  BY <1>5, SMTT(30) DEF Decide
<1>6. ASSUME NEW a \in Attempts, ClaimSelect(a) PROVE Controlled(b)'
  <2>1. CASE rows[Existing(req[a])] # NoRow
    BY <1>5, <1>6, <2>1, RowIds DEF ClaimSelect
  <2>2. CASE rows[Existing(req[a])] = NoRow
    BY <1>6, <2>2 DEF ClaimSelect
  <2> QED BY <2>1, <2>2
<1>7. ASSUME NEW a \in Attempts, ClaimInsert(a) PROVE Controlled(b)'
  BY <1>7 DEF ClaimInsert
<1>8. ASSUME NEW a \in Attempts, ClaimReselect(a) PROVE Controlled(b)'
  BY <1>5, <1>8, RowIds DEF ClaimReselect
<1>9. ASSUME NEW a \in Attempts, Fail(a) PROVE Controlled(b)'
  BY <1>9 DEF Fail, FailureStatus
<1>10. ASSUME NEW a \in Attempts, RecordFailure(a) \/ RecordFailureFails(a)
       PROVE  Controlled(b)'
  BY <1>10 DEF RecordFailure, RecordFailureFails
<1>11. ASSUME NEW a \in Attempts, ServerCommit(a) \/ ServerAbort(a)
       PROVE  Controlled(b)'
  BY <1>11 DEF ServerCommit, ServerAbort, client
<1>12. CASE Publish \/ UNCHANGED vars
  BY <1>12, SMTT(30) DEF Publish, client, vars
<1> QED
  BY <1>1, <1>2, <1>3, <1>4, <1>6, <1>7, <1>8, <1>9, <1>10, <1>11, <1>12, Zenon
     DEF Next, ClientStep

\* A call's request never changes; once its transaction was told to commit,
\* what that wrote, for which revision and under which id is settled.
Settled(b) ==
    /\ req'[b] = req[b]
    /\ tx[b] = "committed" => tx'[b] = "committed"
    /\ tx'[b] = "committed" /\ tx[b] # "committed" => ServerCommit(b)
    /\ pc[b] = "done" =>
          /\ pc'[b] = "done"
          /\ tx'[b] \in {"commit", "committed"} => tx[b] \in {"commit", "committed"}
    /\ tx[b] # "open" => work'[b] = work[b] /\ mid'[b] = mid[b]
    /\ work[b] # "none" => rev'[b] = rev[b] /\ mid'[b] = mid[b]
    /\ work[b] \in {"finished", "conflict", "replay"} => work'[b] = work[b]
    /\ work[b] \in Executing => work'[b] \in Executing

\* No step of any call changes what another call, or a call that has sent its
\* COMMIT, has settled.
LEMMA Settling ==
    ASSUME IndInv, [Next]_vars, NEW b \in Attempts
    PROVE  Settled(b)
<1> USE DEF IndInv, TypeOK, ControlInv, Controlled, Settled, Executing
<1>1. ASSUME NEW a \in Attempts,
             Call(a) \/ AuditUnavailable(a) \/ Load(a) \/ Begin(a)
      PROVE  Settled(b)
  BY <1>1 DEF Call, AuditUnavailable, Load, Begin
<1>2. ASSUME NEW a \in Attempts, Run(a) \/ Finish(a) \/ Crash(a)
      PROVE  Settled(b)
  BY <1>2 DEF Run, Finish, Crash, Working
<1>3. ASSUME NEW a \in Attempts, SendCommit(a) PROVE Settled(b)
  BY <1>3 DEF SendCommit
<1>4. ASSUME NEW a \in Attempts, CommitIndeterminate(a) \/ CommitAcknowledged(a)
      PROVE  Settled(b)
  BY <1>4 DEF CommitIndeterminate, CommitAcknowledged
<1>5. ASSUME NEW a \in Attempts, Fail(a) PROVE Settled(b)
  BY <1>5 DEF Fail, Working
<1>6. ASSUME NEW a \in Attempts, RecordFailure(a) \/ RecordFailureFails(a)
      PROVE  Settled(b)
  BY <1>6, SMTT(30) DEF RecordFailure, RecordFailureFails
<1>7. ASSUME NEW a \in Attempts,
             ClaimSelect(a) \/ ClaimInsert(a) \/ ClaimReselect(a)
      PROVE  Settled(b)
  BY <1>7 DEF ClaimSelect, ClaimInsert, ClaimReselect, Decide
<1>8. ASSUME NEW a \in Attempts, ServerCommit(a) \/ ServerAbort(a)
      PROVE  Settled(b)
  BY <1>8 DEF ServerCommit, ServerAbort, client
<1>9. CASE Publish \/ UNCHANGED vars
  BY <1>9, SMTT(30) DEF Publish, client, vars
<1> QED BY <1>1, <1>2, <1>3, <1>4, <1>5, <1>6, <1>7, <1>8, <1>9, Zenon
       DEF Next, ClientStep

\* Only a commit on the server changes committed rows or business data.
LEMMA TablesChange ==
    ASSUME IndInv, [Next]_vars
    PROVE  \/ \E a \in Attempts : ServerCommit(a)
           \/ rows' = rows /\ effects' = effects
BY DEF Next, ClientStep, Call, AuditUnavailable, Load, Begin, Run, Finish,
       Crash, SendCommit, CommitIndeterminate, CommitAcknowledged, Fail,
       RecordFailure, RecordFailureFails, ClaimSelect, ClaimInsert,
       ClaimReselect, Decide, ServerAbort, Publish, client, tables, vars

\* What the transaction of a call does to the tables, by its disposition.
LEMMA CommitEffect ==
    ASSUME IndInv, NEW a \in Attempts, ServerCommit(a)
    PROVE  \/ /\ work[a] = "finished"
              /\ rows' = [rows EXCEPT ![Own(req[a])] = InsertedRow(a)]
              /\ effects' = effects \cup {a}
           \/ /\ work[a] = "conflict"
              /\ rows' = rows
              /\ effects' = effects
           \/ /\ work[a] = "replay"
              /\ rows' = [rows EXCEPT ![Existing(req[a])] =
                             [rows[Existing(req[a])] EXCEPT !.replays = @ + 1]]
              /\ effects' = effects
<1>1. work[a] \in {"finished", "conflict", "replay"}
  BY DEF IndInv, ControlInv, Controlled, ServerCommit
<1>2. CASE work[a] = "finished"
  BY <1>2 DEF ServerCommit, CommittedRows
<1>3. CASE work[a] = "conflict"
  BY <1>3 DEF ServerCommit, CommittedRows
<1>4. CASE work[a] = "replay"
  BY <1>4 DEF ServerCommit, CommittedRows
<1> QED BY <1>1, <1>2, <1>3, <1>4

\* What stays the same about a row when a replay is added to it.
SameBinding(old, new) ==
    /\ new # NoRow
    /\ new.status = old.status /\ new.subj = old.subj /\ new.role = old.role
    /\ new.lsm = old.lsm /\ new.rev = old.rev /\ new.mid = old.mid

\* A committed row keeps its binding, whatever step is taken; a row appears
\* only where a finished transaction held it.
RowStep(r) ==
    /\ rows[r] # NoRow =>
          /\ SameBinding(rows[r], rows'[r])
          /\ rows'[r] \in {rows[r], [rows[r] EXCEPT !.replays = @ + 1]}
    /\ rows[r] = NoRow =>
          \/ rows'[r] = NoRow
          \/ \E a \in Attempts :
                /\ ServerCommit(a)
                /\ work[a] = "finished"
                /\ r = Own(req[a])
                /\ rows'[r] = InsertedRow(a)

\* Committed rows are kept (claim_mutation and finish_mutation never delete or
\* rebind one).
LEMMA RowsStep ==
    ASSUME IndInv, [Next]_vars, NEW r \in RowId
    PROVE  RowStep(r)
<1> USE ConstantsAssumption DEF IndInv, TypeOK
<1>1. CASE rows' = rows
  BY <1>1 DEF RowStep, SameBinding
<1>2. ASSUME NEW a \in Attempts, ServerCommit(a), work[a] = "finished",
             rows' = [rows EXCEPT ![Own(req[a])] = InsertedRow(a)]
      PROVE  RowStep(r)
  <2>1. rows[Own(req[a])] = NoRow
    BY <1>2 DEF LockInv, ServerCommit, Executing, Live
  <2> QED BY <1>2, <2>1, RowIds, SMTT(30) DEF RowStep, SameBinding
<1>3. ASSUME NEW a \in Attempts, ServerCommit(a), work[a] = "replay",
             rows' = [rows EXCEPT ![Existing(req[a])] =
                             [rows[Existing(req[a])] EXCEPT !.replays = @ + 1]]
      PROVE  RowStep(r)
  <2>1. Existing(req[a]) \in RowId /\ rows[Existing(req[a])] # NoRow
    BY <1>3, RowIds, SMTT(30) DEF DecisionInv, Decided
  <2> QED BY <1>3, <2>1 DEF RowStep, SameBinding, Row
<1> QED BY <1>1, <1>2, <1>3, TablesChange, CommitEffect

\* A row is held by a live transaction, and the own row of an executing call
\* by that call: claim_mutation's insert waits for a concurrent one, and every
\* end of a transaction releases.
LEMMA LockStep == IndInv /\ [Next]_vars => LockInv'
<1> SUFFICES ASSUME IndInv, [Next]_vars PROVE LockInv'
  OBVIOUS
<1> USE DEF LockInv, Live, Executing
<1> /\ pc \in [Attempts -> PCs]
    /\ work \in [Attempts -> Works]
    /\ tx \in [Attempts -> {"none", "open", "commit", "committed", "aborted"}]
    /\ holder \in [RowId -> Attempts \cup {NoOne}]
    /\ \A a \in Attempts : req[a] \in Request
    /\ LockInv
  BY DEF IndInv, TypeOK
<1> \A a \in Attempts : /\ pc[a] \in {"idle", "prepare", "begin"} => tx[a] = "none"
                        /\ tx[a] = "none" => work[a] = "none"
                        /\ pc[a] = "run" => work[a] = "claimed"
                        /\ pc[a] = "finish" => work[a] = "ran"
  BY DEF IndInv, ControlInv, Controlled
<1> \A a \in Attempts : Own(req[a]) \in RowId
  BY RowIds
<1> NoOne \notin Attempts
  BY ConstantsAssumption, SMTT(30) DEF Mids
<1>1. ASSUME NEW a \in Attempts,
             Call(a) \/ AuditUnavailable(a) \/ Load(a) \/ Begin(a)
             \/ Run(a) \/ Finish(a) \/ Crash(a)
      PROVE  LockInv'
  BY <1>1 DEF Call, AuditUnavailable, Load, Begin, Run, Finish, Crash, tables
<1>2. ASSUME NEW a \in Attempts,
             SendCommit(a) \/ CommitIndeterminate(a) \/ CommitAcknowledged(a)
             \/ RecordFailure(a) \/ RecordFailureFails(a)
      PROVE  LockInv'
  BY <1>2, SMTT(30) DEF SendCommit, CommitIndeterminate, CommitAcknowledged,
              RecordFailure, RecordFailureFails, tables
<1>3. ASSUME NEW a \in Attempts, NEW r \in RowId, Decide(a, r), tx[a] = "open"
      PROVE  LockInv'
  BY <1>3, SMTT(30) DEF Decide
<1>4. ASSUME NEW a \in Attempts, ClaimSelect(a) PROVE LockInv'
  <2>1. CASE rows[Existing(req[a])] # NoRow
    BY <1>3, <1>4, <2>1, RowIds, SMTT(30) DEF ClaimSelect
  <2>2. CASE rows[Existing(req[a])] = NoRow
    BY <1>4, <2>2, SMTT(30) DEF ClaimSelect, tables
  <2> QED BY <2>1, <2>2, SMTT(30)
<1>5. ASSUME NEW a \in Attempts, ClaimInsert(a) PROVE LockInv'
  BY <1>5 DEF ClaimInsert
<1>6. ASSUME NEW a \in Attempts, ClaimReselect(a) PROVE LockInv'
  BY <1>3, <1>6 DEF ClaimReselect
<1>7. ASSUME NEW a \in Attempts, Fail(a) \/ ServerAbort(a) PROVE LockInv'
  BY <1>7 DEF Fail, ServerAbort, Release, client
<1>8. ASSUME NEW a \in Attempts, ServerCommit(a) PROVE LockInv'
  <2>1. \A r \in RowId : holder'[r] # NoOne => tx'[holder'[r]] \in {"open", "commit"}
    BY <1>8, SMTT(30) DEF ServerCommit, Release
  <2>2. ASSUME NEW b \in Attempts, work'[b] \in Executing, tx'[b] \in Live
        PROVE  holder'[Own(req'[b])] = b /\ rows'[Own(req'[b])] = NoRow
    <3>1. b # a /\ work[b] \in Executing /\ tx[b] \in Live /\ req' = req
      BY <1>8, <2>2 DEF ServerCommit, client
    <3>2. holder[Own(req[b])] = b /\ rows[Own(req[b])] = NoRow
      BY <3>1, SMTT(30)
    <3>3. holder'[Own(req[b])] = b
      BY <1>8, <3>1, <3>2 DEF ServerCommit, Release
    <3>4. rows'[Own(req[b])] = NoRow
      <4>1. ASSUME NEW c \in Attempts, ServerCommit(c), work[c] = "finished",
                   Own(req[b]) = Own(req[c])
            PROVE  FALSE
        <5>1. holder[Own(req[c])] = c /\ tx[c] = "commit"
          BY <4>1, SMTT(30) DEF ServerCommit
        <5>2. c = b
          BY <3>2, <4>1, <5>1, SMTT(30)
        <5> QED BY <5>2, <4>1, <2>2, SMTT(30) DEF ServerCommit
      <4> QED BY <3>2, <4>1, RowsStep, SMTT(30) DEF RowStep
    <3> QED BY <3>1, <3>3, <3>4, SMTT(30)
  <2> QED BY <2>1, <2>2
<1>9. CASE Publish \/ UNCHANGED vars
  BY <1>9 DEF Publish, client, tables, vars
<1> QED
  BY <1>1, <1>2, <1>4, <1>5, <1>6, <1>7, <1>8, <1>9, Zenon DEF Next, ClientStep

\* A key with a legacy row is never claimed for execution: the second SELECT
\* of claim_mutation comes before the insert, and legacy rows only ever exist
\* from the start.
LEMMA NoLegacyStep == IndInv /\ [Next]_vars => NoLegacyInv'
<1> SUFFICES ASSUME IndInv, [Next]_vars, NEW b \in Attempts,
                    work'[b] \in Executing \/ pc'[b] \in {"insert", "reselect"}
             PROVE  rows'[LegacyId(req'[b])] = NoRow
  BY SMTT(30) DEF NoLegacyInv
<1>t. /\ work \in [Attempts -> Works]
      /\ pc \in [Attempts -> PCs]
      /\ req \in [Attempts -> Request]
      /\ \A a \in Attempts : /\ pc[a] = "run" => work[a] = "claimed"
                             /\ pc[a] = "finish" => work[a] = "ran"
  BY DEF IndInv, TypeOK, ControlInv, Controlled
<1>1. req'[b] = req[b] /\ req[b] \in Request /\ LegacyId(req[b]) \in RowId
  BY <1>t, Settling, RowIds DEF Settled
<1>2. rows[LegacyId(req[b])] = NoRow
  <2>1. CASE work[b] \in Executing \/ pc[b] \in {"insert", "reselect"}
    BY <2>1 DEF IndInv, NoLegacyInv
  <2>2. CASE work[b] \notin Executing /\ pc[b] \notin {"insert", "reselect"}
    <3>1. ClaimSelect(b) /\ rows[Existing(req[b])] = NoRow
      <4>1. ASSUME NEW a \in Attempts,
                   Call(a) \/ AuditUnavailable(a) \/ Load(a) \/ Begin(a)
                   \/ Run(a) \/ Finish(a) \/ Crash(a)
            PROVE  FALSE
        BY <1>t, <2>2, <4>1
           DEF Executing, Call, AuditUnavailable, Load, Begin, Run, Finish, Crash
      <4>2. ASSUME NEW a \in Attempts,
                   SendCommit(a) \/ CommitIndeterminate(a)
                   \/ CommitAcknowledged(a) \/ RecordFailure(a)
                   \/ RecordFailureFails(a) \/ Fail(a)
            PROVE  FALSE
        BY <1>t, <2>2, <4>2, SMTT(30)
           DEF Executing, SendCommit, CommitIndeterminate, CommitAcknowledged,
                          RecordFailure, RecordFailureFails, Fail
      <4>3. ASSUME NEW a \in Attempts, ClaimInsert(a) \/ ClaimReselect(a)
            PROVE  FALSE
        BY <1>t, <2>2, <4>3 DEF Executing, ClaimInsert, ClaimReselect, Decide
      <4>4. ASSUME NEW a \in Attempts, ServerCommit(a) \/ ServerAbort(a)
            PROVE  FALSE
        BY <1>t, <2>2, <4>4 DEF Executing, ServerCommit, ServerAbort, client
      <4>5. CASE Publish \/ UNCHANGED vars
        BY <1>t, <2>2, <4>5 DEF Executing, Publish, client, vars
      <4>6. ASSUME NEW a \in Attempts, ClaimSelect(a)
            PROVE  a = b /\ rows[Existing(req[b])] = NoRow
        <5>1. CASE rows[Existing(req[a])] # NoRow
          BY <1>t, <2>2, <4>6, <5>1, SMTT(30) DEF Executing, ClaimSelect, Decide
        <5>2. CASE rows[Existing(req[a])] = NoRow
          BY <1>t, <2>2, <4>6, <5>2, Zenon DEF Executing, ClaimSelect
        <5> QED BY <5>1, <5>2, SMTT(30)
      <4> QED BY <4>1, <4>2, <4>3, <4>4, <4>5, <4>6, SMTT(30) DEF Next, ClientStep
    <3> QED BY <3>1, SMTT(30) DEF Existing
  <2> QED BY <2>1, <2>2
<1>3. ASSUME NEW c \in Attempts, LegacyId(req[b]) = Own(req[c]) PROVE FALSE
  <2>1. req[c] \in Request
    BY <1>t
  <2> QED BY <1>3, <2>1, OwnIsNotLegacy
<1> QED BY <1>1, <1>2, <1>3, RowsStep DEF RowStep

=============================================================================
