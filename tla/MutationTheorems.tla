-------------------------- MODULE MutationTheorems --------------------------
(***************************************************************************)
(* What the inductive invariant of MutationProofs yields: the safety        *)
(* properties of Mutation, and that it implements MutationContract, every   *)
(* step of the protocol being one step of the contract or none.             *)
(***************************************************************************)
EXTENDS MutationProofs

\* Every variable keeps its type; in particular a committed idempotency row
\* always carries the mutation id of its claim.
THEOREM TypeCorrect == Spec => []TypeOK
<1>1. IndInv => TypeOK
  BY DEF IndInv
<1> QED BY <1>1, Invariance, PTL

\* For any number of concurrent calls, retries, crashes and broken
\* connections, one authority's key changes business data at most once.
THEOREM ExecutedAtMostOnce == Spec => []AtMostOnce
<1>1. IndInv => AtMostOnce
  BY DEF IndInv, AtMostOnce, LedgerInv
<1> QED BY <1>1, Invariance, PTL

\* A key of the legacy scheme is never executed again, by any authority.
THEOREM LegacyKeysRetired == Spec => []LegacyKeyNotReexecuted
<1>1. IndInv => LegacyKeyNotReexecuted
  <2> SUFFICES ASSUME IndInv, NEW k \in Keys, rows[<<Legacy, k>>] # NoRow
               PROVE  /\ \A a \in effects : req[a].key # k
                      /\ \A u \in Authorities : rows[<<u, k>>] = NoRow
    BY DEF LegacyKeyNotReexecuted
  <2>1. ASSUME NEW a \in effects, req[a].key = k PROVE FALSE
    <3>1. a \in Attempts /\ work[a] = "finished"
      BY DEF IndInv, LedgerInv
    <3>2. rows[LegacyId(req[a])] = NoRow
      BY <3>1 DEF IndInv, NoLegacyInv, Executing
    <3> QED BY <2>1, <3>2 DEF LegacyId
  <2>2. ASSUME NEW u \in Authorities, rows[<<u, k>>] # NoRow PROVE FALSE
    <3>1. <<u, k>> \in RowId /\ u # Legacy
      BY ConstantsAssumption DEF RowId
    <3>2. PICK a \in effects : <<u, k>> = Own(req[a])
      BY <2>2, <3>1 DEF IndInv, LedgerInv
    <3>3. req[a].key = k
      BY <3>2 DEF Own
    <3> QED BY <2>1, <3>3
  <2> QED BY <2>1, <2>2
<1> QED BY <1>1, Invariance, PTL

\* Business data, idempotency row and audit attempt of a call are durable
\* together or not at all.
THEOREM EvidenceNeverDiverges == Spec => []EvidenceAgrees
<1>1. IndInv => EvidenceAgrees
  <2> SUFFICES ASSUME IndInv PROVE EvidenceAgrees
    OBVIOUS
  <2> USE DEF IndInv, TypeOK
  <2>1. ASSUME NEW a \in Attempts
        PROVE  LET r == rows[Own(req[a])]
                   executed == [att |-> a, mid |-> a, replayed |-> FALSE,
                                status |-> "committed"]
               IN  /\ a \in effects <=> r # NoRow /\ r.mid = a
                   /\ a \in effects <=> executed \in audit
                   /\ a \in effects =>
                        /\ r.lsm = req[a].lsm
                        /\ r.role = req[a].role
                        /\ r.rev = rev[a]
    <3> DEFINE executed == [att |-> a, mid |-> a, replayed |-> FALSE,
                            status |-> "committed"]
    <3>1. Own(req[a]) \in RowId /\ a \notin RowId /\ a # NoOne
      BY RowIds, ConstantsAssumption DEF Mids
    <3>2. a \in effects <=> rows[Own(req[a])] # NoRow /\ rows[Own(req[a])].mid = a
      BY <3>1 DEF LedgerInv
    <3>3. ASSUME a \in effects PROVE executed \in audit
      <4>1. tx[a] = "committed" /\ work[a] = "finished" /\ mid[a] = a
        BY <3>3 DEF LedgerInv, ControlInv, Controlled, Executing
      <4>2. AttemptStatus("finished") = "committed"
        BY DEF AttemptStatus
      <4>3. AttemptRow(a) = executed
        BY <4>1, <4>2, Zenon DEF AttemptRow
      <4> QED BY <4>1, <4>3, Zenon DEF AuditInv
    <3>4. ASSUME executed \in audit PROVE a \in effects
      <4>1. executed.att = a /\ executed.mid = a
        OBVIOUS
      <4>2. tx[a] = "committed" /\ executed = AttemptRow(a)
        BY <3>1, <3>4, <4>1 DEF AuditInv, Audited
      <4>3. AttemptStatus(work[a]) = "committed" /\ work[a] # "replay"
        BY <4>2, Zenon DEF AttemptRow
      <4>4. work[a] \in {"finished", "conflict", "replay"}
        BY <4>2 DEF ControlInv, Controlled
      <4>5. AttemptStatus("conflict") = "rejected"
        BY DEF AttemptStatus
      <4> QED BY <4>2, <4>3, <4>4, <4>5 DEF LedgerInv
    <3> QED BY <3>2, <3>3, <3>4 DEF LedgerInv
  <2>2. \A r \in RowId : rows[r] # NoRow => rows[r].status = "committed"
    BY DEF LedgerInv
  <2>3. ASSUME NEW w \in audit PROVE w.status # "started"
    <3>1. CASE w.status \in Failures
      BY <3>1 DEF Failures
    <3>2. CASE tx[w.att] = "committed" /\ w = AttemptRow(w.att)
      <4>1. work[w.att] \in {"finished", "conflict", "replay"}
        BY <3>2 DEF ControlInv, Controlled, AuditRow
      <4>2. AttemptStatus(work[w.att]) # "started"
        BY <4>1 DEF AttemptStatus
      <4>3. AttemptRow(w.att).status = AttemptStatus(work[w.att])
        BY DEF AttemptRow
      <4> QED BY <3>2, <4>2, <4>3
    <3> QED BY <3>1, <3>2 DEF AuditInv, Audited
  <2> QED BY <2>1, <2>2, <2>3 DEF EvidenceAgrees
<1> QED BY <1>1, Invariance, PTL

\* What the caller or the audit table calls a definite failure never takes
\* effect, whatever the server still does with the transaction.
THEOREM FailuresAreFinal == Spec => []FailureIsFinal
<1>1. IndInv => FailureIsFinal
  <2> SUFFICES ASSUME IndInv, NEW a \in Attempts, DefiniteFailure(a)
               PROVE  a \notin effects
                      /\ ~(tx[a] = "commit" /\ work[a] = "finished")
    BY DEF FailureIsFinal
  <2> USE DEF IndInv, TypeOK
  <2>1. SUFFICES ~(tx[a] \in {"commit", "committed"} /\ work[a] = "finished")
    BY DEF LedgerInv
  <2>2. CASE outcome[a] \in {"rejected", "rolled_back", "conflict", "unavailable"}
    BY <2>2 DEF ControlInv, Controlled
  <2>3. ASSUME NEW w \in audit, w.att = a, w.status \in {"rejected", "rolled_back"}
        PROVE  ~(tx[a] \in {"commit", "committed"} /\ work[a] = "finished")
    <3>1. CASE w.status # "indeterminate" => tx[a] \notin {"commit", "committed"}
      BY <2>3, <3>1
    <3>2. CASE w = AttemptRow(a)
      <4>1. AttemptStatus(work[a]) \in {"rejected", "rolled_back"}
        BY <2>3, <3>2 DEF AttemptRow
      <4>2. AttemptStatus("finished") = "committed"
        BY SMTT(30) DEF AttemptStatus
      <4> QED BY <4>1, <4>2
    <3> QED BY <2>3, <3>1, <3>2 DEF AuditInv, Audited
  <2> QED BY <2>2, <2>3 DEF DefiniteFailure
<1> QED BY <1>1, Invariance, PTL

\* A success that was answered is durable, and a replay names the mutation of
\* the row, for the same document, role and revision.
THEOREM AnswersAreTrue == Spec => []AnswerMatchesRow
<1>1. IndInv => AnswerMatchesRow
  BY DEF IndInv, AnswerMatchesRow, ControlInv, Controlled, Executing, LedgerInv,
         DecisionInv, Decided, Mismatch
<1> QED BY <1>1, Invariance, PTL

\* replay_count is the number of audited replays.
THEOREM ReplaysAreCounted == Spec => []ReplaysCounted
<1>1. IndInv => ReplaysCounted
  BY DEF IndInv
<1> QED BY <1>1, Invariance, PTL

\* Reconciliation resolves every indeterminate answer and agrees with what a
\* retry would do.
THEOREM ReconciliationResolves == Spec => []ReconcileResolves
<1>1. IndInv => ReconcileResolves
  <2> SUFFICES ASSUME IndInv PROVE ReconcileResolves
    OBVIOUS
  <2> USE DEF IndInv, TypeOK
  <2>1. ASSUME NEW a \in Attempts
        PROVE  a \in effects <=> Lookup(req[a]) # NoRow /\ Lookup(req[a]).mid = a
    <3>1. Own(req[a]) \in RowId /\ LegacyId(req[a]) \in RowId /\ a \notin RowId
      BY RowIds, ConstantsAssumption
    <3>2. rows[LegacyId(req[a])] # NoRow => rows[LegacyId(req[a])].mid # a
      BY <3>1 DEF LedgerInv, LegacyId
    <3>3. a \in effects <=> rows[Own(req[a])] # NoRow /\ rows[Own(req[a])].mid = a
      BY <3>1 DEF LedgerInv
    <3>4. a \in effects => rows[Own(req[a])].role = req[a].role
      BY DEF LedgerInv
    <3> QED BY <3>2, <3>3, <3>4 DEF Lookup
  <2>2. ASSUME NEW q \in Requests, NEW v \in Revisions,
               rows[Existing(q)] # NoRow, ~Mismatch(Existing(q), q, v)
        PROVE  Lookup(q) = rows[Existing(q)]
    BY <2>2 DEF Lookup, Existing, Mismatch, LegacyId
  <2> QED BY <2>1, <2>2 DEF ReconcileResolves
<1> QED BY <1>1, Invariance, PTL

\* No step deletes, rebinds or reassigns a committed idempotency row.
THEOREM RowsStayStable == Spec => RowsAreStable
<1>1. IndInv /\ [Next]_vars =>
         [\A r \in RowId : rows[r] # NoRow =>
             /\ rows'[r] # NoRow
             /\ rows'[r] \in {rows[r],
                              [rows[r] EXCEPT !.replays = rows[r].replays + 1]}]_vars
  <2> SUFFICES ASSUME IndInv, [Next]_vars, NEW r \in RowId, rows[r] # NoRow
               PROVE  /\ rows'[r] # NoRow
                      /\ rows'[r] \in {rows[r],
                              [rows[r] EXCEPT !.replays = rows[r].replays + 1]}
    OBVIOUS
  <2> QED BY RowsStep DEF RowStep, SameBinding
<1> QED BY <1>1, Invariance, PTL DEF Spec, RowsAreStable

-----------------------------------------------------------------------------
(* The contract.                                                            *)

\* The answer that each outcome of execute_with_cancel amounts to.
LEMMA AnswerKinds ==
    /\ AnswerKind("ok") = "ok"
    /\ AnswerKind("replayed") = "replayed"
    /\ AnswerKind("conflict") = "conflict"
    /\ AnswerKind("rejected") = "failed"
    /\ AnswerKind("rolled_back") = "failed"
    /\ AnswerKind("unavailable") = "failed"
    /\ AnswerKind("indeterminate") = "unknown"
    /\ AnswerKind("audit_failed") = "unknown"
    /\ AnswerKind("none") = "unknown"
BY DEF AnswerKind

\* The ledger of the contract against the idempotency table.
LEMMA LedgerOf ==
    ASSUME TypeOK, NEW r \in RowId
    PROVE  /\ rows[r] = NoRow => Ledger[r] = NoRow
           /\ rows[r] # NoRow =>
                 /\ Ledger[r] # NoRow
                 /\ Ledger[r].subj = rows[r].subj
                 /\ Ledger[r].role = rows[r].role
                 /\ Ledger[r].lsm = rows[r].lsm
                 /\ Ledger[r].rev = rows[r].rev
                 /\ Ledger[r].mid = rows[r].mid
<1>1. CASE rows[r] = NoRow
  BY <1>1 DEF Ledger, Binding
<1>2. CASE rows[r] # NoRow
  <2>1. rows[r] \in Row
    BY <1>2 DEF TypeOK
  <2>2. Ledger[r] = [subj |-> rows[r].subj, role |-> rows[r].role,
                     lsm |-> rows[r].lsm, rev |-> rows[r].rev,
                     mid |-> rows[r].mid]
    BY <1>2 DEF Ledger, Binding
  <2>3. Ledger[r] \in Entry
    BY <2>1, <2>2 DEF Row, Entry
  <2>4. Ledger[r] # NoRow
    BY <2>3, ConstantsAssumption
  <2> QED BY <1>2, <2>2, <2>4
<1> QED BY <1>1, <1>2

\* A call has taken effect in the contract exactly if its DML is durable.
LEMMA AppliedIsEffect ==
    ASSUME IndInv, NEW a \in Attempts
    PROVE  Contract!Applied(a) <=> a \in effects
<1>1. Own(req[a]) \in RowId /\ a \notin RowId
  BY RowIds, ConstantsAssumption DEF IndInv, TypeOK
<1>2. a \in effects <=> rows[Own(req[a])] # NoRow /\ rows[Own(req[a])].mid = a
  BY <1>1 DEF IndInv, TypeOK, LedgerInv
<1> QED BY <1>1, <1>2, LedgerOf DEF Contract!Applied, Contract!Scope, Own, IndInv

\* The binding that governs a request in the contract is that of the row which
\* claim_mutation selects.
LEMMA GoverningIsExisting ==
    ASSUME IndInv, NEW q \in Request
    PROVE  Contract!Governing(q) = Ledger[Existing(q)]
<1>1. Own(q) \in RowId
  BY RowIds
<1> QED BY <1>1, LedgerOf
        DEF Contract!Governing, Contract!Scope, Contract!LegacyScope, Existing,
            Own, LegacyId, IndInv

\* The contract sees nothing of a step that keeps bindings, requests,
\* revisions and answers.
LEMMA Stuttering ==
    ASSUME Ledger' = Ledger, req' = req, rev' = rev, Answers' = Answers
    PROVE  [Contract!Next]_(Contract!vars)
BY DEF Contract!vars

\* An answer is given once: a call that has returned stays answered.
DoneStays(b) ==
    pc[b] = "done" =>
        pc'[b] = "done" /\ outcome'[b] = outcome[b] /\ mid'[b] = mid[b]

LEMMA AnsweredOnce ==
    ASSUME IndInv, [Next]_vars, NEW b \in Attempts
    PROVE  DoneStays(b)
<1> USE DEF IndInv, TypeOK, DoneStays
<1>1. ASSUME NEW a \in Attempts,
             Call(a) \/ AuditUnavailable(a) \/ Load(a) \/ Begin(a)
             \/ Run(a) \/ Finish(a) \/ Crash(a)
      PROVE  DoneStays(b)
  BY <1>1 DEF Call, AuditUnavailable, Load, Begin, Run, Finish, Crash, Working
<1>2. ASSUME NEW a \in Attempts,
             ClaimSelect(a) \/ ClaimInsert(a) \/ ClaimReselect(a)
      PROVE  DoneStays(b)
  BY <1>2 DEF ClaimSelect, ClaimInsert, ClaimReselect, Decide
<1>3. ASSUME NEW a \in Attempts,
             SendCommit(a) \/ CommitAcknowledged(a) \/ CommitIndeterminate(a)
      PROVE  DoneStays(b)
  BY <1>3 DEF SendCommit, CommitAcknowledged, CommitIndeterminate
<1>4. ASSUME NEW a \in Attempts,
             Fail(a) \/ RecordFailure(a) \/ RecordFailureFails(a)
      PROVE  DoneStays(b)
  BY <1>4 DEF Fail, RecordFailure, RecordFailureFails, Working
<1>5. ASSUME NEW a \in Attempts, ServerCommit(a) \/ ServerAbort(a)
      PROVE  DoneStays(b)
  BY <1>5 DEF ServerCommit, ServerAbort, client
<1>6. CASE Publish \/ UNCHANGED vars
  BY <1>6 DEF Publish, client, vars
<1> HIDE DEF IndInv, TypeOK, DoneStays
<1> QED BY <1>1, <1>2, <1>3, <1>4, <1>5, <1>6, SMTT(30) DEF Next, ClientStep

\* A step after which nobody new has returned gives no answer.
LEMMA NoAnswer ==
    ASSUME IndInv, [Next]_vars,
           \A b \in Attempts : pc'[b] = "done" => pc[b] = "done"
    PROVE  Answers' = Answers
<1>1. ASSUME NEW b \in Attempts PROVE Answered(b)' = Answered(b)
  BY AnsweredOnce DEF DoneStays, Answered
<1> QED BY <1>1 DEF Answers, Answered

\* A step after which one call has returned answers that call and no other.
LEMMA OneAnswer ==
    ASSUME IndInv, [Next]_vars, NEW a \in Attempts,
           pc[a] # "done", pc'[a] = "done",
           \A b \in Attempts \ {a} : pc'[b] = pc[b]
    PROVE  /\ Answers[a] = Contract!Pending
           /\ Answers' = [Answers EXCEPT ![a] =
                 [kind |-> AnswerKind(outcome'[a]),
                  mid |-> IF outcome'[a] \in {"ok", "replayed"}
                          THEN mid'[a] ELSE NoOne]]
<1>1. ASSUME NEW b \in Attempts \ {a} PROVE Answered(b)' = Answered(b)
  BY AnsweredOnce DEF DoneStays, Answered
<1>2. Answered(a)' = [kind |-> AnswerKind(outcome'[a]),
                      mid |-> IF outcome'[a] \in {"ok", "replayed"}
                              THEN mid'[a] ELSE NoOne]
  BY DEF Answered
<1>3. Answers[a] = Contract!Pending
  BY DEF Answers, Answered, Contract!Pending, Contract!Answer
<1> QED BY <1>1, <1>2, <1>3, Zenon DEF Answers, Answered

\* COMMIT answered: the caller is told the disposition of its claim, and the
\* ledger bears it out.
LEMMA AcknowledgedStep ==
    ASSUME IndInv, [Next]_vars, NEW a \in Attempts, CommitAcknowledged(a)
    PROVE  Contract!Next
<1> USE DEF IndInv, TypeOK
<1>1. /\ pc[a] = "sent" /\ tx[a] = "committed" /\ pc' = [pc EXCEPT ![a] = "done"]
      /\ rows' = rows /\ req' = req /\ rev' = rev /\ mid' = mid
  BY DEF CommitAcknowledged, tables
<1>2. /\ Answers[a] = Contract!Pending
      /\ Answers' = [Answers EXCEPT ![a] =
            [kind |-> AnswerKind(outcome'[a]),
             mid |-> IF outcome'[a] \in {"ok", "replayed"} THEN mid[a] ELSE NoOne]]
  <2>1. /\ pc[a] # "done" /\ pc'[a] = "done" /\ mid'[a] = mid[a]
        /\ \A b \in Attempts \ {a} : pc'[b] = pc[b]
    BY <1>1
  <2> QED BY <2>1, OneAnswer
<1>3. Ledger' = Ledger
  BY <1>1 DEF Ledger, Binding
<1> DEFINE e == Existing(req[a])
<1>4. e \in RowId /\ req[a] \in Request /\ Own(req[a]) \in RowId
  BY RowIds
<1>5. CASE work[a] = "finished"
  <2>1. outcome'[a] = "ok" /\ a \in effects /\ mid[a] = a
    BY <1>1, <1>5 DEF CommitAcknowledged, LedgerInv, ControlInv, Controlled,
                      Executing
  <2>2. Contract!Reply(a, Contract!Answer("ok", a))
    BY <1>1, <1>2, <1>3, <2>1, AnswerKinds, Zenon DEF Contract!Reply, Contract!Answer
  <2> QED BY <2>1, <2>2, AppliedIsEffect DEF Contract!Next, Contract!AnswerOk
<1>6. ASSUME work[a] \in {"replay", "conflict"}
      PROVE  /\ rows[e] # NoRow /\ Ledger[e].mid # a
             /\ Contract!Governing(req[a]) = Ledger[e] /\ Ledger[e] # NoRow
  <2>1. rows[e] # NoRow
    BY <1>6 DEF DecisionInv, Decided
  <2>2. rows[e].mid # a
    BY <1>4, <1>6, <2>1, ConstantsAssumption, SMTT(30) DEF LedgerInv
  <2> QED BY <1>4, <2>1, <2>2, LedgerOf, GoverningIsExisting
<1>7. CASE work[a] = "replay"
  <2>1. outcome'[a] = "replayed" /\ ~Mismatch(e, req[a], rev[a])
        /\ mid[a] = rows[e].mid
    BY <1>7, SMTT(30) DEF CommitAcknowledged, DecisionInv, Decided
  <2>2. Contract!SameMutation(Ledger[e], a) /\ Ledger[e].mid = mid[a]
    BY <1>4, <1>6, <1>7, <2>1, LedgerOf, SMTT(30) DEF Contract!SameMutation, Mismatch
  <2>3. Contract!Reply(a, Contract!Answer("replayed", Ledger[e].mid))
    BY <1>1, <1>2, <1>3, <2>1, <2>2, AnswerKinds, Zenon
       DEF Contract!Reply, Contract!Answer
  <2> QED BY <1>6, <1>7, <2>2, <2>3 DEF Contract!Next, Contract!AnswerReplayed
<1>8. CASE work[a] = "conflict"
  <2>1. outcome'[a] = "conflict" /\ Mismatch(e, req[a], rev[a])
    BY <1>8 DEF CommitAcknowledged, DecisionInv, Decided
  <2>2. \/ ~Contract!SameMutation(Ledger[e], a)
        \/ /\ Ledger[Contract!Scope(req[a])] = NoRow
           /\ Ledger[e].subj # req[a].subj
    <3>1. CASE e[1] = Legacy /\ rows[e].subj # req[a].subj
      <4>1. rows[Own(req[a])] = NoRow
        BY <3>1, <1>4, ConstantsAssumption, SMTT(30) DEF Existing, Own, Request
      <4> QED BY <3>1, <4>1, <1>4, <1>6, <1>8, LedgerOf, SMTT(30)
             DEF Contract!Scope, Own
    <3>2. CASE ~(e[1] = Legacy /\ rows[e].subj # req[a].subj)
      <4>1. \/ rows[e].role # req[a].role \/ rows[e].lsm # req[a].lsm
            \/ rows[e].rev # rev[a]
        <5> HIDE DEF IndInv, TypeOK
        <5> QED BY <2>1, <3>2, SMTT(30) DEF Mismatch, LegacyAuthorityMatches
      <4>2. /\ Ledger[e].role = rows[e].role /\ Ledger[e].lsm = rows[e].lsm
            /\ Ledger[e].rev = rows[e].rev
        <5>1. TypeOK /\ rows[e] # NoRow
          BY <1>6, <1>8
        <5> HIDE DEF IndInv, TypeOK, e
        <5> QED BY <1>4, <5>1, LedgerOf
      <4> HIDE DEF IndInv, TypeOK, e
      <4> QED BY <4>1, <4>2 DEF Contract!SameMutation
    <3> QED BY <3>1, <3>2
  <2>3. Contract!Reply(a, Contract!Answer("conflict", NoOne))
    BY <1>1, <1>2, <1>3, <2>1, AnswerKinds, Zenon DEF Contract!Reply, Contract!Answer
  <2> QED BY <1>6, <1>8, <2>2, <2>3 DEF Contract!Next, Contract!AnswerConflict
<1> QED BY <1>1, <1>5, <1>7, <1>8 DEF ControlInv, Controlled

\* A call returns an error: `failed` only if its transaction can no longer
\* commit, `unknown` otherwise.
LEMMA FailedStep ==
    ASSUME IndInv, [Next]_vars, NEW a \in Attempts,
           AuditUnavailable(a) \/ RecordFailure(a) \/ RecordFailureFails(a)
    PROVE  Contract!Next
<1> USE DEF IndInv, TypeOK
<1>1. /\ pc[a] \in {"idle", "record"} /\ pc' = [pc EXCEPT ![a] = "done"]
      /\ rows' = rows /\ req' = req /\ rev' = rev
      /\ outcome'[a] \in Failures \cup {"unavailable", "audit_failed"}
      /\ outcome'[a] \in {"unavailable", "rejected", "rolled_back"} =>
            tx[a] # "committed"
  BY DEF AuditUnavailable, RecordFailure, RecordFailureFails, tables,
         ControlInv, Controlled, Failures
<1>2. /\ Answers[a] = Contract!Pending
      /\ Answers' = [Answers EXCEPT ![a] =
            [kind |-> AnswerKind(outcome'[a]), mid |-> NoOne]]
  <2>1. /\ pc[a] # "done" /\ pc'[a] = "done"
        /\ \A b \in Attempts \ {a} : pc'[b] = pc[b]
        /\ outcome'[a] \notin {"ok", "replayed"}
    BY <1>1 DEF Failures
  <2> QED BY <2>1, OneAnswer, Zenon
<1>3. Ledger' = Ledger
  BY <1>1 DEF Ledger, Binding
<1>4. CASE outcome'[a] \in {"unavailable", "rejected", "rolled_back"}
  <2>1. a \notin effects
    <3>1. LedgerInv /\ tx[a] # "committed"
      BY <1>1, <1>4
    <3> HIDE DEF IndInv, TypeOK
    <3> QED BY <3>1 DEF LedgerInv
  <2>2. Contract!Reply(a, Contract!Answer("failed", NoOne))
    BY <1>1, <1>2, <1>3, <1>4, AnswerKinds, Zenon DEF Contract!Reply, Contract!Answer
  <2> QED BY <2>1, <2>2, AppliedIsEffect, SMTT(30)
         DEF Contract!Next, Contract!AnswerFailed
<1>5. CASE outcome'[a] \in {"indeterminate", "audit_failed"}
  BY <1>1, <1>2, <1>3, <1>5, AnswerKinds, Zenon
     DEF Contract!Next, Contract!AnswerUnknown, Contract!Reply, Contract!Answer
<1> QED BY <1>1, <1>4, <1>5 DEF Failures

\* The server commits: the call takes effect, in a free scope and before any
\* definite answer, or only bookkeeping changes.
LEMMA CommitStep ==
    ASSUME IndInv, [Next]_vars, NEW a \in Attempts, ServerCommit(a)
    PROVE  [Contract!Next]_(Contract!vars)
<1> USE DEF IndInv, TypeOK
<1>1. tx[a] = "commit" /\ pc' = pc /\ req' = req /\ rev' = rev
  BY DEF ServerCommit, client
<1>2. Answers' = Answers
  BY <1>1, NoAnswer
<1>3. Own(req[a]) \in RowId /\ LegacyId(req[a]) \in RowId /\ req[a] \in Request
  BY RowIds, SMTT(30)
<1>4. CASE work[a] = "finished"
  <2>1. /\ rows' = [rows EXCEPT ![Own(req[a])] = InsertedRow(a)]
        /\ mid[a] = a
    BY <1>4, CommitEffect, SMTT(30) DEF ControlInv, Controlled, Executing
  <2>2. rows[Own(req[a])] = NoRow /\ rows[LegacyId(req[a])] = NoRow
    BY <1>1, <1>4, SMTT(30) DEF LockInv, NoLegacyInv, Executing, Live
  <2>3. InsertedRow(a) \in Row
    BY <1>3, <1>4, <2>1, SMTT(30) DEF InsertedRow, Row, Mids, Request
  <2> DEFINE entry == [subj |-> req[a].subj, role |-> req[a].role,
                       lsm |-> req[a].lsm, rev |-> rev[a], mid |-> a]
  <2>4. Binding(InsertedRow(a)) = entry
    <3>1. InsertedRow(a) # NoRow
      BY <2>3, ConstantsAssumption, SMTT(30)
    <3> QED BY <2>1, <3>1 DEF Binding, InsertedRow
  <2>5. Ledger' = [Ledger EXCEPT ![Own(req[a])] = entry]
    <3>1. ASSUME NEW r \in RowId
          PROVE  Binding(rows'[r]) = IF r = Own(req[a]) THEN entry
                                     ELSE Binding(rows[r])
      BY <1>3, <2>1, <2>4
    <3> QED BY <3>1, Zenon DEF Ledger
  <2>6. Answers[a].kind \in {"pending", "unknown"}
    <3>1. outcome[a] \in {"none", "indeterminate", "audit_failed"}
      BY <1>1 DEF ControlInv, Controlled, Outcomes, Failures
    <3> QED BY <3>1, AnswerKinds DEF Answers, Answered
  <2>7. Ledger[Own(req[a])] = NoRow /\ Ledger[LegacyId(req[a])] = NoRow
    BY <1>3, <2>2, LedgerOf
  <2> QED BY <1>1, <1>2, <2>5, <2>6, <2>7, Zenon
          DEF Contract!Next, Contract!Apply, Contract!Scope,
              Contract!LegacyScope, Own, LegacyId
<1>5. CASE work[a] # "finished"
  <2>1. ASSUME NEW r \in RowId PROVE Binding(rows'[r]) = Binding(rows[r])
    <3>1. CASE rows'[r] = rows[r]
      BY <3>1
    <3>2. CASE rows'[r] # rows[r]
      <4>1. work[a] = "replay" /\ r = Existing(req[a])
        BY <1>5, <3>2, CommitEffect
      <4>2. rows[r] # NoRow
        BY <4>1 DEF DecisionInv, Decided
      <4> QED BY <4>2, RowsStep DEF RowStep, SameBinding, Binding
    <3> QED BY <3>1, <3>2
  <2>2. Ledger' = Ledger
    BY <2>1 DEF Ledger
  <2> QED BY <1>1, <1>2, <2>2, Stuttering
<1> QED BY <1>4, <1>5

\* The other steps of the protocol are invisible, but for the choice of the
\* revision.
LEMMA QuietStep ==
    ASSUME IndInv, [Next]_vars,
           \A a \in Attempts :
               /\ ~ServerCommit(a) /\ ~CommitAcknowledged(a)
               /\ ~AuditUnavailable(a) /\ ~RecordFailure(a)
               /\ ~RecordFailureFails(a)
    PROVE  [Contract!Next]_(Contract!vars)
<1> USE DEF IndInv, TypeOK
<1>1. req' = req /\ Ledger' = Ledger
  <2>1. req' = req
    BY Zenon DEF Next, ClientStep, Call, Load, Begin, Run, Finish, Crash, SendCommit,
       CommitIndeterminate, Fail, ClaimSelect, ClaimInsert, ClaimReselect,
       Decide, ServerAbort, Publish, client, vars
  <2>2. rows' = rows
    BY TablesChange
  <2> QED BY <2>1, <2>2, SMTT(30) DEF Ledger, Binding
<1>2. ASSUME NEW b \in Attempts, pc'[b] = "done" PROVE pc[b] = "done"
  <2>1. ASSUME NEW a \in Attempts,
               Call(a) \/ Load(a) \/ Begin(a) \/ Run(a) \/ Finish(a) \/ Crash(a)
        PROVE  pc[b] = "done"
    BY <1>2, <2>1, SMTT(30) DEF Call, Load, Begin, Run, Finish, Crash
  <2>2. ASSUME NEW a \in Attempts,
               SendCommit(a) \/ CommitIndeterminate(a) \/ Fail(a)
        PROVE  pc[b] = "done"
    BY <1>2, <2>2, SMTT(30) DEF SendCommit, CommitIndeterminate, Fail
  <2>3. ASSUME NEW a \in Attempts,
               ClaimSelect(a) \/ ClaimInsert(a) \/ ClaimReselect(a)
        PROVE  pc[b] = "done"
    BY <1>2, <2>3 DEF ClaimSelect, ClaimInsert, ClaimReselect, Decide
  <2>4. ASSUME NEW a \in Attempts, ServerAbort(a) PROVE pc[b] = "done"
    BY <1>2, <2>4 DEF ServerAbort, client
  <2>5. CASE Publish \/ UNCHANGED vars
    BY <1>2, <2>5 DEF Publish, client, vars
  <2> QED BY <2>1, <2>2, <2>3, <2>4, <2>5, SMTT(30) DEF Next, ClientStep
<1>3. Answers' = Answers
  BY <1>2, NoAnswer
<1>4. ASSUME NEW a \in Attempts, Load(a) PROVE Contract!Next
  <2>1. pc[a] = "prepare" /\ rev' = [rev EXCEPT ![a] = published]
    BY <1>4 DEF Load
  <2>2. Answers[a] = Contract!Pending
    BY <2>1, Zenon DEF Answers, Answered, Contract!Pending, Contract!Answer
  <2>3. a \notin effects
    BY <2>1, Zenon DEF ControlInv, Controlled, LedgerInv
  <2> QED BY <1>1, <1>3, <2>1, <2>2, <2>3, AppliedIsEffect, Zenon
          DEF Contract!Next, Contract!Resolve
<1>5. CASE \A a \in Attempts : ~Load(a)
  <2>1. rev' = rev
    BY <1>5, Zenon DEF Next, ClientStep, Call, Begin, Run, Finish, Crash, SendCommit,
       CommitIndeterminate, Fail, ClaimSelect, ClaimInsert, ClaimReselect,
       Decide, ServerAbort, Publish, client, vars
  <2> QED BY <1>1, <1>3, <2>1, Stuttering, SMTT(30)
<1> QED BY <1>4, <1>5

\* Every behaviour of the protocol is one of the contract: what callers are
\* told about their mutations is true, for any number of callers, retries,
\* crashes and broken connections.
THEOREM ImplementsContract == Spec => ContractHolds
<1>1. Init => Contract!Init
  <2> SUFFICES ASSUME Init PROVE Contract!Init
    OBVIOUS
  <2>1. Ledger = [r \in RowId |->
                     IF r[1] = Legacy THEN LegacyLedger[r[2]] ELSE NoRow]
    <3>1. ASSUME NEW r \in RowId
          PROVE  Binding(rows[r]) = IF r[1] = Legacy THEN LegacyLedger[r[2]]
                                    ELSE NoRow
      BY DEF Init, RowId, Binding, LegacyLedger
    <3> QED BY <3>1, SMTT(30) DEF Ledger
  <2>2. Answers = [a \in Attempts |-> Contract!Pending]
    BY DEF Init, Answers, Answered, Contract!Pending, Contract!Answer
  <2>3. rev \in [Attempts -> Revisions]
    BY ConstantsAssumption DEF Init, Revisions
  <2> QED BY <2>1, <2>2, <2>3 DEF Init, Contract!Init
<1>2. IndInv /\ [Next]_vars => [Contract!Next]_(Contract!vars)
  BY AcknowledgedStep, FailedStep, CommitStep, QuietStep
<1> QED BY <1>1, <1>2, Invariance, PTL DEF Spec, ContractHolds, Contract!Spec
=============================================================================
