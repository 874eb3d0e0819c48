--------------------------- MODULE MutationProofs ---------------------------
(***************************************************************************)
(* Proofs about Mutation, for every number of calls, authorities, keys,     *)
(* documents, roles and revisions: the rows, the audit table and the count  *)
(* of the replays are inductive on top of MutationSteps.                    *)
(***************************************************************************)
EXTENDS MutationSteps, FiniteSetTheorems

\* The row that governs a key goes on doing so.
LEMMA ExistingStable ==
    ASSUME IndInv, [Next]_vars, NEW q \in Request, rows[Existing(q)] # NoRow
    PROVE  Existing(q)' = Existing(q)
<1> USE DEF IndInv, Existing
<1>1. Own(q) \in RowId
  BY RowIds
<1>2. CASE rows[Own(q)] # NoRow
  BY <1>1, <1>2, RowsStep DEF RowStep, SameBinding, Existing
<1>3. CASE rows[Own(q)] = NoRow
  <2>1. ASSUME NEW c \in Attempts, ServerCommit(c), work[c] = "finished",
               Own(q) = Own(req[c])
        PROVE  FALSE
    <3>1. rows[LegacyId(req[c])] = NoRow
      BY <2>1 DEF NoLegacyInv, Executing
    <3>2. LegacyId(q) = LegacyId(req[c])
      BY <2>1 DEF Own, LegacyId
    <3> QED BY <1>3, <3>1, <3>2 DEF Existing
  <2>2. rows'[Own(q)] = NoRow
    BY <1>1, <1>3, <2>1, RowsStep DEF RowStep
  <2> QED BY <1>3, <2>2 DEF Existing
<1> QED BY <1>2, <1>3

\* A conflict or a replay stays right after it was decided, also when the row
\* lock is gone.
LEMMA DecisionStep == IndInv /\ [Next]_vars => DecisionInv'
<1> USE DEF Existing, Mismatch, LegacyAuthorityMatches, Decided
<1> SUFFICES ASSUME IndInv, [Next]_vars, NEW b \in Attempts,
                    work'[b] \in {"replay", "conflict"}
             PROVE  Decided(b)'
  BY SMTT(30) DEF DecisionInv
<1> DEFINE e  == Existing(req[b])
           En == Existing(req[b])'
           M  == Mismatch(Existing(req[b]), req[b], rev[b])
           Mn == Mismatch(Existing(req[b]), req[b], rev[b])'
<1> SUFFICES /\ rows'[En] # NoRow
             /\ work'[b] = "replay" => ~Mn /\ mid'[b] = rows'[En].mid
             /\ work'[b] = "conflict" => Mn
  OBVIOUS
<1> HIDE DEF Existing, Mismatch, LegacyAuthorityMatches, Decided, e, En, M, Mn
<1>t. /\ work \in [Attempts -> Works]
      /\ mid \in [Attempts -> Mids \cup {NoOne}]
      /\ req \in [Attempts -> Request]
  BY DEF IndInv, TypeOK
<1>1. req'[b] = req[b] /\ req[b] \in Request /\ e \in RowId
  BY <1>t, Settling, RowIds DEF Settled, e
<1>2. CASE work[b] \in {"replay", "conflict"}
  <2>1. /\ rows[e] # NoRow
        /\ work[b] = "replay" => ~M /\ mid[b] = rows[e].mid
        /\ work[b] = "conflict" => M
    BY <1>2 DEF IndInv, DecisionInv, Decided, e, M
  <2>2. work'[b] = work[b] /\ rev'[b] = rev[b] /\ mid'[b] = mid[b]
    BY <1>2, Settling DEF Settled
  <2>3. En = e
    <3>1. rows[Existing(req[b])] # NoRow
      BY <2>1 DEF e
    <3> QED BY <1>1, <3>1, ExistingStable DEF e, En, Existing
  <2>4. SameBinding(rows[e], rows'[e])
    BY <1>1, <2>1, RowsStep DEF RowStep
  <2>5. Mn = M
    BY <1>1, <2>2, <2>3, <2>4, Zenon
       DEF SameBinding, e, En, M, Mn, Existing, Mismatch, LegacyAuthorityMatches
  <2> QED BY <2>1, <2>2, <2>3, <2>4, <2>5 DEF SameBinding
<1>3. CASE work[b] \notin {"replay", "conflict"}
  <2>1. /\ Decide(b, e) /\ rows[e] # NoRow
    <3>1. ASSUME NEW a \in Attempts,
                 Call(a) \/ AuditUnavailable(a) \/ Load(a) \/ Begin(a)
                 \/ Run(a) \/ Finish(a) \/ Crash(a)
          PROVE  FALSE
      BY <1>t, <1>3, <3>1
         DEF Call, AuditUnavailable, Load, Begin, Run, Finish, Crash
    <3>2. ASSUME NEW a \in Attempts,
                 SendCommit(a) \/ CommitIndeterminate(a)
                 \/ CommitAcknowledged(a) \/ RecordFailure(a)
                 \/ RecordFailureFails(a) \/ Fail(a)
          PROVE  FALSE
      BY <1>t, <1>3, <3>2 DEF SendCommit, CommitIndeterminate, CommitAcknowledged,
                        RecordFailure, RecordFailureFails, Fail
    <3>3. ASSUME NEW a \in Attempts, ServerCommit(a) \/ ServerAbort(a)
          PROVE  FALSE
      BY <1>t, <1>3, <3>3 DEF ServerCommit, ServerAbort
    <3>4. CASE Publish \/ UNCHANGED vars
      BY <1>t, <1>3, <3>4 DEF Publish, vars
    <3>5. ASSUME NEW a \in Attempts, ClaimInsert(a) PROVE FALSE
      BY <1>t, <1>3, <3>5 DEF ClaimInsert
    <3>6. ASSUME NEW a \in Attempts, ClaimSelect(a)
          PROVE  a = b /\ Decide(b, e) /\ rows[e] # NoRow
      BY <1>t, <1>3, <3>6 DEF ClaimSelect, Decide, e
    <3>7. ASSUME NEW a \in Attempts, ClaimReselect(a)
          PROVE  a = b /\ Decide(b, e) /\ rows[e] # NoRow
      <4>1. a = b
        BY <1>t, <1>3, <3>7 DEF ClaimReselect, Decide
      <4> QED BY <3>7, <4>1 DEF ClaimReselect, e, Existing
    <3> QED BY <3>1, <3>2, <3>3, <3>4, <3>5, <3>6, <3>7 DEF Next, ClientStep
  <2>2. rows' = rows /\ rev' = rev /\ req' = req
    BY <2>1 DEF Decide
  <2>3. En = e
    BY <2>2 DEF e, En, Existing
  <2>4. Mn = M
    BY <2>2 DEF M, Mn, Existing, Mismatch, LegacyAuthorityMatches
  <2>5. /\ work'[b] = "replay" => ~M /\ mid'[b] = rows[e].mid
        /\ work'[b] = "conflict" => M
    <3>1. Mismatch(e, req[b], rev[b]) = M
      BY DEF e, M
    <3> QED BY <1>t, <2>1, <3>1 DEF Decide
  <2> QED BY <2>1, <2>2, <2>3, <2>4, <2>5
<1> QED BY <1>2, <1>3, SMTT(30)

\* Rows, calls that took effect and finished transactions stay in bijection:
\* the commit that makes the DML durable also inserts the committed row.
LEMMA LedgerStep == IndInv /\ [Next]_vars => LedgerInv'
<1> SUFFICES ASSUME IndInv, [Next]_vars PROVE LedgerInv'
  OBVIOUS
<1>t. /\ tx \in [Attempts -> {"none", "open", "commit", "committed", "aborted"}]
      /\ req \in [Attempts -> Request]
      /\ LedgerInv
  BY DEF IndInv, TypeOK
<1>1. /\ effects' \subseteq Attempts
      /\ effects \subseteq effects'
      /\ \A b \in Attempts : b \in effects' <=>
            tx'[b] = "committed" /\ work'[b] = "finished"
  <2>1. CASE effects' = effects /\ \A a \in Attempts : ~ServerCommit(a)
    BY <1>t, <2>1, Settling DEF Settled, LedgerInv
  <2>2. ASSUME NEW a \in Attempts, ServerCommit(a) 
        PROVE  /\ effects' \subseteq Attempts
               /\ effects \subseteq effects'
               /\ \A b \in Attempts : b \in effects' <=>
                     tx'[b] = "committed" /\ work'[b] = "finished"
    <3>1. /\ tx' = [tx EXCEPT ![a] = "committed"]
          /\ work' = work
          /\ effects' = effects \cup {b \in {a} : work[a] = "finished"}
      BY <2>2, CommitEffect, Zenon DEF ServerCommit
    <3>2. \A b \in Attempts : b \in effects <=>
             tx[b] = "committed" /\ work[b] = "finished"
      BY <1>t DEF LedgerInv
    <3>3. tx[a] = "commit"
      BY <2>2 DEF ServerCommit
    <3>4. effects \subseteq Attempts
      BY <1>t DEF LedgerInv
    <3> QED BY <1>t, <3>1, <3>2, <3>3, <3>4
  <2> QED BY <2>1, <2>2, TablesChange
<1>2. ASSUME NEW a \in Attempts, ServerCommit(a), work[a] = "finished"
      PROVE  /\ a \in effects'
             /\ rows'[Own(req[a])] = InsertedRow(a)
             /\ InsertedRow(a).mid = a
             /\ InsertedRow(a).status = "committed"
  <2>1. mid[a] = a
    BY <1>2 DEF IndInv, ControlInv, Controlled, Executing
  <2>2. rows' = [rows EXCEPT ![Own(req[a])] = InsertedRow(a)]
    BY <1>2, CommitEffect, Zenon
  <2>3. Own(req[a]) \in RowId /\ rows \in [RowId -> Row \cup {NoRow}]
    BY <1>t, RowIds DEF IndInv, TypeOK
  <2> QED BY <1>1, <1>2, <2>1, <2>2, <2>3, CommitEffect, Zenon DEF InsertedRow
<1>3. ASSUME NEW b \in effects'
      PROVE  LET r == rows'[Own(req'[b])] IN
             /\ r # NoRow
             /\ r.mid = b /\ r.subj = req'[b].subj /\ r.role = req'[b].role
             /\ r.lsm = req'[b].lsm /\ r.rev = rev'[b]
  <2>1. b \in Attempts /\ req'[b] = req[b] /\ Own(req[b]) \in RowId
    BY <1>t, <1>1, <1>3, Settling, RowIds DEF Settled
  <2>2. CASE b \in effects
    <3>1. rev'[b] = rev[b]
      BY <1>t, <2>1, <2>2, Settling DEF Settled, LedgerInv
    <3> QED BY <1>t, <2>1, <2>2, <3>1, RowsStep DEF LedgerInv, RowStep, SameBinding
  <2>3. CASE b \notin effects
    <3>1. ServerCommit(b) /\ work[b] = "finished"
      <4>1. tx'[b] = "committed" /\ work'[b] = "finished"
        BY <1>1, <1>3, <2>1
      <4>2. tx[b] # "committed"
        <5>1. ~(tx[b] = "committed" /\ work[b] = "finished")
          BY <1>t, <2>1, <2>3 DEF LedgerInv
        <5>2. tx[b] = "committed" => work'[b] = work[b]
          BY <2>1, Settling DEF Settled
        <5> QED BY <4>1, <5>1, <5>2
      <4>3. ServerCommit(b)
        BY <2>1, <4>1, <4>2, Settling DEF Settled
      <4>4. work' = work
        BY <4>3 DEF ServerCommit
      <4> QED BY <4>1, <4>3, <4>4
    <3>2. InsertedRow(b) \in Row
      <4>1. mid[b] = b
        BY <2>1, <3>1 DEF IndInv, ControlInv, Controlled, Executing
      <4> QED BY <1>t, <2>1, <3>1, <4>1
             DEF IndInv, TypeOK, InsertedRow, Row, Mids, Request
    <3>3. rev'[b] = rev[b]
      BY <3>1, <2>1 DEF ServerCommit, client
    <3>4. rows'[Own(req[b])] = InsertedRow(b) /\ InsertedRow(b).mid = b
      BY <1>2, <2>1, <3>1
    <3>5. /\ InsertedRow(b).subj = req[b].subj /\ InsertedRow(b).role = req[b].role
          /\ InsertedRow(b).lsm = req[b].lsm /\ InsertedRow(b).rev = rev[b]
      BY DEF InsertedRow
    <3>6. InsertedRow(b) # NoRow
      BY <3>2, ConstantsAssumption
    <3> QED BY <2>1, <3>3, <3>4, <3>5, <3>6
  <2> QED BY <2>2, <2>3
<1>4. ASSUME NEW r \in RowId, rows'[r] # NoRow
      PROVE  /\ rows'[r].status = "committed"
             /\ r[1] = Legacy => rows'[r].mid = r
             /\ r[1] # Legacy =>
                   rows'[r].mid \in effects' /\ r = Own(req'[rows'[r].mid])
  <2>1. CASE rows[r] # NoRow
    <3>1. SameBinding(rows[r], rows'[r])
      BY <2>1, RowsStep DEF RowStep
    <3>2. ASSUME r[1] # Legacy
          PROVE  rows[r].mid \in effects /\ rows[r].mid \in Attempts
                 /\ r = Own(req[rows[r].mid])
      BY <1>t, <2>1, <3>2 DEF LedgerInv
    <3>3. ASSUME r[1] # Legacy
          PROVE  rows'[r].mid \in effects' /\ r = Own(req'[rows'[r].mid])
      <4>1. req'[rows[r].mid] = req[rows[r].mid]
        BY <3>2, <3>3, Settling DEF Settled
      <4> QED BY <1>1, <3>1, <3>2, <3>3, <4>1 DEF SameBinding
    <3> QED BY <1>t, <2>1, <3>1, <3>3 DEF SameBinding, LedgerInv
  <2>2. CASE rows[r] = NoRow
    <3>1. PICK a \in Attempts : /\ ServerCommit(a)
                                /\ work[a] = "finished"
                                /\ r = Own(req[a])
                                /\ rows'[r] = InsertedRow(a)
      BY <1>4, <2>2, RowsStep DEF RowStep
    <3>2. r[1] # Legacy
      BY <1>t, <3>1, OwnIsNotLegacy
    <3>3. /\ rows'[r].mid = a /\ rows'[r].status = "committed"
          /\ a \in effects' /\ req'[a] = req[a]
      BY <1>2, <3>1, Settling DEF Settled
    <3> QED BY <3>1, <3>2, <3>3
  <2> QED BY <2>1, <2>2
<1>5. effects' = {a \in Attempts : tx'[a] = "committed" /\ work'[a] = "finished"}
  BY <1>1
<1> QED BY <1>3, <1>4, <1>5 DEF LedgerInv

\* The audit table only grows, by a failure row or by the attempt row that
\* commits with its transaction.
LEMMA AuditChange ==
    ASSUME IndInv, [Next]_vars
    PROVE  \/ audit' = audit /\ \A a \in Attempts : ~ServerCommit(a)
           \/ \E a \in Attempts :
                 /\ RecordFailure(a) \/ RecordFailureFails(a)
                 /\ audit' = audit \cup {FailureRow(a)}
                 /\ \A b \in Attempts : ~ServerCommit(b)
           \/ \E a \in Attempts :
                 ServerCommit(a) /\ audit' = audit \cup {AttemptRow(a)}
<1> USE DEF IndInv, TypeOK
<1>1. ASSUME NEW a \in Attempts, ServerCommit(a)
      PROVE  audit' = audit \cup {AttemptRow(a)}
  BY <1>1 DEF ServerCommit
<1>2. ASSUME NEW a \in Attempts, RecordFailure(a) \/ RecordFailureFails(a)
      PROVE  audit' \in {audit, audit \cup {FailureRow(a)}}
  BY <1>2 DEF RecordFailure, RecordFailureFails
<1>3. ASSUME \A a \in Attempts : /\ ~ServerCommit(a)
                                 /\ ~RecordFailure(a)
                                 /\ ~RecordFailureFails(a)
      PROVE  audit' = audit
  BY <1>3, Zenon DEF Next, ClientStep, Call, AuditUnavailable, Load, Begin, Run,
       Finish, Crash, SendCommit, CommitIndeterminate, CommitAcknowledged,
       Fail, ClaimSelect, ClaimInsert, ClaimReselect, Decide, ServerAbort,
       Publish, client, tables, vars
<1> QED BY <1>1, <1>2, <1>3

\* The audit table is finite in every reachable state.
LEMMA AuditFinite == IndInv /\ [Next]_vars => IsFiniteSet(audit')
<1> SUFFICES ASSUME IndInv, [Next]_vars PROVE IsFiniteSet(audit')
  OBVIOUS
<1>1. IsFiniteSet(audit)
  BY DEF IndInv, AuditInv
<1>2. CASE audit' = audit
  BY <1>1, <1>2
<1>3. ASSUME NEW w, audit' = audit \cup {w} PROVE IsFiniteSet(audit')
  <2>1. IsFiniteSet(audit \cup {w})
    BY <1>1, FS_AddElement
  <2> QED BY <1>3, <2>1
<1> QED BY <1>2, <1>3, AuditChange, Zenon

\* Every audit row stays true: a failure row written after record_mutation_
\* failure, and an attempt row of a transaction that committed.
LEMMA AuditStep == IndInv /\ [Next]_vars => AuditInv'
<1> USE DEF Audited, AttemptRow
<1> SUFFICES ASSUME IndInv, [Next]_vars PROVE AuditInv'
  OBVIOUS
<1>t. /\ tx \in [Attempts -> {"none", "open", "commit", "committed", "aborted"}]
      /\ pc \in [Attempts -> PCs]
      /\ \A w \in audit : w.att \in Attempts
  BY DEF IndInv, TypeOK, AuditRow
<1>1. IsFiniteSet(audit')
  BY AuditFinite
<1>2. ASSUME NEW w \in audit PROVE Audited(w)'
  <2>1. w.att \in Attempts /\ Settled(w.att) /\ Audited(w)
    BY <1>t, Settling, Zenon DEF IndInv, AuditInv
  <2>2. CASE tx[w.att] = "committed" /\ w = AttemptRow(w.att)
    BY <2>1, <2>2 DEF Settled
  <2>3. CASE ~(tx[w.att] = "committed" /\ w = AttemptRow(w.att))
    BY <2>1, <2>3 DEF Settled
  <2> QED BY <2>2, <2>3, Zenon
<1>3. ASSUME NEW a \in Attempts, RecordFailure(a) \/ RecordFailureFails(a)
      PROVE  /\ outcome[a] \in Failures
             /\ outcome[a] # "indeterminate" =>
                   tx[a] \notin {"commit", "committed"}
             /\ pc'[a] = "done" /\ tx' = tx
  <2>1. /\ outcome[a] \in Failures
        /\ outcome[a] # "indeterminate" => tx[a] \notin {"commit", "committed"}
    BY <1>3 DEF RecordFailure, RecordFailureFails, IndInv, ControlInv,
                Controlled, Failures
  <2>2. pc'[a] = "done" /\ tx' = tx
    BY <1>t, <1>3 DEF RecordFailure, RecordFailureFails
  <2> QED BY <2>1, <2>2, SMTT(30)
<1>4. ASSUME NEW a \in Attempts, ServerCommit(a)
      PROVE  tx'[a] = "committed" /\ AttemptRow(a)' = AttemptRow(a)
  BY <1>t, <1>4 DEF ServerCommit, client
<1>5. ASSUME NEW w \in audit' PROVE Audited(w)'
  <2>1. CASE w \in audit
    BY <1>2, <2>1, Zenon
  <2>2. CASE w \notin audit
    <3>1. \/ \E a \in Attempts : /\ RecordFailure(a) \/ RecordFailureFails(a)
                                 /\ w = FailureRow(a)
          \/ \E a \in Attempts : ServerCommit(a) /\ w = AttemptRow(a)
      BY <1>5, <2>2, AuditChange
    <3>2. CASE \E a \in Attempts : /\ RecordFailure(a) \/ RecordFailureFails(a)
                                   /\ w = FailureRow(a)
      <4>1. PICK a \in Attempts : /\ RecordFailure(a) \/ RecordFailureFails(a)
                                  /\ w = FailureRow(a)
        BY <3>2
      <4>2. w.att = a /\ w.mid = NoOne /\ w.replayed = FALSE /\ w.status = outcome[a]
        BY <4>1, SMTT(30) DEF FailureRow
      <4> QED BY <1>3, <4>1, <4>2
    <3>3. CASE \E a \in Attempts : ServerCommit(a) /\ w = AttemptRow(a)
      <4>1. PICK a \in Attempts : ServerCommit(a) /\ w = AttemptRow(a)
        BY <3>3
      <4>2. w.att = a
        BY <4>1
      <4> QED BY <1>4, <4>1, <4>2, Zenon
    <3> QED BY <3>1, <3>2, <3>3, Zenon
  <2> QED BY <2>1, <2>2, Zenon
<1>6. ASSUME NEW b \in Attempts, tx'[b] = "committed"
      PROVE  AttemptRow(b)' \in audit'
  <2>1. CASE tx[b] = "committed"
    <3>1. AttemptRow(b)' = AttemptRow(b)
      BY <2>1, Settling DEF Settled
    <3>2. AttemptRow(b) \in audit /\ audit \subseteq audit'
      BY <2>1, AuditChange, Zenon DEF IndInv, AuditInv
    <3> QED BY <3>1, <3>2, SMTT(30)
  <2>2. CASE tx[b] # "committed"
    <3>1. ServerCommit(b)
      BY <1>6, <2>2, Settling DEF Settled
    <3> QED BY <3>1, Zenon DEF ServerCommit, client
  <2> QED BY <2>1, <2>2
<1> QED BY <1>1, <1>5, <1>6, Zenon DEF AuditInv

\* Two rows never share a mutation id.
LEMMA MidsAreUnique ==
    ASSUME IndInv, NEW r \in RowId, NEW s \in RowId,
           rows[r] # NoRow, rows[s] # NoRow, rows[r].mid = rows[s].mid
    PROVE  r = s
<1>1. ASSUME NEW x \in RowId, rows[x] # NoRow
      PROVE  /\ x[1] = Legacy => rows[x].mid = x
             /\ x[1] # Legacy => /\ rows[x].mid \in Attempts
                                 /\ x = Own(req[rows[x].mid])
  BY <1>1 DEF IndInv, TypeOK, LedgerInv
<1>2. Attempts \cap RowId = {}
  BY ConstantsAssumption
<1> QED BY <1>1, <1>2, SMTT(30)

\* The fields of the row that the transaction of a call writes to the audit.
LEMMA AttemptRowFields ==
    ASSUME NEW b \in Attempts
    PROVE  /\ AttemptRow(b).att = b
           /\ AttemptRow(b).mid = mid[b]
           /\ AttemptRow(b).replayed = (work[b] = "replay")
BY DEF AttemptRow

\* The replays that the audit table holds for a mutation id.
Replays(rowset, m) == {w \in rowset : w.replayed /\ w.mid = m}

\* replay_count stays the number of committed replays: an executed claim starts
\* at zero under a fresh id, a replay adds one to both, and no other audit row
\* is a replay.
LEMMA ReplaysStep == IndInv /\ [Next]_vars => ReplaysCounted'
<1> SUFFICES ASSUME IndInv, [Next]_vars, NEW r \in RowId, rows'[r] # NoRow
             PROVE  rows'[r].replays = Cardinality(Replays(audit', rows'[r].mid))
  BY DEF ReplaysCounted, Replays
<1>1. ASSUME rows[r] # NoRow
      PROVE  /\ rows[r].replays = Cardinality(Replays(audit, rows[r].mid))
             /\ SameBinding(rows[r], rows'[r])
  BY <1>1, RowsStep DEF IndInv, ReplaysCounted, Replays, RowStep
<1>2. CASE \A a \in Attempts : ~ServerCommit(a)
  <2>1. rows' = rows
    BY <1>2, TablesChange
  <2>2. Replays(audit', rows[r].mid) = Replays(audit, rows[r].mid)
    BY <1>2, AuditChange DEF Replays, FailureRow
  <2> QED BY <1>1, <2>1, <2>2
<1>3. ASSUME NEW a \in Attempts, ServerCommit(a)
      PROVE  rows'[r].replays = Cardinality(Replays(audit', rows'[r].mid))
  <2>1. audit' = audit \cup {AttemptRow(a)} /\ tx[a] = "commit"
    BY <1>3 DEF ServerCommit
  <2>2. ASSUME work[a] # "replay", NEW m
        PROVE  Replays(audit', m) = Replays(audit, m)
    <3>1. ~AttemptRow(a).replayed
      BY <2>2, AttemptRowFields, Zenon
    <3> QED BY <2>1, <3>1 DEF Replays
  <2>3. CASE work[a] = "conflict"
    <3>1. rows' = rows
      BY <1>3, <2>3, CommitEffect, Zenon
    <3> QED BY <1>1, <2>2, <2>3, <3>1
  <2>4. CASE work[a] = "finished"
    <3>1. rows' = [rows EXCEPT ![Own(req[a])] = InsertedRow(a)]
      BY <1>3, <2>4, CommitEffect, Zenon
    <3>2. CASE r # Own(req[a])
      <4>1. rows'[r] = rows[r]
        BY <3>1, <3>2 DEF IndInv, TypeOK
      <4> QED BY <1>1, <2>2, <2>4, <4>1
    <3>3. CASE r = Own(req[a])
      <4>1. rows'[r].replays = 0 /\ rows'[r].mid = a
        BY <3>1, <3>3, <2>4, SMTT(30)
           DEF IndInv, TypeOK, InsertedRow, ControlInv, Controlled, Executing
      <4>2. ASSUME NEW w \in Replays(audit, a) PROVE FALSE
        <5>1. w.att \in Attempts /\ w.mid = a /\ a # NoOne
          BY <4>2, ConstantsAssumption, SMTT(30)
             DEF Replays, IndInv, TypeOK, AuditRow, Mids
        <5>2. w = AttemptRow(w.att) /\ w.replayed
          BY <4>2, <5>1 DEF Replays, IndInv, AuditInv, Audited
        <5>3. work[w.att] = "replay" /\ mid[w.att] = a
          BY <5>1, <5>2, AttemptRowFields, Zenon
        <5> DEFINE e == Existing(req[w.att])
        <5>4. e \in RowId /\ rows[e] # NoRow /\ rows[e].mid = a
          BY <5>1, <5>3, RowIds, Zenon DEF IndInv, TypeOK, DecisionInv, Decided
        <5>5. a \in effects
          <6>1. a \notin RowId
            BY ConstantsAssumption
          <6> QED BY <5>4, <6>1, Zenon DEF IndInv, LedgerInv
        <5> QED BY <5>5, <2>1 DEF IndInv, LedgerInv
      <4>3. Replays(audit', a) = {}
        BY <2>2, <2>4, <4>2
      <4> QED BY <4>1, <4>3, FS_EmptySet, SMTT(30)
    <3> QED BY <3>2, <3>3
  <2>5. CASE work[a] = "replay"
    <3> DEFINE e == Existing(req[a])
               W == AttemptRow(a)
    <3>1. /\ e \in RowId /\ rows[e] # NoRow /\ rows[e] \in Row
          /\ mid[a] = rows[e].mid
      BY <2>5, RowIds DEF IndInv, TypeOK, DecisionInv, Decided
    <3>2. rows' = [rows EXCEPT ![e] = [rows[e] EXCEPT !.replays = @ + 1]]
      BY <1>3, <2>5, CommitEffect
    <3>3. W.mid = rows[e].mid /\ W.replayed = TRUE /\ W.att = a
      BY <2>5, <3>1, AttemptRowFields, Zenon
    <3>4. W \notin audit
      <4>1. W.mid # NoOne
        BY <3>1, <3>3, ConstantsAssumption, SMTT(30) DEF Row
      <4> QED BY <2>1, <3>3, <4>1, SMTT(30) DEF IndInv, AuditInv, Audited
    <3>5. CASE r = e
      <4>1. /\ rows'[r].replays = rows[e].replays + 1
            /\ rows'[r].mid = rows[e].mid
        BY <3>1, <3>2, <3>5, SMTT(30) DEF IndInv, TypeOK, Row
      <4> DEFINE S == Replays(audit, rows[e].mid)
      <4>2. Replays(audit', rows[e].mid) = S \cup {W} /\ W \notin S
        BY <2>1, <3>3, <3>4 DEF Replays
      <4>3. IsFiniteSet(S)
        <5>1. S \subseteq audit /\ IsFiniteSet(audit)
          BY DEF Replays, IndInv, AuditInv
        <5> QED BY <5>1, FS_Subset
      <4>4. Cardinality(S \cup {W}) = Cardinality(S) + 1
        <5> HIDE DEF S, W
        <5> QED BY <4>2, <4>3, FS_AddElement, Zenon
      <4> QED BY <1>1, <3>1, <3>5, <4>1, <4>2, <4>4
    <3>6. CASE r # e
      <4>1. rows'[r] = rows[r]
        BY <3>1, <3>2, <3>6 DEF IndInv, TypeOK
      <4>2. rows[r].mid # rows[e].mid
        BY <3>1, <3>6, <4>1, MidsAreUnique
      <4>3. Replays(audit', rows[r].mid) = Replays(audit, rows[r].mid)
        BY <2>1, <3>3, <4>2 DEF Replays
      <4> QED BY <1>1, <4>1, <4>3
    <3> QED BY <3>5, <3>6
  <2>6. work[a] \in {"finished", "conflict", "replay"}
    BY <2>1 DEF IndInv, ControlInv, Controlled
  <2> QED BY <2>3, <2>4, <2>5, <2>6
<1> QED BY <1>2, <1>3

\* The initial tables, with whatever legacy rows migration 0008 left, satisfy
\* the invariant.
LEMMA InitInv == Init => IndInv
<1> SUFFICES ASSUME Init PROVE IndInv
  OBVIOUS
<1> USE ConstantsAssumption, LegacyAssumption DEF Init
<1>1. \A r \in RowId : /\ rows[r] \in Row \cup {NoRow}
                       /\ rows[r] # NoRow => /\ r[1] = Legacy
                                             /\ rows[r].status = "committed"
                                             /\ rows[r].mid = r
                                             /\ rows[r].replays = 0
  BY SMTT(30) DEF RowId
<1>2. TypeOK
  BY <1>1 DEF TypeOK, Revisions, PCs, Outcomes, Works
<1>3. ControlInv /\ LockInv /\ NoLegacyInv
  BY DEF ControlInv, Controlled, LockInv, NoLegacyInv, Executing, Live, Working,
         Failures
<1>4. DecisionInv
  BY SMTT(30) DEF DecisionInv, Decided
<1>5. LedgerInv
  BY <1>1, SMTT(30) DEF LedgerInv
<1>6. AuditInv
  BY FS_EmptySet DEF AuditInv
<1>7. ReplaysCounted
  <2>1. \A m : {w \in audit : w.replayed /\ w.mid = m} = {}
    OBVIOUS
  <2> QED BY <1>1, <2>1, FS_EmptySet, SMTT(30) DEF ReplaysCounted
<1> QED BY <1>2, <1>3, <1>4, <1>5, <1>6, <1>7 DEF IndInv

\* The inductive invariant holds in every reachable state of the protocol.
THEOREM Invariance == Spec => []IndInv
<1>1. IndInv /\ [Next]_vars => IndInv'
  BY TypeStep, ControlStep, LockStep, NoLegacyStep, DecisionStep, LedgerStep,
     AuditStep, ReplaysStep DEF IndInv
<1> QED BY <1>1, InitInv, PTL DEF Spec

=============================================================================
