------------------------- MODULE MutationInvariant -------------------------
(***************************************************************************)
(* The inductive invariant behind the safety properties of Mutation, in     *)
(* four parts: where a call is against what its transaction holds, who      *)
(* holds a row, what a row says, what the audit table says.                 *)
(***************************************************************************)
EXTENDS MutationRefinement

Live == {"open", "commit"}
Executing == {"claimed", "ran", "finished"}

\* The stage of the call determines what its transaction has written.
Controlled(a) ==
    /\ pc[a] \in {"idle", "prepare", "begin"} =>
          tx[a] = "none" /\ outcome[a] = "none"
    /\ tx[a] = "none" => work[a] = "none"
    /\ pc[a] \in {"select", "insert", "reselect"} => work[a] = "none"
    /\ pc[a] = "run" => work[a] = "claimed"
    /\ pc[a] = "finish" => work[a] = "ran"
    /\ pc[a] \in {"commit", "sent"} =>
          work[a] \in {"finished", "conflict", "replay"}
    /\ pc[a] \in Working \ {"record"} => outcome[a] = "none"
    /\ pc[a] = "record" => outcome[a] \in Failures
    /\ pc[a] = "crashed" => outcome[a] \in Failures \cup {"none"}
    /\ tx[a] \in {"commit", "committed"} =>
          /\ pc[a] \in {"sent", "record", "done", "crashed"}
          /\ work[a] \in {"finished", "conflict", "replay"}
          /\ outcome[a] \notin {"rejected", "rolled_back", "unavailable"}
    /\ outcome[a] = "ok" => tx[a] = "committed" /\ work[a] = "finished"
    /\ outcome[a] = "replayed" => tx[a] = "committed" /\ work[a] = "replay"
    /\ outcome[a] = "conflict" => tx[a] = "committed" /\ work[a] = "conflict"
    /\ work[a] \in Executing \cup {"conflict"} => mid[a] = a

ControlInv == \A a \in Attempts : Controlled(a)

\* Only a live transaction holds a row; one that executes holds its own row,
\* which nobody else has bound.
LockInv ==
    /\ \A r \in RowId : holder[r] # NoOne => tx[holder[r]] \in Live
    /\ \A a \in Attempts :
          work[a] \in Executing /\ tx[a] \in Live =>
              holder[Own(req[a])] = a /\ rows[Own(req[a])] = NoRow

\* Nobody passes the legacy lookup of a key that has a legacy row.
NoLegacyInv ==
    \A a \in Attempts :
        work[a] \in Executing \/ pc[a] \in {"insert", "reselect"} =>
            rows[LegacyId(req[a])] = NoRow

\* A replay or a conflict was decided on the row that still governs the key.
Decided(a) ==
    LET r == Existing(req[a]) IN
    /\ work[a] \in {"replay", "conflict"} => rows[r] # NoRow
    /\ work[a] = "replay" =>
          ~Mismatch(r, req[a], rev[a]) /\ mid[a] = rows[r].mid
    /\ work[a] = "conflict" => Mismatch(r, req[a], rev[a])

DecisionInv == \A a \in Attempts : Decided(a)

\* A row belongs to the one call that executed under it, or to the legacy
\* scheme.
LedgerInv ==
    /\ effects = {a \in Attempts : tx[a] = "committed" /\ work[a] = "finished"}
    /\ \A a \in effects :
          LET r == rows[Own(req[a])] IN
          /\ r # NoRow
          /\ r.mid = a /\ r.subj = req[a].subj /\ r.role = req[a].role
          /\ r.lsm = req[a].lsm /\ r.rev = rev[a]
    /\ \A r \in RowId : rows[r] # NoRow =>
          /\ rows[r].status = "committed"
          /\ r[1] = Legacy => rows[r].mid = r
          /\ r[1] # Legacy =>
                rows[r].mid \in effects /\ r = Own(req[rows[r].mid])

\* An audit row is the failure row of a call that has returned, or the row
\* that a committed transaction wrote.
Audited(w) ==
    \/ /\ w.mid = NoOne
       /\ w.status \in Failures
       /\ w.replayed = FALSE
       /\ pc[w.att] = "done"
       /\ w.status # "indeterminate" => tx[w.att] \notin {"commit", "committed"}
    \/ tx[w.att] = "committed" /\ w = AttemptRow(w.att)

AuditInv ==
    /\ IsFiniteSet(audit)
    /\ \A w \in audit : Audited(w)
    /\ \A a \in Attempts : tx[a] = "committed" => AttemptRow(a) \in audit

\* The inductive invariant: the four parts with the type invariant and the
\* count of the replays (execute_compiled, claim_mutation, finish_mutation and
\* record_mutation_failure together keep it).
IndInv ==
    /\ TypeOK
    /\ ControlInv
    /\ LockInv
    /\ NoLegacyInv
    /\ DecisionInv
    /\ LedgerInv
    /\ AuditInv
    /\ ReplaysCounted

=============================================================================
