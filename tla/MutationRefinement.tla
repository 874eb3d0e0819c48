------------------------- MODULE MutationRefinement -------------------------
(***************************************************************************)
(* Mutation implements MutationContract.  The ledger is the idempotency     *)
(* table without its bookkeeping columns; a call has an answer once         *)
(* execute_with_cancel has returned.                                        *)
(***************************************************************************)
EXTENDS Mutation

Binding(row) ==
    IF row = NoRow THEN NoRow
    ELSE [subj |-> row.subj, role |-> row.role, lsm |-> row.lsm,
          rev |-> row.rev, mid |-> row.mid]

\* The answer that an outcome of execute_with_cancel amounts to: an error of
\* the failure audit says nothing about the mutation.
AnswerKind(o) ==
    CASE o \in {"ok", "replayed", "conflict"} -> o
      [] o \in {"rejected", "rolled_back", "unavailable"} -> "failed"
      [] OTHER -> "unknown"

Answered(a) ==
    IF pc[a] = "done"
    THEN [kind |-> AnswerKind(outcome[a]),
          mid |-> IF outcome[a] \in {"ok", "replayed"} THEN mid[a] ELSE NoOne]
    ELSE [kind |-> "pending", mid |-> NoOne]

Ledger == [r \in RowId |-> Binding(rows[r])]
LegacyLedger == [k \in Keys |-> Binding(LegacyRows[k])]
Answers == [a \in Attempts |-> Answered(a)]

Contract == INSTANCE MutationContract WITH
    ledger <- Ledger, request <- req, basis <- rev, answer <- Answers

\* Whatever the transactions, the locks and the broken connections do, callers
\* see the contract: a scope bound once, and answers that are the truth about
\* it (execute_with_cancel with claim_mutation and finish_mutation).
ContractHolds == Contract!Spec

=============================================================================
