-------------------------- MODULE MutationContract --------------------------
(***************************************************************************)
(* What a caller of the mutation API is promised, with no transactions,     *)
(* locks, connections or audit tables in sight (ADR 0010 and ADR 0011,      *)
(* decisions 6 and 8).  An idempotency scope is bound at most once, to one  *)
(* mutation of one document by one role at one revision.  A call is         *)
(* answered at most once, and its answer is the truth about the ledger:     *)
(* `failed` means that the call will never take effect; only `unknown`, or  *)
(* no answer at all, leaves that open.                                      *)
(***************************************************************************)
CONSTANTS Attempts, Requests, Keys, Revisions, RowId, Legacy, LegacyLedger,
          NoRow, NoOne

VARIABLES
    ledger,    \* what each scope is bound to
    request,   \* what each call asks for
    basis,     \* the revision each call is compiled against
    answer     \* what each caller was told

vars == <<ledger, request, basis, answer>>

Answer(kind, m) == [kind |-> kind, mid |-> m]
Pending == Answer("pending", NoOne)

Scope(q) == <<q.auth, q.key>>
LegacyScope(q) == <<Legacy, q.key>>

\* The binding that governs a request: its own, or the key's legacy one.
Governing(q) ==
    IF ledger[Scope(q)] # NoRow THEN ledger[Scope(q)] ELSE ledger[LegacyScope(q)]

SameMutation(e, a) ==
    e.role = request[a].role /\ e.lsm = request[a].lsm /\ e.rev = basis[a]

Applied(a) ==
    ledger[Scope(request[a])] # NoRow /\ ledger[Scope(request[a])].mid = a

Init ==
    /\ ledger = [r \in RowId |->
                    IF r[1] = Legacy THEN LegacyLedger[r[2]] ELSE NoRow]
    /\ request \in [Attempts -> Requests]
    /\ basis \in [Attempts -> Revisions]
    /\ answer = [a \in Attempts |-> Pending]

\* A call looks up the published revision.
Resolve(a) ==
    /\ answer[a] = Pending
    /\ ~Applied(a)
    /\ \E v \in Revisions : basis' = [basis EXCEPT ![a] = v]
    /\ UNCHANGED <<ledger, request, answer>>

\* A call takes effect: never in a bound scope, never after `failed`, but
\* possibly after `unknown`.
Apply(a) ==
    LET q == request[a] IN
    /\ answer[a].kind \in {"pending", "unknown"}
    /\ ledger[Scope(q)] = NoRow
    /\ ledger[LegacyScope(q)] = NoRow
    /\ ledger' = [ledger EXCEPT ![Scope(q)] =
                     [subj |-> q.subj, role |-> q.role, lsm |-> q.lsm,
                      rev |-> basis[a], mid |-> a]]
    /\ UNCHANGED <<request, basis, answer>>

Reply(a, reply) ==
    /\ answer[a] = Pending
    /\ answer' = [answer EXCEPT ![a] = reply]
    /\ UNCHANGED <<ledger, request, basis>>

AnswerOk(a) == Applied(a) /\ Reply(a, Answer("ok", a))

AnswerReplayed(a) ==
    LET e == Governing(request[a]) IN
    /\ e # NoRow
    /\ e.mid # a
    /\ SameMutation(e, a)
    /\ Reply(a, Answer("replayed", e.mid))

\* Another mutation, or a legacy binding of another caller.
AnswerConflict(a) ==
    LET e == Governing(request[a]) IN
    /\ e # NoRow
    /\ e.mid # a
    /\ \/ ~SameMutation(e, a)
       \/ ledger[Scope(request[a])] = NoRow /\ e.subj # request[a].subj
    /\ Reply(a, Answer("conflict", NoOne))

AnswerFailed(a) == ~Applied(a) /\ Reply(a, Answer("failed", NoOne))

AnswerUnknown(a) == Reply(a, Answer("unknown", NoOne))

Next ==
    \E a \in Attempts :
        \/ Resolve(a) \/ Apply(a)
        \/ AnswerOk(a) \/ AnswerReplayed(a) \/ AnswerConflict(a)
        \/ AnswerFailed(a) \/ AnswerUnknown(a)

Spec == Init /\ [][Next]_vars

=============================================================================
