----------------------------- MODULE MCMutation -----------------------------
(***************************************************************************)
(* Instances of Mutation for TLC.                                          *)
(***************************************************************************)
EXTENDS MutationInvariant, TLC

CONSTANTS u1, u2, s1, s2, r1, r2, k1, k2, l1, l2

Ask(u, s, r, l) == [auth |-> u, subj |-> s, role |-> r, key |-> k1, lsm |-> l]

\* One caller that retries, and uses its key for a second document too.
RetryRequests == {Ask(u1, s1, r1, l1), Ask(u1, s1, r1, l2)}
NoLegacy == [k \in Keys |-> NoRow]

\* Callers that differ in document, role, subject (a rotated audit pseudonym)
\* and authority, over a key with or without a row of the legacy scheme.
BindingRequests ==
    {Ask(u1, s1, r1, l1), Ask(u1, s1, r1, l2), Ask(u1, s1, r2, l1),
     Ask(u1, s2, r1, l1), Ask(u2, s2, r1, l1)}
    \cup [auth: {u1}, subj: {s1}, role: {r1, r2}, key: {k2}, lsm: {l1}]
    \cup [auth: {u2}, subj: {s2}, role: {r1}, key: {k2}, lsm: {l1}]
LegacyOnFirst ==
    [k \in Keys |-> IF k # k1 THEN NoRow ELSE
        [status |-> "committed", subj |-> s1, role |-> r1, lsm |-> l1,
         rev |-> 1, mid |-> <<Legacy, k>>, replays |-> 0]]

Symmetric == Permutations(Attempts)
=============================================================================
