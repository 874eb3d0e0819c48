----------------------------- MODULE MCRevision -----------------------------
(***************************************************************************)
(* An instance of Revision for TLC: two models joined by one relationship.   *)
(***************************************************************************)
EXTENDS Revision, TLC

Model(id) == [table |-> "model", id |-> id, foreign |-> FALSE]

AField(id, name, model, kind) ==
    [table |-> "field", id |-> id, name |-> name, model |-> model, kind |-> kind,
     type |-> "integer", calculated |-> FALSE, via |-> "none", nullable |-> FALSE]

Pair(id, ordinal, from, to) ==
    [table |-> "column", id |-> id, relationship |-> "places", ordinal |-> ordinal,
     from |-> from, to |-> to]

OrderKey == AField("o_id", "order_id", "orders", "entity_key")
UserKey == AField("u_id", "id", "users", "entity_key")

BaseRows ==
    {Model("orders"), Model("users"), OrderKey, UserKey,
     [table |-> "relationship", id |-> "places", from |-> "orders", to |-> "users",
      direction |-> "forward", priority |-> 0],
     Pair("pair", 1, "o_id", "u_id"),
     [table |-> "writable_model", id |-> "users", model |-> "users", insert |-> TRUE,
      upsert |-> TRUE],
     [table |-> "writable_field", id |-> "w_id", model |-> "users", field |-> "u_id",
      insertable |-> TRUE, conflict |-> 1, returning |-> 1]}

\* The key of orders made a plain dimension, a metric anchored on it, and a
\* second column pair.
EditRows ==
    {[OrderKey EXCEPT !.kind = "dimension"],
     [table |-> "metric", id |-> "revenue", model |-> "orders", version |-> "1",
      type |-> "numeric", additivity |-> "additive", anchor |-> "o_id"],
     Pair("pair2", 2, "u_id", "o_id")}

Symmetry == Permutations(Sessions) \cup Permutations(Revisions)
=============================================================================
